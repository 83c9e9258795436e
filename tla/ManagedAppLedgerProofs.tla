----------------------- MODULE ManagedAppLedgerProofs -----------------------
(***************************************************************************)
(* Proofs about ManagedApp, on top of its types: no release is deleted     *)
(* under a running unit.                                                   *)
(***************************************************************************)
EXTENDS ManagedAppTypeProofs

-----------------------------------------------------------------------------
(* The inductive invariant. *)

\* What the latest confirmed sweep still says of the ledger.
LedgerKnown ==
    /\ pc = "settle" => units \subseteq Kept(SettleKeep)
    /\ pc = "start" => units \subseteq Kept(Beside)
    /\ pc \in {"swap", "route", "persist"} /\ who # "deploy" => units \subseteq {AppUnit(Launch)}
    /\ pc \in {"route", "persist"} => current = Launch
    /\ pc = "gc" => units \subseteq {AppUnit(Launch)}
    /\ pc = "pre_start" => ~Migrating

\* The release about to be launched is there, and nothing else runs from a
\* release this deploy extracted.
OwnRelease ==
    /\ pc \in UnstartedSteps \cup {"migrating"} => target \in releases
    /\ "extracted" \in notes =>
       /\ pc \in UnstartedSteps \cup {"fetch", "prepare"}
             \/ (pc = "cleanup" /\ "doubt" \notin notes)
          => \A u \in units : u.version # target
       /\ pc = "migrating" => \A u \in units : u.version = target => u = PreUnit(Launch)
       /\ pc = "soak" => \A u \in units : u.version = target => u = AppUnit(Launch)

LedgerInv == TypeOK /\ JobShape /\ LedgerKnown /\ OwnRelease /\ ReleaseUnderEveryUnit

-----------------------------------------------------------------------------
(* The ledger of units, and the releases under them. *)

\* What a confirmed sweep established holds until it is used: no step of
\* another actor adds a unit meanwhile.
LEMMA LedgerStep ==
  ASSUME TypeOK, JobShape, LedgerKnown, [Next]_vars
  PROVE  LedgerKnown'
<1> USE DEF LedgerKnown, JobShape, DeploySteps, RecoverySteps, WatchdogSteps, SettleSteps,
      NamedSteps, disk, memory, locals, history, Kept, SettleKeep, RecoverKeep, Beside,
      Launch, Inst, AppUnit, PreUnit, Migrating, AppUnits
<1>1. CASE AdmitStep
  <2>1. CASE SettleSweep
    BY <2>1 DEF SettleSweep, SweepConfirmed, SweepUnconfirmed, UnitsUnconfirmed, Goto, Unlock
  <2>2. CASE Settle
    BY <2>2 DEF Settle, Goto
  <2>3. CASE SettleRecord
    BY <2>3 DEF SettleRecord, Goto
  <2>4. CASE SettleClear
    BY <2>4 DEF SettleClear, ClearMarker, Goto, Unlock
  <2>5. CASE Refuse
    BY <2>5 DEF Refuse, Unlock
  <2>6. CASE Accept
    BY <2>6 DEF Accept, Goto, FailTo
  <2>7. CASE Fetch
    BY <2>7 DEF Fetch, Goto, FailTo
  <2> HIDE DEF LedgerKnown, JobShape, DeploySteps, RecoverySteps, WatchdogSteps, SettleSteps,
        NamedSteps, disk, memory, locals, history, Kept, SettleKeep, RecoverKeep, Beside,
        Launch, Inst, AppUnit, PreUnit, Migrating, AppUnits
  <2> QED
    BY <1>1, <2>1, <2>2, <2>3, <2>4, <2>5, <2>6, <2>7 DEF AdmitStep
<1>2. CASE LaunchStep
  <2>1. CASE Prepare
    BY <2>1 DEF Prepare
  <2>2. CASE PrepareFailed
    BY <2>2 DEF PrepareFailed, RelaunchFailed, FailTo, Unlock
  <2>3. CASE PreSweep
    BY <2>3 DEF PreSweep, SweepConfirmed, SweepUnconfirmed, UnitsUnconfirmed, Goto, FailTo
  <2>4. CASE RunPreStart
    BY <2>4 DEF RunPreStart, Goto, FailTo
  <2>5. CASE Migrated
    BY <2>5 DEF Migrated, Goto, FailTo
  <2>6. CASE StartSweep
    BY <2>6
       DEF StartSweep, SweepConfirmed, SweepUnconfirmed, UnitsUnconfirmed, RelaunchFailed,
           Goto, FailTo, Unlock
  <2>7. CASE Start
    BY <2>7 DEF Start, Goto
  <2>8. CASE StartFailed
    BY <2>8 DEF StartFailed, RelaunchFailed, FailTo, Unlock
  <2>9. CASE RelaunchRefused
    BY <2>9 DEF RelaunchRefused, Unlock
  <2>10. CASE Soak
    BY <2>10 DEF Soak, StopConfirmed, StopUnconfirmed, Goto, FailTo
  <2> HIDE DEF LedgerKnown, JobShape, DeploySteps, RecoverySteps, WatchdogSteps, SettleSteps,
        NamedSteps, disk, memory, locals, history, Kept, SettleKeep, RecoverKeep, Beside,
        Launch, Inst, AppUnit, PreUnit, Migrating, AppUnits
  <2> QED
    BY <1>2, <2>1, <2>2, <2>3, <2>4, <2>5, <2>6, <2>7, <2>8, <2>9, <2>10 DEF LaunchStep
<1>3. CASE CutoverStep
  <2>1. CASE Swap
    BY <2>1 DEF Swap, Goto
  <2>2. CASE Route
    BY <2>2 DEF Route, Goto
  <2>3. CASE Persist
    BY <2>3, NoneAssumption DEF Persist, Goto, Unlock
  <2>4. CASE Drain
    BY <2>4 DEF Drain, StopConfirmed, StopUnconfirmed, Goto
  <2>5. CASE FinalSweep
    BY <2>5 DEF FinalSweep, SweepConfirmed, SweepUnconfirmed, UnitsUnconfirmed, Goto
  <2>6. CASE CollectReleases
    BY <2>6 DEF CollectReleases, Goto
  <2>7. CASE Cleanup
    BY <2>7 DEF Cleanup, Goto
  <2>8. CASE RecordDeploy
    BY <2>8 DEF RecordDeploy, Goto
  <2>9. CASE EndDeploy
    BY <2>9 DEF EndDeploy, ClearMarker, Unlock
  <2> HIDE DEF LedgerKnown, JobShape, DeploySteps, RecoverySteps, WatchdogSteps, SettleSteps,
        NamedSteps, disk, memory, locals, history, Kept, SettleKeep, RecoverKeep, Beside,
        Launch, Inst, AppUnit, PreUnit, Migrating, AppUnits
  <2> QED
    BY <1>3, <2>1, <2>2, <2>3, <2>4, <2>5, <2>6, <2>7, <2>8, <2>9 DEF CutoverStep
<1>4. CASE RecoveryStep
  <2>1. CASE BeginRecovery
    BY <2>1, Zenon DEF BeginRecovery
  <2>2. CASE Reattach
    BY <2>2 DEF Reattach, Goto
  <2>3. CASE Adopt
    BY <2>3 DEF Adopt, Goto
  <2>4. CASE NotAttached
    BY <2>4 DEF NotAttached, Goto
  <2>5. CASE ReattachUnreadable
    BY <2>5 DEF ReattachUnreadable, Unlock
  <2>6. CASE RecoverSweep
    BY <2>6
       DEF RecoverSweep, SweepConfirmed, SweepUnconfirmed, UnitsUnconfirmed, Goto, Unlock
  <2> HIDE DEF LedgerKnown, JobShape, DeploySteps, RecoverySteps, WatchdogSteps, SettleSteps,
        NamedSteps, disk, memory, locals, history, Kept, SettleKeep, RecoverKeep, Beside,
        Launch, Inst, AppUnit, PreUnit, Migrating, AppUnits
  <2> QED
    BY <1>4, <2>1, <2>2, <2>3, <2>4, <2>5, <2>6 DEF RecoveryStep
<1>5. CASE WatchdogStep
  <2>1. CASE WatchdogUnroutes
    BY <2>1 DEF WatchdogUnroutes
  <2>2. CASE WatchdogStandsDown
    BY <2>2 DEF WatchdogStandsDown
  <2>3. CASE WatchdogLocks
    BY <2>3 DEF WatchdogLocks
  <2>4. CASE WatchdogSweep
    BY <2>4
       DEF WatchdogSweep, SweepConfirmed, SweepUnconfirmed, UnitsUnconfirmed, Goto, Unlock
  <2>5. CASE WatchdogStop
    BY <2>5 DEF WatchdogStop, StopConfirmed, Goto, Unlock
  <2> HIDE DEF LedgerKnown, JobShape, DeploySteps, RecoverySteps, WatchdogSteps, SettleSteps,
        NamedSteps, disk, memory, locals, history, Kept, SettleKeep, RecoverKeep, Beside,
        Launch, Inst, AppUnit, PreUnit, Migrating, AppUnits
  <2> QED
    BY <1>5, <2>1, <2>2, <2>3, <2>4, <2>5 DEF WatchdogStep
<1>6. CASE WatchdogNotices
  BY <1>6 DEF WatchdogNotices
<1>7. CASE UnitExits
  BY <1>7 DEF UnitExits
<1>8. CASE ExitObserved
  BY <1>8 DEF ExitObserved
<1>9. CASE OrphanMigrationEnds
  BY <1>9 DEF OrphanMigrationEnds
<1>10. CASE MotelStops
  BY <1>10 DEF MotelStops
<1>11. CASE MotelStarts
  BY <1>11 DEF MotelStarts
<1>12. CASE Reload
  BY <1>12 DEF Reload
<1>13. CASE \E v \in Versions, rollback \in BOOLEAN : BeginDeploy(v, rollback)
  BY <1>13 DEF BeginDeploy
<1>14. CASE UNCHANGED vars
  BY <1>14 DEF vars
<1> HIDE DEF LedgerKnown, JobShape, DeploySteps, RecoverySteps, WatchdogSteps, SettleSteps,
      NamedSteps, disk, memory, locals, history, Kept, SettleKeep, RecoverKeep, Beside,
      Launch, Inst, AppUnit, PreUnit, Migrating, AppUnits
<1> QED
  BY <1>1, <1>2, <1>3, <1>4, <1>5, <1>6, <1>7, <1>8, <1>9, <1>10, <1>11, <1>12, <1>13, <1>14
     DEF Next, DeployStep

\* Nothing but the deploy itself runs from the release it extracted, until it
\* has cut over or cleaned up.
LEMMA OwnStep ==
  ASSUME TypeOK, JobShape, LedgerKnown, OwnRelease, ReleaseUnderEveryUnit, [Next]_vars
  PROVE  OwnRelease'
<1> USE DEF OwnRelease, JobShape, DeploySteps, RecoverySteps, WatchdogSteps, SettleSteps,
      NamedSteps, UnstartedSteps, disk, memory, locals, history, Launch, Inst, AppUnit,
      PreUnit, AppUnits
<1>1. CASE AdmitStep
  <2>1. CASE SettleSweep
    BY <2>1 DEF SettleSweep, SweepConfirmed, SweepUnconfirmed, UnitsUnconfirmed, Goto, Unlock
  <2>2. CASE Settle
    BY <2>2 DEF Settle, Goto
  <2>3. CASE SettleRecord
    BY <2>3 DEF SettleRecord, Goto
  <2>4. CASE SettleClear
    BY <2>4 DEF SettleClear, ClearMarker, Goto, Unlock
  <2>5. CASE Refuse
    BY <2>5 DEF Refuse, Unlock
  <2>6. CASE Accept
    BY <2>6 DEF Accept, Goto, FailTo, ReleaseUnderEveryUnit
  <2>7. CASE Fetch
    BY <2>7 DEF Fetch, Goto, FailTo
  <2> HIDE DEF OwnRelease, JobShape, DeploySteps, RecoverySteps, WatchdogSteps, SettleSteps,
        NamedSteps, UnstartedSteps, disk, memory, locals, history, Launch, Inst, AppUnit,
        PreUnit, AppUnits
  <2> QED
    BY <1>1, <2>1, <2>2, <2>3, <2>4, <2>5, <2>6, <2>7 DEF AdmitStep
<1>2. CASE LaunchStep
  <2>1. CASE Prepare
    BY <2>1 DEF Prepare
  <2>2. CASE PrepareFailed
    BY <2>2 DEF PrepareFailed, RelaunchFailed, FailTo, Unlock
  <2>3. CASE PreSweep
    BY <2>3 DEF PreSweep, SweepConfirmed, SweepUnconfirmed, UnitsUnconfirmed, Goto, FailTo
  <2>4. CASE RunPreStart
    BY <2>4 DEF RunPreStart, Goto, FailTo
  <2>5. CASE Migrated
    <3>1. "extracted" \in notes => \A u \in units \ {PreUnit(Launch)} : u.version # target
      BY <2>5 DEF Migrated
    <3>2. target' = target /\ ("extracted" \in notes' => "extracted" \in notes)
      BY <2>5 DEF Migrated, Goto, FailTo
    <3>3. pc' = "start_sweep" => target \in releases
      BY <2>5 DEF Migrated, Goto, FailTo
    <3> QED
      BY <2>5, <3>1, <3>2, <3>3 DEF Migrated, Goto, FailTo
  <2>6. CASE StartSweep
    BY <2>6
       DEF StartSweep, SweepConfirmed, SweepUnconfirmed, UnitsUnconfirmed, RelaunchFailed,
           Goto, FailTo, Unlock
  <2>7. CASE Start
    BY <2>7 DEF Start, Goto
  <2>8. CASE StartFailed
    BY <2>8 DEF StartFailed, RelaunchFailed, FailTo, Unlock
  <2>9. CASE RelaunchRefused
    BY <2>9 DEF RelaunchRefused, Unlock
  <2>10. CASE Soak
    BY <2>10 DEF Soak, StopConfirmed, StopUnconfirmed, Goto, FailTo
  <2> HIDE DEF OwnRelease, JobShape, DeploySteps, RecoverySteps, WatchdogSteps, SettleSteps,
        NamedSteps, UnstartedSteps, disk, memory, locals, history, Launch, Inst, AppUnit,
        PreUnit, AppUnits
  <2> QED
    BY <1>2, <2>1, <2>2, <2>3, <2>4, <2>5, <2>6, <2>7, <2>8, <2>9, <2>10 DEF LaunchStep
<1>3. CASE CutoverStep
  <2>1. CASE Swap
    BY <2>1 DEF Swap, Goto
  <2>2. CASE Route
    BY <2>2 DEF Route, Goto
  <2>3. CASE Persist
    BY <2>3 DEF Persist, Goto, Unlock
  <2>4. CASE Drain
    BY <2>4 DEF Drain, StopConfirmed, StopUnconfirmed, Goto
  <2>5. CASE FinalSweep
    BY <2>5 DEF FinalSweep, SweepConfirmed, SweepUnconfirmed, UnitsUnconfirmed, Goto
  <2>6. CASE CollectReleases
    BY <2>6 DEF CollectReleases, Goto
  <2>7. CASE Cleanup
    BY <2>7 DEF Cleanup, Goto
  <2>8. CASE RecordDeploy
    BY <2>8 DEF RecordDeploy, Goto
  <2>9. CASE EndDeploy
    BY <2>9 DEF EndDeploy, ClearMarker, Unlock
  <2> HIDE DEF OwnRelease, JobShape, DeploySteps, RecoverySteps, WatchdogSteps, SettleSteps,
        NamedSteps, UnstartedSteps, disk, memory, locals, history, Launch, Inst, AppUnit,
        PreUnit, AppUnits
  <2> QED
    BY <1>3, <2>1, <2>2, <2>3, <2>4, <2>5, <2>6, <2>7, <2>8, <2>9 DEF CutoverStep
<1>4. CASE RecoveryStep
  <2>1. CASE BeginRecovery
    BY <2>1, Zenon DEF BeginRecovery
  <2>2. CASE Reattach
    BY <2>2 DEF Reattach, Goto
  <2>3. CASE Adopt
    BY <2>3 DEF Adopt, Goto
  <2>4. CASE NotAttached
    BY <2>4 DEF NotAttached, Goto
  <2>5. CASE ReattachUnreadable
    BY <2>5 DEF ReattachUnreadable, Unlock
  <2>6. CASE RecoverSweep
    BY <2>6
       DEF RecoverSweep, SweepConfirmed, SweepUnconfirmed, UnitsUnconfirmed, Goto, Unlock
  <2> HIDE DEF OwnRelease, JobShape, DeploySteps, RecoverySteps, WatchdogSteps, SettleSteps,
        NamedSteps, UnstartedSteps, disk, memory, locals, history, Launch, Inst, AppUnit,
        PreUnit, AppUnits
  <2> QED
    BY <1>4, <2>1, <2>2, <2>3, <2>4, <2>5, <2>6 DEF RecoveryStep
<1>5. CASE WatchdogStep
  <2>1. CASE WatchdogUnroutes
    BY <2>1 DEF WatchdogUnroutes
  <2>2. CASE WatchdogStandsDown
    BY <2>2 DEF WatchdogStandsDown
  <2>3. CASE WatchdogLocks
    BY <2>3 DEF WatchdogLocks
  <2>4. CASE WatchdogSweep
    BY <2>4
       DEF WatchdogSweep, SweepConfirmed, SweepUnconfirmed, UnitsUnconfirmed, Goto, Unlock
  <2>5. CASE WatchdogStop
    BY <2>5 DEF WatchdogStop, StopConfirmed, Goto, Unlock
  <2> HIDE DEF OwnRelease, JobShape, DeploySteps, RecoverySteps, WatchdogSteps, SettleSteps,
        NamedSteps, UnstartedSteps, disk, memory, locals, history, Launch, Inst, AppUnit,
        PreUnit, AppUnits
  <2> QED
    BY <1>5, <2>1, <2>2, <2>3, <2>4, <2>5 DEF WatchdogStep
<1>6. CASE WatchdogNotices
  BY <1>6 DEF WatchdogNotices
<1>7. CASE UnitExits
  BY <1>7 DEF UnitExits
<1>8. CASE ExitObserved
  BY <1>8 DEF ExitObserved
<1>9. CASE OrphanMigrationEnds
  BY <1>9 DEF OrphanMigrationEnds
<1>10. CASE MotelStops
  BY <1>10 DEF MotelStops
<1>11. CASE MotelStarts
  BY <1>11 DEF MotelStarts
<1>12. CASE Reload
  BY <1>12 DEF Reload
<1>13. CASE \E v \in Versions, rollback \in BOOLEAN : BeginDeploy(v, rollback)
  BY <1>13 DEF BeginDeploy
<1>14. CASE UNCHANGED vars
  BY <1>14 DEF vars
<1> HIDE DEF OwnRelease, JobShape, DeploySteps, RecoverySteps, WatchdogSteps, SettleSteps,
      NamedSteps, UnstartedSteps, disk, memory, locals, history, Launch, Inst, AppUnit,
      PreUnit, AppUnits
<1> QED
  BY <1>1, <1>2, <1>3, <1>4, <1>5, <1>6, <1>7, <1>8, <1>9, <1>10, <1>11, <1>12, <1>13, <1>14
     DEF Next, DeployStep

\* Every step leaves the release of every running unit on disk.
LEMMA ReleaseStep ==
  ASSUME TypeOK, JobShape, LedgerKnown, OwnRelease, ReleaseUnderEveryUnit, [Next]_vars
  PROVE  ReleaseUnderEveryUnit'
<1> USE DEF ReleaseUnderEveryUnit, disk, memory, locals, history, Launch, Inst, AppUnit,
      PreUnit, AppUnits
<1>1. CASE AdmitStep
  <2>1. CASE SettleSweep
    BY <2>1 DEF SettleSweep, SweepConfirmed, SweepUnconfirmed, UnitsUnconfirmed, Goto, Unlock
  <2>2. CASE Settle
    BY <2>2 DEF Settle, Goto, LedgerKnown, MarkerFinished, Kept
  <2>3. CASE SettleRecord
    BY <2>3 DEF SettleRecord, Goto
  <2>4. CASE SettleClear
    BY <2>4 DEF SettleClear, ClearMarker, Goto, Unlock
  <2>5. CASE Refuse
    BY <2>5 DEF Refuse, Unlock
  <2>6. CASE Accept
    BY <2>6 DEF Accept, Goto, FailTo
  <2>7. CASE Fetch
    BY <2>7 DEF Fetch, Goto, FailTo
  <2> HIDE DEF ReleaseUnderEveryUnit, disk, memory, locals, history, Launch, Inst, AppUnit,
        PreUnit, AppUnits
  <2> QED
    BY <1>1, <2>1, <2>2, <2>3, <2>4, <2>5, <2>6, <2>7 DEF AdmitStep
<1>2. CASE LaunchStep
  <2>1. CASE Prepare
    BY <2>1 DEF Prepare
  <2>2. CASE PrepareFailed
    BY <2>2 DEF PrepareFailed, RelaunchFailed, FailTo, Unlock
  <2>3. CASE PreSweep
    BY <2>3 DEF PreSweep, SweepConfirmed, SweepUnconfirmed, UnitsUnconfirmed, Goto, FailTo
  <2>4. CASE RunPreStart
    BY <2>4 DEF RunPreStart, Goto, FailTo, OwnRelease, UnstartedSteps
  <2>5. CASE Migrated
    BY <2>5 DEF Migrated, Goto, FailTo
  <2>6. CASE StartSweep
    BY <2>6
       DEF StartSweep, SweepConfirmed, SweepUnconfirmed, UnitsUnconfirmed, RelaunchFailed,
           Goto, FailTo, Unlock
  <2>7. CASE Start
    BY <2>7 DEF Start, Goto, OwnRelease, UnstartedSteps
  <2>8. CASE StartFailed
    BY <2>8 DEF StartFailed, RelaunchFailed, FailTo, Unlock, OwnRelease, UnstartedSteps
  <2>9. CASE RelaunchRefused
    BY <2>9 DEF RelaunchRefused, Unlock
  <2>10. CASE Soak
    BY <2>10 DEF Soak, StopConfirmed, StopUnconfirmed, Goto, FailTo
  <2> HIDE DEF ReleaseUnderEveryUnit, disk, memory, locals, history, Launch, Inst, AppUnit,
        PreUnit, AppUnits
  <2> QED
    BY <1>2, <2>1, <2>2, <2>3, <2>4, <2>5, <2>6, <2>7, <2>8, <2>9, <2>10 DEF LaunchStep
<1>3. CASE CutoverStep
  <2>1. CASE Swap
    BY <2>1 DEF Swap, Goto
  <2>2. CASE Route
    BY <2>2 DEF Route, Goto
  <2>3. CASE Persist
    BY <2>3 DEF Persist, Goto, Unlock
  <2>4. CASE Drain
    BY <2>4 DEF Drain, StopConfirmed, StopUnconfirmed, Goto
  <2>5. CASE FinalSweep
    BY <2>5 DEF FinalSweep, SweepConfirmed, SweepUnconfirmed, UnitsUnconfirmed, Goto
  <2>6. CASE CollectReleases
    BY <2>6 DEF CollectReleases, Goto, LedgerKnown
  <2>7. CASE Cleanup
    BY <2>7 DEF Cleanup, Goto, OwnRelease
  <2>8. CASE RecordDeploy
    BY <2>8 DEF RecordDeploy, Goto
  <2>9. CASE EndDeploy
    BY <2>9 DEF EndDeploy, ClearMarker, Unlock
  <2> HIDE DEF ReleaseUnderEveryUnit, disk, memory, locals, history, Launch, Inst, AppUnit,
        PreUnit, AppUnits
  <2> QED
    BY <1>3, <2>1, <2>2, <2>3, <2>4, <2>5, <2>6, <2>7, <2>8, <2>9 DEF CutoverStep
<1>4. CASE RecoveryStep
  <2>1. CASE BeginRecovery
    BY <2>1 DEF BeginRecovery
  <2>2. CASE Reattach
    BY <2>2 DEF Reattach, Goto
  <2>3. CASE Adopt
    BY <2>3 DEF Adopt, Goto
  <2>4. CASE NotAttached
    BY <2>4 DEF NotAttached, Goto
  <2>5. CASE ReattachUnreadable
    BY <2>5 DEF ReattachUnreadable, Unlock
  <2>6. CASE RecoverSweep
    BY <2>6
       DEF RecoverSweep, SweepConfirmed, SweepUnconfirmed, UnitsUnconfirmed, Goto, Unlock
  <2> HIDE DEF ReleaseUnderEveryUnit, disk, memory, locals, history, Launch, Inst, AppUnit,
        PreUnit, AppUnits
  <2> QED
    BY <1>4, <2>1, <2>2, <2>3, <2>4, <2>5, <2>6 DEF RecoveryStep
<1>5. CASE WatchdogStep
  <2>1. CASE WatchdogUnroutes
    BY <2>1 DEF WatchdogUnroutes
  <2>2. CASE WatchdogStandsDown
    BY <2>2 DEF WatchdogStandsDown
  <2>3. CASE WatchdogLocks
    BY <2>3 DEF WatchdogLocks
  <2>4. CASE WatchdogSweep
    BY <2>4
       DEF WatchdogSweep, SweepConfirmed, SweepUnconfirmed, UnitsUnconfirmed, Goto, Unlock
  <2>5. CASE WatchdogStop
    BY <2>5 DEF WatchdogStop, StopConfirmed, Goto, Unlock
  <2> HIDE DEF ReleaseUnderEveryUnit, disk, memory, locals, history, Launch, Inst, AppUnit,
        PreUnit, AppUnits
  <2> QED
    BY <1>5, <2>1, <2>2, <2>3, <2>4, <2>5 DEF WatchdogStep
<1>6. CASE WatchdogNotices
  BY <1>6 DEF WatchdogNotices
<1>7. CASE UnitExits
  BY <1>7 DEF UnitExits
<1>8. CASE ExitObserved
  BY <1>8 DEF ExitObserved
<1>9. CASE OrphanMigrationEnds
  BY <1>9 DEF OrphanMigrationEnds
<1>10. CASE MotelStops
  BY <1>10 DEF MotelStops
<1>11. CASE MotelStarts
  BY <1>11 DEF MotelStarts
<1>12. CASE Reload
  BY <1>12 DEF Reload
<1>13. CASE \E v \in Versions, rollback \in BOOLEAN : BeginDeploy(v, rollback)
  BY <1>13 DEF BeginDeploy
<1>14. CASE UNCHANGED vars
  BY <1>14 DEF vars
<1> HIDE DEF ReleaseUnderEveryUnit, disk, memory, locals, history, Launch, Inst, AppUnit,
      PreUnit, AppUnits
<1> QED
  BY <1>1, <1>2, <1>3, <1>4, <1>5, <1>6, <1>7, <1>8, <1>9, <1>10, <1>11, <1>12, <1>13, <1>14
     DEF Next, DeployStep

\* The ledger invariant is inductive.
LEMMA LedgerInvariant == Spec => []LedgerInv
<1>1. Init => LedgerInv
  BY TypeInit, Zenon
     DEF LedgerInv, Init, LedgerKnown, OwnRelease, UnstartedSteps, ReleaseUnderEveryUnit
<1>2. LedgerInv /\ [Next]_vars => LedgerInv'
  BY TypeStep, ShapeStep, LedgerStep, OwnStep, ReleaseStep DEF LedgerInv
<1> QED
  BY <1>1, <1>2, PTL DEF Spec

\* No release is deleted under a live process, for any number of versions,
\* deploys, motel stops, lost answers of the manager and failed writes:
\* gcReleases, the cleanup of a failed deploy and settleInterrupted each
\* remove only releases no unit runs from.
THEOREM ReleasesOutliveUnits == Spec => []ReleaseUnderEveryUnit
<1>1. LedgerInv => ReleaseUnderEveryUnit
  BY DEF LedgerInv
<1> QED
  BY <1>1, LedgerInvariant, PTL
=============================================================================
