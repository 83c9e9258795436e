------------------------ MODULE ManagedAppUnitProofs ------------------------
(***************************************************************************)
(* Proofs about ManagedApp, on top of its instance invariant: what a       *)
(* launch, a sweep and a stop may do to the units.                         *)
(***************************************************************************)
EXTENDS ManagedAppRouteProofs, FiniteSetTheorems

\* The running instances are two named ones at most.
AtMostAPair == \E a, b : AppUnits \subseteq {a, b}

-----------------------------------------------------------------------------
(* What a step does to the units. *)

\* Only RunOnce and Start bring a unit up.
LEMMA UnitGrowth ==
  ASSUME [Next]_vars
  PROVE  \/ units' \subseteq units
         \/ pc = "pre_start" /\ units' \subseteq units \cup {PreUnit(Launch)}
         \/ pc = "start" /\ units' \subseteq units \cup {AppUnit(Launch)}
<1> USE DEF disk, memory, locals, history
<1>1. CASE AdmitStep
  <2>1. CASE SettleSweep
    BY <2>1 DEF SettleSweep, SweepConfirmed, SweepUnconfirmed, UnitsUnconfirmed, Goto, Unlock
  <2>2. CASE Settle
    BY <2>2 DEF Settle, Goto
  <2>3. CASE SettleRecord
    BY <2>3 DEF SettleRecord, Goto
  <2>4. CASE SettleClear
    BY <2>4 DEF SettleClear, ClearMarker, Goto, Unlock
  <2>5. CASE Refuse
    BY <2>5 DEF Refuse, Unlock
  <2>6. CASE Accept
    BY <2>6 DEF Accept, Goto, FailTo
  <2>7. CASE Fetch
    BY <2>7 DEF Fetch, Goto, FailTo
  <2> HIDE DEF disk, memory, locals, history
  <2> QED
    BY <1>1, <2>1, <2>2, <2>3, <2>4, <2>5, <2>6, <2>7 DEF AdmitStep
<1>2. CASE LaunchStep
  <2>1. CASE Prepare
    BY <2>1 DEF Prepare
  <2>2. CASE PrepareFailed
    BY <2>2 DEF PrepareFailed, RelaunchFailed, FailTo, Unlock
  <2>3. CASE PreSweep
    BY <2>3 DEF PreSweep, SweepConfirmed, SweepUnconfirmed, UnitsUnconfirmed, Goto, FailTo
  <2>4. CASE RunPreStart
    BY <2>4 DEF RunPreStart, Goto, FailTo
  <2>5. CASE Migrated
    BY <2>5 DEF Migrated, Goto, FailTo
  <2>6. CASE StartSweep
    BY <2>6
       DEF StartSweep, SweepConfirmed, SweepUnconfirmed, UnitsUnconfirmed, RelaunchFailed,
           Goto, FailTo, Unlock
  <2>7. CASE Start
    BY <2>7 DEF Start, Goto
  <2>8. CASE StartFailed
    BY <2>8 DEF StartFailed, RelaunchFailed, FailTo, Unlock
  <2>9. CASE RelaunchRefused
    BY <2>9 DEF RelaunchRefused, Unlock
  <2>10. CASE Soak
    BY <2>10 DEF Soak, StopConfirmed, StopUnconfirmed, Goto, FailTo
  <2> HIDE DEF disk, memory, locals, history
  <2> QED
    BY <1>2, <2>1, <2>2, <2>3, <2>4, <2>5, <2>6, <2>7, <2>8, <2>9, <2>10 DEF LaunchStep
<1>3. CASE CutoverStep
  <2>1. CASE Swap
    BY <2>1 DEF Swap, Goto
  <2>2. CASE Route
    BY <2>2 DEF Route, Goto
  <2>3. CASE Persist
    BY <2>3 DEF Persist, Goto, Unlock
  <2>4. CASE Drain
    BY <2>4 DEF Drain, StopConfirmed, StopUnconfirmed, Goto
  <2>5. CASE FinalSweep
    BY <2>5 DEF FinalSweep, SweepConfirmed, SweepUnconfirmed, UnitsUnconfirmed, Goto
  <2>6. CASE CollectReleases
    BY <2>6 DEF CollectReleases, Goto
  <2>7. CASE Cleanup
    BY <2>7 DEF Cleanup, Goto
  <2>8. CASE RecordDeploy
    BY <2>8 DEF RecordDeploy, Goto
  <2>9. CASE EndDeploy
    BY <2>9 DEF EndDeploy, ClearMarker, Unlock
  <2> HIDE DEF disk, memory, locals, history
  <2> QED
    BY <1>3, <2>1, <2>2, <2>3, <2>4, <2>5, <2>6, <2>7, <2>8, <2>9 DEF CutoverStep
<1>4. CASE RecoveryStep
  <2>1. CASE BeginRecovery
    BY <2>1 DEF BeginRecovery
  <2>2. CASE Reattach
    BY <2>2 DEF Reattach, Goto
  <2>3. CASE Adopt
    BY <2>3 DEF Adopt, Goto
  <2>4. CASE NotAttached
    BY <2>4 DEF NotAttached, Goto
  <2>5. CASE ReattachUnreadable
    BY <2>5 DEF ReattachUnreadable, Unlock
  <2>6. CASE RecoverSweep
    BY <2>6
       DEF RecoverSweep, SweepConfirmed, SweepUnconfirmed, UnitsUnconfirmed, Goto, Unlock
  <2> HIDE DEF disk, memory, locals, history
  <2> QED
    BY <1>4, <2>1, <2>2, <2>3, <2>4, <2>5, <2>6 DEF RecoveryStep
<1>5. CASE WatchdogStep
  <2>1. CASE WatchdogUnroutes
    BY <2>1 DEF WatchdogUnroutes
  <2>2. CASE WatchdogStandsDown
    BY <2>2 DEF WatchdogStandsDown
  <2>3. CASE WatchdogLocks
    BY <2>3 DEF WatchdogLocks
  <2>4. CASE WatchdogSweep
    BY <2>4
       DEF WatchdogSweep, SweepConfirmed, SweepUnconfirmed, UnitsUnconfirmed, Goto, Unlock
  <2>5. CASE WatchdogStop
    BY <2>5 DEF WatchdogStop, StopConfirmed, Goto, Unlock
  <2> HIDE DEF disk, memory, locals, history
  <2> QED
    BY <1>5, <2>1, <2>2, <2>3, <2>4, <2>5 DEF WatchdogStep
<1>6. CASE WatchdogNotices
  BY <1>6 DEF WatchdogNotices
<1>7. CASE UnitExits
  BY <1>7 DEF UnitExits
<1>8. CASE ExitObserved
  BY <1>8 DEF ExitObserved
<1>9. CASE OrphanMigrationEnds
  BY <1>9 DEF OrphanMigrationEnds
<1>10. CASE MotelStops
  BY <1>10 DEF MotelStops
<1>11. CASE MotelStarts
  BY <1>11 DEF MotelStarts
<1>12. CASE Reload
  BY <1>12 DEF Reload
<1>13. CASE \E v \in Versions, rollback \in BOOLEAN : BeginDeploy(v, rollback)
  BY <1>13 DEF BeginDeploy
<1>14. CASE UNCHANGED vars
  BY <1>14 DEF vars
<1> HIDE DEF disk, memory, locals, history
<1> QED
  BY <1>1, <1>2, <1>3, <1>4, <1>5, <1>6, <1>7, <1>8, <1>9, <1>10, <1>11, <1>12, <1>13, <1>14
     DEF Next, DeployStep

\* A pre_start leaves the ledger by its own end or by the deploy that waits
\* for it.
LEMMA MigrationStep ==
  ASSUME [Next]_vars
  PROVE  \A u \in units \ units' : u.kind = "pre" => pc = "migrating" \/ pc' = pc
<1> USE DEF AppUnit, AppUnits, Kept, Migrating
<1>1. CASE AdmitStep
  <2>1. CASE SettleSweep
    BY <2>1 DEF SettleSweep, SweepConfirmed, SweepUnconfirmed, UnitsUnconfirmed, Goto, Unlock
  <2>2. CASE Settle
    BY <2>2 DEF Settle, Goto
  <2>3. CASE SettleRecord
    BY <2>3 DEF SettleRecord, Goto
  <2>4. CASE SettleClear
    BY <2>4 DEF SettleClear, ClearMarker, Goto, Unlock
  <2>5. CASE Refuse
    BY <2>5 DEF Refuse, Unlock
  <2>6. CASE Accept
    BY <2>6 DEF Accept, Goto, FailTo
  <2>7. CASE Fetch
    BY <2>7 DEF Fetch, Goto, FailTo
  <2> HIDE DEF AppUnit, AppUnits, Kept, Migrating
  <2> QED
    BY <1>1, <2>1, <2>2, <2>3, <2>4, <2>5, <2>6, <2>7 DEF AdmitStep
<1>2. CASE LaunchStep
  <2>1. CASE Prepare
    BY <2>1 DEF Prepare
  <2>2. CASE PrepareFailed
    BY <2>2 DEF PrepareFailed, RelaunchFailed, FailTo, Unlock
  <2>3. CASE PreSweep
    BY <2>3 DEF PreSweep, SweepConfirmed, SweepUnconfirmed, UnitsUnconfirmed, Goto, FailTo
  <2>4. CASE RunPreStart
    BY <2>4 DEF RunPreStart, Goto, FailTo
  <2>5. CASE Migrated
    BY <2>5 DEF Migrated, Goto, FailTo
  <2>6. CASE StartSweep
    BY <2>6
       DEF StartSweep, SweepConfirmed, SweepUnconfirmed, UnitsUnconfirmed, RelaunchFailed,
           Goto, FailTo, Unlock
  <2>7. CASE Start
    BY <2>7 DEF Start, Goto
  <2>8. CASE StartFailed
    BY <2>8 DEF StartFailed, RelaunchFailed, FailTo, Unlock
  <2>9. CASE RelaunchRefused
    BY <2>9 DEF RelaunchRefused, Unlock
  <2>10. CASE Soak
    BY <2>10 DEF Soak, StopConfirmed, StopUnconfirmed, Goto, FailTo
  <2> HIDE DEF AppUnit, AppUnits, Kept, Migrating
  <2> QED
    BY <1>2, <2>1, <2>2, <2>3, <2>4, <2>5, <2>6, <2>7, <2>8, <2>9, <2>10 DEF LaunchStep
<1>3. CASE CutoverStep
  <2>1. CASE Swap
    BY <2>1 DEF Swap, Goto
  <2>2. CASE Route
    BY <2>2 DEF Route, Goto
  <2>3. CASE Persist
    BY <2>3 DEF Persist, Goto, Unlock
  <2>4. CASE Drain
    BY <2>4 DEF Drain, StopConfirmed, StopUnconfirmed, Goto
  <2>5. CASE FinalSweep
    BY <2>5 DEF FinalSweep, SweepConfirmed, SweepUnconfirmed, UnitsUnconfirmed, Goto
  <2>6. CASE CollectReleases
    BY <2>6 DEF CollectReleases, Goto
  <2>7. CASE Cleanup
    BY <2>7 DEF Cleanup, Goto
  <2>8. CASE RecordDeploy
    BY <2>8 DEF RecordDeploy, Goto
  <2>9. CASE EndDeploy
    BY <2>9 DEF EndDeploy, ClearMarker, Unlock
  <2> HIDE DEF AppUnit, AppUnits, Kept, Migrating
  <2> QED
    BY <1>3, <2>1, <2>2, <2>3, <2>4, <2>5, <2>6, <2>7, <2>8, <2>9 DEF CutoverStep
<1>4. CASE RecoveryStep
  <2>1. CASE BeginRecovery
    BY <2>1 DEF BeginRecovery
  <2>2. CASE Reattach
    BY <2>2 DEF Reattach, Goto
  <2>3. CASE Adopt
    BY <2>3 DEF Adopt, Goto
  <2>4. CASE NotAttached
    BY <2>4 DEF NotAttached, Goto
  <2>5. CASE ReattachUnreadable
    BY <2>5 DEF ReattachUnreadable, Unlock
  <2>6. CASE RecoverSweep
    BY <2>6
       DEF RecoverSweep, SweepConfirmed, SweepUnconfirmed, UnitsUnconfirmed, Goto, Unlock
  <2> HIDE DEF AppUnit, AppUnits, Kept, Migrating
  <2> QED
    BY <1>4, <2>1, <2>2, <2>3, <2>4, <2>5, <2>6 DEF RecoveryStep
<1>5. CASE WatchdogStep
  <2>1. CASE WatchdogUnroutes
    BY <2>1 DEF WatchdogUnroutes
  <2>2. CASE WatchdogStandsDown
    BY <2>2 DEF WatchdogStandsDown
  <2>3. CASE WatchdogLocks
    BY <2>3 DEF WatchdogLocks
  <2>4. CASE WatchdogSweep
    BY <2>4
       DEF WatchdogSweep, SweepConfirmed, SweepUnconfirmed, UnitsUnconfirmed, Goto, Unlock
  <2>5. CASE WatchdogStop
    BY <2>5 DEF WatchdogStop, StopConfirmed, Goto, Unlock
  <2> HIDE DEF AppUnit, AppUnits, Kept, Migrating
  <2> QED
    BY <1>5, <2>1, <2>2, <2>3, <2>4, <2>5 DEF WatchdogStep
<1>6. CASE WatchdogNotices
  BY <1>6 DEF WatchdogNotices
<1>7. CASE UnitExits
  BY <1>7 DEF UnitExits
<1>8. CASE ExitObserved
  BY <1>8 DEF ExitObserved
<1>9. CASE OrphanMigrationEnds
  BY <1>9 DEF OrphanMigrationEnds
<1>10. CASE MotelStops
  BY <1>10 DEF MotelStops
<1>11. CASE MotelStarts
  BY <1>11 DEF MotelStarts
<1>12. CASE Reload
  BY <1>12 DEF Reload
<1>13. CASE \E v \in Versions, rollback \in BOOLEAN : BeginDeploy(v, rollback)
  BY <1>13 DEF BeginDeploy
<1>14. CASE UNCHANGED vars
  BY <1>14 DEF vars
<1> HIDE DEF AppUnit, AppUnits, Kept, Migrating
<1> QED
  BY <1>1, <1>2, <1>3, <1>4, <1>5, <1>6, <1>7, <1>8, <1>9, <1>10, <1>11, <1>12, <1>13, <1>14
     DEF Next, DeployStep

\* A deploy or recovery step never takes the serving instance down.
LEMMA SparedStep ==
  ASSUME InstanceInv, pc # pc', who \in {"deploy", "recover"}, Running(current), [Next]_vars
  PROVE  AppUnit(current) \in units'
<1> USE DEF Running, InstanceInv, LedgerInv, JobShape, CurrentKnown, Identity, Alive,
      DeploySteps, RecoverySteps, WatchdogSteps, SettleSteps, NamedSteps, UnstartedSteps,
      UnpublishedSteps, RelaunchSteps, PublishedSteps, AppUnits, Kept
<1>1. CASE AdmitStep
  <2>1. CASE SettleSweep
    BY <2>1 DEF SettleSweep, SweepConfirmed, SweepUnconfirmed, UnitsUnconfirmed, Goto, Unlock
  <2>2. CASE Settle
    BY <2>2 DEF Settle, Goto
  <2>3. CASE SettleRecord
    BY <2>3 DEF SettleRecord, Goto
  <2>4. CASE SettleClear
    BY <2>4 DEF SettleClear, ClearMarker, Goto, Unlock
  <2>5. CASE Refuse
    BY <2>5 DEF Refuse, Unlock
  <2>6. CASE Accept
    BY <2>6 DEF Accept, Goto, FailTo
  <2>7. CASE Fetch
    BY <2>7 DEF Fetch, Goto, FailTo
  <2> HIDE DEF Running, InstanceInv, LedgerInv, JobShape, CurrentKnown, Identity, Alive,
        DeploySteps, RecoverySteps, WatchdogSteps, SettleSteps, NamedSteps, UnstartedSteps,
        UnpublishedSteps, RelaunchSteps, PublishedSteps, AppUnits, Kept
  <2> QED
    BY <1>1, <2>1, <2>2, <2>3, <2>4, <2>5, <2>6, <2>7 DEF AdmitStep
<1>2. CASE LaunchStep
  <2>1. CASE Prepare
    BY <2>1 DEF Prepare
  <2>2. CASE PrepareFailed
    BY <2>2 DEF PrepareFailed, RelaunchFailed, FailTo, Unlock
  <2>3. CASE PreSweep
    BY <2>3 DEF PreSweep, SweepConfirmed, SweepUnconfirmed, UnitsUnconfirmed, Goto, FailTo
  <2>4. CASE RunPreStart
    BY <2>4 DEF RunPreStart, Goto, FailTo
  <2>5. CASE Migrated
    BY <2>5 DEF Migrated, Goto, FailTo, AppUnit, PreUnit
  <2>6. CASE StartSweep
    BY <2>6
       DEF StartSweep, SweepConfirmed, SweepUnconfirmed, UnitsUnconfirmed, RelaunchFailed,
           Goto, FailTo, Unlock, Beside
  <2>7. CASE Start
    BY <2>7 DEF Start, Goto
  <2>8. CASE StartFailed
    BY <2>8 DEF StartFailed, RelaunchFailed, FailTo, Unlock
  <2>9. CASE RelaunchRefused
    BY <2>9 DEF RelaunchRefused, Unlock
  <2>10. CASE Soak
    BY <2>10 DEF Soak, StopConfirmed, StopUnconfirmed, Goto, FailTo, AppUnit, Launch, Inst
  <2> HIDE DEF Running, InstanceInv, LedgerInv, JobShape, CurrentKnown, Identity, Alive,
        DeploySteps, RecoverySteps, WatchdogSteps, SettleSteps, NamedSteps, UnstartedSteps,
        UnpublishedSteps, RelaunchSteps, PublishedSteps, AppUnits, Kept
  <2> QED
    BY <1>2, <2>1, <2>2, <2>3, <2>4, <2>5, <2>6, <2>7, <2>8, <2>9, <2>10 DEF LaunchStep
<1>3. CASE CutoverStep
  <2>1. CASE Swap
    BY <2>1 DEF Swap, Goto
  <2>2. CASE Route
    BY <2>2 DEF Route, Goto
  <2>3. CASE Persist
    BY <2>3 DEF Persist, Goto, Unlock
  <2>4. CASE Drain
    BY <2>4 DEF Drain, StopConfirmed, StopUnconfirmed, Goto, AppUnit, Launch, Inst
  <2>5. CASE FinalSweep
    BY <2>5 DEF FinalSweep, SweepConfirmed, SweepUnconfirmed, UnitsUnconfirmed, Goto
  <2>6. CASE CollectReleases
    BY <2>6 DEF CollectReleases, Goto
  <2>7. CASE Cleanup
    BY <2>7 DEF Cleanup, Goto
  <2>8. CASE RecordDeploy
    BY <2>8 DEF RecordDeploy, Goto
  <2>9. CASE EndDeploy
    BY <2>9 DEF EndDeploy, ClearMarker, Unlock
  <2> HIDE DEF Running, InstanceInv, LedgerInv, JobShape, CurrentKnown, Identity, Alive,
        DeploySteps, RecoverySteps, WatchdogSteps, SettleSteps, NamedSteps, UnstartedSteps,
        UnpublishedSteps, RelaunchSteps, PublishedSteps, AppUnits, Kept
  <2> QED
    BY <1>3, <2>1, <2>2, <2>3, <2>4, <2>5, <2>6, <2>7, <2>8, <2>9 DEF CutoverStep
<1>4. CASE RecoveryStep
  <2>1. CASE BeginRecovery
    BY <2>1 DEF BeginRecovery
  <2>2. CASE Reattach
    BY <2>2 DEF Reattach, Goto
  <2>3. CASE Adopt
    BY <2>3 DEF Adopt, Goto
  <2>4. CASE NotAttached
    BY <2>4 DEF NotAttached, Goto
  <2>5. CASE ReattachUnreadable
    BY <2>5 DEF ReattachUnreadable, Unlock
  <2>6. CASE RecoverSweep
    BY <2>6
       DEF RecoverSweep, SweepConfirmed, SweepUnconfirmed, UnitsUnconfirmed, Goto, Unlock,
           RecoverKeep
  <2> HIDE DEF Running, InstanceInv, LedgerInv, JobShape, CurrentKnown, Identity, Alive,
        DeploySteps, RecoverySteps, WatchdogSteps, SettleSteps, NamedSteps, UnstartedSteps,
        UnpublishedSteps, RelaunchSteps, PublishedSteps, AppUnits, Kept
  <2> QED
    BY <1>4, <2>1, <2>2, <2>3, <2>4, <2>5, <2>6 DEF RecoveryStep
<1>5. CASE WatchdogStep
  <2>1. CASE WatchdogUnroutes
    BY <2>1 DEF WatchdogUnroutes
  <2>2. CASE WatchdogStandsDown
    BY <2>2 DEF WatchdogStandsDown
  <2>3. CASE WatchdogLocks
    BY <2>3 DEF WatchdogLocks
  <2>4. CASE WatchdogSweep
    BY <2>4
       DEF WatchdogSweep, SweepConfirmed, SweepUnconfirmed, UnitsUnconfirmed, Goto, Unlock
  <2>5. CASE WatchdogStop
    BY <2>5 DEF WatchdogStop, StopConfirmed, Goto, Unlock
  <2> HIDE DEF Running, InstanceInv, LedgerInv, JobShape, CurrentKnown, Identity, Alive,
        DeploySteps, RecoverySteps, WatchdogSteps, SettleSteps, NamedSteps, UnstartedSteps,
        UnpublishedSteps, RelaunchSteps, PublishedSteps, AppUnits, Kept
  <2> QED
    BY <1>5, <2>1, <2>2, <2>3, <2>4, <2>5 DEF WatchdogStep
<1>6. CASE WatchdogNotices
  BY <1>6 DEF WatchdogNotices
<1>7. CASE UnitExits
  BY <1>7 DEF UnitExits
<1>8. CASE ExitObserved
  BY <1>8 DEF ExitObserved
<1>9. CASE OrphanMigrationEnds
  BY <1>9 DEF OrphanMigrationEnds
<1>10. CASE MotelStops
  BY <1>10 DEF MotelStops
<1>11. CASE MotelStarts
  BY <1>11 DEF MotelStarts
<1>12. CASE Reload
  BY <1>12 DEF Reload
<1>13. CASE \E v \in Versions, rollback \in BOOLEAN : BeginDeploy(v, rollback)
  BY <1>13 DEF BeginDeploy
<1>14. CASE UNCHANGED vars
  BY <1>14 DEF vars
<1> HIDE DEF Running, InstanceInv, LedgerInv, JobShape, CurrentKnown, Identity, Alive,
      DeploySteps, RecoverySteps, WatchdogSteps, SettleSteps, NamedSteps, UnstartedSteps,
      UnpublishedSteps, RelaunchSteps, PublishedSteps, AppUnits, Kept
<1> QED
  BY <1>1, <1>2, <1>3, <1>4, <1>5, <1>6, <1>7, <1>8, <1>9, <1>10, <1>11, <1>12, <1>13, <1>14
     DEF Next, DeployStep

\* A set of at most two named elements has at most two elements.
LEMMA PairBound ==
  ASSUME NEW S, NEW a, NEW b, S \subseteq {a, b}
  PROVE  Cardinality(S) <= 2
<1>1. IsFiniteSet({a}) /\ Cardinality({a}) = 1
  BY FS_Singleton
<1>2. IsFiniteSet({a} \cup {b}) /\ Cardinality({a} \cup {b}) <= 2
  BY <1>1, FS_AddElement
<1>3. S \subseteq {a} \cup {b}
  OBVIOUS
<1>4. Cardinality(S) <= Cardinality({a} \cup {b}) /\ IsFiniteSet(S)
  BY <1>2, <1>3, FS_Subset
<1>5. Cardinality(S) \in Nat /\ Cardinality({a} \cup {b}) \in Nat
  BY <1>2, <1>4, FS_CardinalityType, Zenon
<1> QED
  BY <1>2, <1>4, <1>5
\* The running instances are never more than a pair: the launched one and the
\* one it replaces.
LEMMA PairStep ==
  ASSUME InstanceInv, AtMostAPair, [Next]_vars
  PROVE  AtMostAPair'
<1>1. CASE units' \subseteq units
  BY <1>1 DEF AtMostAPair, AppUnits
<1>2. CASE pc = "pre_start" /\ units' \subseteq units \cup {PreUnit(Launch)}
  <2>1. AppUnits' \subseteq AppUnits
    BY <1>2 DEF AppUnits, PreUnit
  <2> QED
    BY <2>1 DEF AtMostAPair
<1>3. CASE pc = "start" /\ units' \subseteq units \cup {AppUnit(Launch)}
  <2>1. AppUnits' \subseteq Kept(Beside) \cup {AppUnit(Launch)}
    BY <1>3 DEF InstanceInv, LedgerInv, LedgerKnown, AppUnits
  <2> QED
    BY <2>1 DEF AtMostAPair, Kept
<1> QED
  BY <1>1, <1>2, <1>3, UnitGrowth

\* At most two instances of an app run at any time, however many stops went
\* unconfirmed and however many motels died before.
THEOREM AtMostTwo == Spec => []AtMostTwoInstances
<1>1. Init => AtMostAPair
  BY DEF Init, AtMostAPair, AppUnits
<1>2. InstanceInv /\ AtMostAPair /\ [Next]_vars => AtMostAPair'
  BY PairStep
<1>3. AtMostAPair => AtMostTwoInstances
  BY PairBound, Zenon DEF AtMostAPair, AtMostTwoInstances
<1> QED
  BY <1>1, <1>2, <1>3, InstanceInvariant, PTL DEF Spec

\* Nothing is launched beside a running migration, an orphan of an earlier
\* motel included.
THEOREM NoLaunchBesideMigration == Spec => NothingLaunchedBesideMigration
<1>1. InstanceInv /\ [Next]_vars => [Migrating => units' \subseteq units]_vars
  <2> SUFFICES ASSUME InstanceInv, [Next]_vars, Migrating PROVE units' \subseteq units
    OBVIOUS
  <2>1. pc # "pre_start"
    BY DEF InstanceInv, LedgerInv, LedgerKnown
  <2>2. pc # "start"
    BY DEF InstanceInv, LedgerInv, LedgerKnown, Migrating, Kept, AppUnit
  <2> QED
    BY <2>1, <2>2, UnitGrowth
<1> QED
  BY <1>1, InstanceInvariant, PTL DEF Spec, NothingLaunchedBesideMigration

\* No sweep, no stop and no recovery ends a migration: only its own deploy
\* does.
THEOREM MigrationsEnd == Spec => MigrationsRunToTheirEnd
<1>1. [Next]_vars => [\A u \in units \ units' : u.kind = "pre" => pc = "migrating" \/ pc' = pc]_vars
  BY MigrationStep
<1> QED
  BY <1>1, PTL DEF Spec, MigrationsRunToTheirEnd

\* A deploy that fails, and a recovery, leave the serving instance running.
THEOREM ServingSpared == Spec => ServingInstanceSpared
<1>1. InstanceInv /\ [Next]_vars =>
        [pc # pc' /\ who \in {"deploy", "recover"} /\ Running(current) =>
           AppUnit(current) \in units']_vars
  BY SparedStep
<1> QED
  BY <1>1, InstanceInvariant, PTL DEF Spec, ServingInstanceSpared
=============================================================================
