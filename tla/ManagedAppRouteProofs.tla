----------------------- MODULE ManagedAppRouteProofs ------------------------
(***************************************************************************)
(* Proofs about ManagedApp, on top of its ledger invariant: the current    *)
(* instance stays routed.                                                  *)
(***************************************************************************)
EXTENDS ManagedAppLedgerProofs

-----------------------------------------------------------------------------
(* The inductive invariant. *)

\* Steps of a deploy that found current its old instance, and has not
\* published its own.
UnpublishedSteps == {"settle_sweep", "settle", "settle_record", "settle_clear",
                     "accept", "fetch", "prepare", "pre_sweep", "pre_start",
                     "migrating", "start_sweep", "start", "soak", "swap", "cleanup"}
RelaunchSteps == {"prepare", "start_sweep", "start", "swap"}
PublishedSteps == {"route", "persist", "drain", "final_sweep", "gc"}

\* A nonce tells the current, the replaced and the launched instance apart,
\* and an exit that was observed has happened.
Identity ==
    /\ current # None /\ current.nonce \in exited => AppUnit(current) \notin units
    /\ current # None /\ old # None /\ current.nonce = old.nonce => current = old
    /\ pc \in NamedSteps \cup {"cleanup"} /\ old # None => old.nonce # new
    /\ pc \in NamedSteps \ PublishedSteps /\ current # None => current.nonce # new
    /\ pc \in UnstartedSteps \cup {"migrating"} => new \notin exited
    /\ pc \in {"soak", "swap"} /\ new \in exited => AppUnit(Launch) \notin units

\* What each holder of the lock knows of the current instance: a deploy, that
\* it is the one it found, then the one it launched; a relaunch, that it is
\* dead.
CurrentKnown ==
    /\ who = "deploy" /\ pc \in UnpublishedSteps => current = old
    /\ who = "watchdog" /\ pc \in RelaunchSteps \cup WatchdogSteps => current = old
    /\ pc \in PublishedSteps => current = Launch
    /\ who # "deploy" /\ pc \in RelaunchSteps => ~Alive(current)
    /\ pc = "reattach" => ~Alive(current) /\ old = None
    /\ pc = "recover_sweep" /\ RecoverKeep = None => ~Alive(current)

\* The launched instance keeps its socket until it is routed.
Routing ==
    /\ pc \in NamedSteps \ PublishedSteps => new \in socks
    /\ pc \in {"route", "adopt"} /\ Alive(current) => current.nonce \in socks
    /\ LiveInstanceIsRouted

InstanceInv == LedgerInv /\ Identity /\ CurrentKnown /\ Routing

-----------------------------------------------------------------------------
(* The current instance, and what the proxy dials. *)

\* Every step keeps the instances apart: a launch draws a nonce nothing else
\* has.
LEMMA IdentityStep ==
  ASSUME InstanceInv, [Next]_vars
  PROVE  Identity'
<1> USE DEF InstanceInv, LedgerInv, Identity, JobShape, DeploySteps, RecoverySteps,
      WatchdogSteps, SettleSteps, NamedSteps, UnstartedSteps, UnpublishedSteps,
      RelaunchSteps, PublishedSteps, disk, memory, locals, history, Launch, Inst, AppUnit,
      AppUnits, Held, KeptNonces
<1>1. CASE AdmitStep
  <2>1. CASE SettleSweep
    BY <2>1 DEF SettleSweep, SweepConfirmed, SweepUnconfirmed, UnitsUnconfirmed, Goto, Unlock
  <2>2. CASE Settle
    BY <2>2 DEF Settle, Goto
  <2>3. CASE SettleRecord
    BY <2>3 DEF SettleRecord, Goto
  <2>4. CASE SettleClear
    BY <2>4 DEF SettleClear, ClearMarker, Goto, Unlock
  <2>5. CASE Refuse
    BY <2>5 DEF Refuse, Unlock
  <2>6. CASE Accept
    BY <2>6 DEF Accept, Goto, FailTo
  <2>7. CASE Fetch
    BY <2>7 DEF Fetch, Goto, FailTo
  <2> HIDE DEF InstanceInv, LedgerInv, Identity, JobShape, DeploySteps, RecoverySteps,
        WatchdogSteps, SettleSteps, NamedSteps, UnstartedSteps, UnpublishedSteps,
        RelaunchSteps, PublishedSteps, disk, memory, locals, history, Launch, Inst, AppUnit,
        AppUnits, Held, KeptNonces
  <2> QED
    BY <1>1, <2>1, <2>2, <2>3, <2>4, <2>5, <2>6, <2>7 DEF AdmitStep
<1>2. CASE LaunchStep
  <2>1. CASE Prepare
    BY <2>1 DEF Prepare, FreshNonce, CurrentKnown
  <2>2. CASE PrepareFailed
    BY <2>2, NoneAssumption
       DEF PrepareFailed, RelaunchFailed, FailTo, Unlock, UnnamedSteps, TypeOK, Instances
  <2>3. CASE PreSweep
    BY <2>3 DEF PreSweep, SweepConfirmed, SweepUnconfirmed, UnitsUnconfirmed, Goto, FailTo
  <2>4. CASE RunPreStart
    BY <2>4 DEF RunPreStart, Goto, FailTo, PreUnit
  <2>5. CASE Migrated
    BY <2>5 DEF Migrated, Goto, FailTo
  <2>6. CASE StartSweep
    BY <2>6
       DEF StartSweep, SweepConfirmed, SweepUnconfirmed, UnitsUnconfirmed, RelaunchFailed,
           Goto, FailTo, Unlock
  <2>7. CASE Start
    BY <2>7 DEF Start, Goto, LedgerKnown, Kept, Beside, CurrentKnown
  <2>8. CASE StartFailed
    BY <2>8
       DEF StartFailed, RelaunchFailed, FailTo, Unlock, LedgerKnown, Kept, Beside,
           CurrentKnown
  <2>9. CASE RelaunchRefused
    BY <2>9 DEF RelaunchRefused, Unlock
  <2>10. CASE Soak
    BY <2>10 DEF Soak, StopConfirmed, StopUnconfirmed, Goto, FailTo
  <2> HIDE DEF InstanceInv, LedgerInv, Identity, JobShape, DeploySteps, RecoverySteps,
        WatchdogSteps, SettleSteps, NamedSteps, UnstartedSteps, UnpublishedSteps,
        RelaunchSteps, PublishedSteps, disk, memory, locals, history, Launch, Inst, AppUnit,
        AppUnits, Held, KeptNonces
  <2> QED
    BY <1>2, <2>1, <2>2, <2>3, <2>4, <2>5, <2>6, <2>7, <2>8, <2>9, <2>10 DEF LaunchStep
<1>3. CASE CutoverStep
  <2>1. CASE Swap
    BY <2>1 DEF Swap, Goto, CurrentKnown
  <2>2. CASE Route
    BY <2>2 DEF Route, Goto
  <2>3. CASE Persist
    BY <2>3 DEF Persist, Goto, Unlock
  <2>4. CASE Drain
    BY <2>4 DEF Drain, StopConfirmed, StopUnconfirmed, Goto, CurrentKnown, Alive
  <2>5. CASE FinalSweep
    BY <2>5 DEF FinalSweep, SweepConfirmed, SweepUnconfirmed, UnitsUnconfirmed, Goto
  <2>6. CASE CollectReleases
    BY <2>6 DEF CollectReleases, Goto
  <2>7. CASE Cleanup
    BY <2>7 DEF Cleanup, Goto
  <2>8. CASE RecordDeploy
    BY <2>8 DEF RecordDeploy, Goto
  <2>9. CASE EndDeploy
    BY <2>9 DEF EndDeploy, ClearMarker, Unlock
  <2> HIDE DEF InstanceInv, LedgerInv, Identity, JobShape, DeploySteps, RecoverySteps,
        WatchdogSteps, SettleSteps, NamedSteps, UnstartedSteps, UnpublishedSteps,
        RelaunchSteps, PublishedSteps, disk, memory, locals, history, Launch, Inst, AppUnit,
        AppUnits, Held, KeptNonces
  <2> QED
    BY <1>3, <2>1, <2>2, <2>3, <2>4, <2>5, <2>6, <2>7, <2>8, <2>9 DEF CutoverStep
<1>4. CASE RecoveryStep
  <2>1. CASE BeginRecovery
    BY <2>1, Zenon DEF BeginRecovery
  <2>2. CASE Reattach
    BY <2>2 DEF Reattach, Goto, CurrentKnown
  <2>3. CASE Adopt
    BY <2>3 DEF Adopt, Goto
  <2>4. CASE NotAttached
    BY <2>4 DEF NotAttached, Goto
  <2>5. CASE ReattachUnreadable
    BY <2>5 DEF ReattachUnreadable, Unlock
  <2>6. CASE RecoverSweep
    BY <2>6
       DEF RecoverSweep, SweepConfirmed, SweepUnconfirmed, UnitsUnconfirmed, Goto, Unlock
  <2> HIDE DEF InstanceInv, LedgerInv, Identity, JobShape, DeploySteps, RecoverySteps,
        WatchdogSteps, SettleSteps, NamedSteps, UnstartedSteps, UnpublishedSteps,
        RelaunchSteps, PublishedSteps, disk, memory, locals, history, Launch, Inst, AppUnit,
        AppUnits, Held, KeptNonces
  <2> QED
    BY <1>4, <2>1, <2>2, <2>3, <2>4, <2>5, <2>6 DEF RecoveryStep
<1>5. CASE WatchdogStep
  <2>1. CASE WatchdogUnroutes
    BY <2>1 DEF WatchdogUnroutes
  <2>2. CASE WatchdogStandsDown
    BY <2>2 DEF WatchdogStandsDown
  <2>3. CASE WatchdogLocks
    BY <2>3 DEF WatchdogLocks
  <2>4. CASE WatchdogSweep
    BY <2>4
       DEF WatchdogSweep, SweepConfirmed, SweepUnconfirmed, UnitsUnconfirmed, Goto, Unlock
  <2>5. CASE WatchdogStop
    BY <2>5 DEF WatchdogStop, StopConfirmed, Goto, Unlock, CurrentKnown
  <2> HIDE DEF InstanceInv, LedgerInv, Identity, JobShape, DeploySteps, RecoverySteps,
        WatchdogSteps, SettleSteps, NamedSteps, UnstartedSteps, UnpublishedSteps,
        RelaunchSteps, PublishedSteps, disk, memory, locals, history, Launch, Inst, AppUnit,
        AppUnits, Held, KeptNonces
  <2> QED
    BY <1>5, <2>1, <2>2, <2>3, <2>4, <2>5 DEF WatchdogStep
<1>6. CASE WatchdogNotices
  BY <1>6 DEF WatchdogNotices
<1>7. CASE UnitExits
  BY <1>7 DEF UnitExits
<1>8. CASE ExitObserved
  BY <1>8 DEF ExitObserved, Running
<1>9. CASE OrphanMigrationEnds
  BY <1>9 DEF OrphanMigrationEnds
<1>10. CASE MotelStops
  BY <1>10 DEF MotelStops
<1>11. CASE MotelStarts
  BY <1>11 DEF MotelStarts
<1>12. CASE Reload
  BY <1>12 DEF Reload
<1>13. CASE \E v \in Versions, rollback \in BOOLEAN : BeginDeploy(v, rollback)
  BY <1>13 DEF BeginDeploy
<1>14. CASE UNCHANGED vars
  BY <1>14 DEF vars
<1> HIDE DEF InstanceInv, LedgerInv, Identity, JobShape, DeploySteps, RecoverySteps,
      WatchdogSteps, SettleSteps, NamedSteps, UnstartedSteps, UnpublishedSteps,
      RelaunchSteps, PublishedSteps, disk, memory, locals, history, Launch, Inst, AppUnit,
      AppUnits, Held, KeptNonces
<1> QED
  BY <1>1, <1>2, <1>3, <1>4, <1>5, <1>6, <1>7, <1>8, <1>9, <1>10, <1>11, <1>12, <1>13, <1>14
     DEF Next, DeployStep

\* No step changes current behind the back of the holder of the lock.
LEMMA CurrentStep ==
  ASSUME InstanceInv, [Next]_vars
  PROVE  CurrentKnown'
<1> USE DEF InstanceInv, LedgerInv, CurrentKnown, JobShape, DeploySteps, RecoverySteps,
      WatchdogSteps, SettleSteps, NamedSteps, UnstartedSteps, UnpublishedSteps,
      RelaunchSteps, PublishedSteps, disk, memory, locals, history, Launch, Inst,
      RecoverKeep, Alive, Held, KeptNonces
<1>1. CASE AdmitStep
  <2>1. CASE SettleSweep
    BY <2>1 DEF SettleSweep, SweepConfirmed, SweepUnconfirmed, UnitsUnconfirmed, Goto, Unlock
  <2>2. CASE Settle
    BY <2>2 DEF Settle, Goto
  <2>3. CASE SettleRecord
    BY <2>3 DEF SettleRecord, Goto
  <2>4. CASE SettleClear
    BY <2>4 DEF SettleClear, ClearMarker, Goto, Unlock
  <2>5. CASE Refuse
    BY <2>5 DEF Refuse, Unlock
  <2>6. CASE Accept
    BY <2>6 DEF Accept, Goto, FailTo
  <2>7. CASE Fetch
    BY <2>7 DEF Fetch, Goto, FailTo
  <2> HIDE DEF InstanceInv, LedgerInv, CurrentKnown, JobShape, DeploySteps, RecoverySteps,
        WatchdogSteps, SettleSteps, NamedSteps, UnstartedSteps, UnpublishedSteps,
        RelaunchSteps, PublishedSteps, disk, memory, locals, history, Launch, Inst,
        RecoverKeep, Alive, Held, KeptNonces
  <2> QED
    BY <1>1, <2>1, <2>2, <2>3, <2>4, <2>5, <2>6, <2>7 DEF AdmitStep
<1>2. CASE LaunchStep
  <2>1. CASE Prepare
    BY <2>1 DEF Prepare
  <2>2. CASE PrepareFailed
    BY <2>2 DEF PrepareFailed, RelaunchFailed, FailTo, Unlock
  <2>3. CASE PreSweep
    BY <2>3 DEF PreSweep, SweepConfirmed, SweepUnconfirmed, UnitsUnconfirmed, Goto, FailTo
  <2>4. CASE RunPreStart
    BY <2>4 DEF RunPreStart, Goto, FailTo
  <2>5. CASE Migrated
    BY <2>5 DEF Migrated, Goto, FailTo
  <2>6. CASE StartSweep
    BY <2>6
       DEF StartSweep, SweepConfirmed, SweepUnconfirmed, UnitsUnconfirmed, RelaunchFailed,
           Goto, FailTo, Unlock
  <2>7. CASE Start
    BY <2>7 DEF Start, Goto
  <2>8. CASE StartFailed
    BY <2>8 DEF StartFailed, RelaunchFailed, FailTo, Unlock
  <2>9. CASE RelaunchRefused
    BY <2>9 DEF RelaunchRefused, Unlock
  <2>10. CASE Soak
    BY <2>10 DEF Soak, StopConfirmed, StopUnconfirmed, Goto, FailTo
  <2> HIDE DEF InstanceInv, LedgerInv, CurrentKnown, JobShape, DeploySteps, RecoverySteps,
        WatchdogSteps, SettleSteps, NamedSteps, UnstartedSteps, UnpublishedSteps,
        RelaunchSteps, PublishedSteps, disk, memory, locals, history, Launch, Inst,
        RecoverKeep, Alive, Held, KeptNonces
  <2> QED
    BY <1>2, <2>1, <2>2, <2>3, <2>4, <2>5, <2>6, <2>7, <2>8, <2>9, <2>10 DEF LaunchStep
<1>3. CASE CutoverStep
  <2>1. CASE Swap
    BY <2>1 DEF Swap, Goto
  <2>2. CASE Route
    BY <2>2 DEF Route, Goto
  <2>3. CASE Persist
    BY <2>3 DEF Persist, Goto, Unlock
  <2>4. CASE Drain
    BY <2>4 DEF Drain, StopConfirmed, StopUnconfirmed, Goto
  <2>5. CASE FinalSweep
    BY <2>5 DEF FinalSweep, SweepConfirmed, SweepUnconfirmed, UnitsUnconfirmed, Goto
  <2>6. CASE CollectReleases
    BY <2>6 DEF CollectReleases, Goto
  <2>7. CASE Cleanup
    BY <2>7 DEF Cleanup, Goto
  <2>8. CASE RecordDeploy
    BY <2>8 DEF RecordDeploy, Goto
  <2>9. CASE EndDeploy
    BY <2>9 DEF EndDeploy, ClearMarker, Unlock
  <2> HIDE DEF InstanceInv, LedgerInv, CurrentKnown, JobShape, DeploySteps, RecoverySteps,
        WatchdogSteps, SettleSteps, NamedSteps, UnstartedSteps, UnpublishedSteps,
        RelaunchSteps, PublishedSteps, disk, memory, locals, history, Launch, Inst,
        RecoverKeep, Alive, Held, KeptNonces
  <2> QED
    BY <1>3, <2>1, <2>2, <2>3, <2>4, <2>5, <2>6, <2>7, <2>8, <2>9 DEF CutoverStep
<1>4. CASE RecoveryStep
  <2>1. CASE BeginRecovery
    BY <2>1, Zenon DEF BeginRecovery
  <2>2. CASE Reattach
    BY <2>2 DEF Reattach, Goto
  <2>3. CASE Adopt
    BY <2>3, NoneAssumption DEF Adopt, Goto
  <2>4. CASE NotAttached
    BY <2>4 DEF NotAttached, Goto
  <2>5. CASE ReattachUnreadable
    BY <2>5 DEF ReattachUnreadable, Unlock
  <2>6. CASE RecoverSweep
    BY <2>6
       DEF RecoverSweep, SweepConfirmed, SweepUnconfirmed, UnitsUnconfirmed, Goto, Unlock
  <2> HIDE DEF InstanceInv, LedgerInv, CurrentKnown, JobShape, DeploySteps, RecoverySteps,
        WatchdogSteps, SettleSteps, NamedSteps, UnstartedSteps, UnpublishedSteps,
        RelaunchSteps, PublishedSteps, disk, memory, locals, history, Launch, Inst,
        RecoverKeep, Alive, Held, KeptNonces
  <2> QED
    BY <1>4, <2>1, <2>2, <2>3, <2>4, <2>5, <2>6 DEF RecoveryStep
<1>5. CASE WatchdogStep
  <2>1. CASE WatchdogUnroutes
    BY <2>1 DEF WatchdogUnroutes
  <2>2. CASE WatchdogStandsDown
    BY <2>2 DEF WatchdogStandsDown
  <2>3. CASE WatchdogLocks
    BY <2>3 DEF WatchdogLocks
  <2>4. CASE WatchdogSweep
    BY <2>4
       DEF WatchdogSweep, SweepConfirmed, SweepUnconfirmed, UnitsUnconfirmed, Goto, Unlock
  <2>5. CASE WatchdogStop
    BY <2>5 DEF WatchdogStop, StopConfirmed, Goto, Unlock
  <2> HIDE DEF InstanceInv, LedgerInv, CurrentKnown, JobShape, DeploySteps, RecoverySteps,
        WatchdogSteps, SettleSteps, NamedSteps, UnstartedSteps, UnpublishedSteps,
        RelaunchSteps, PublishedSteps, disk, memory, locals, history, Launch, Inst,
        RecoverKeep, Alive, Held, KeptNonces
  <2> QED
    BY <1>5, <2>1, <2>2, <2>3, <2>4, <2>5 DEF WatchdogStep
<1>6. CASE WatchdogNotices
  BY <1>6 DEF WatchdogNotices
<1>7. CASE UnitExits
  BY <1>7 DEF UnitExits
<1>8. CASE ExitObserved
  BY <1>8 DEF ExitObserved
<1>9. CASE OrphanMigrationEnds
  BY <1>9 DEF OrphanMigrationEnds
<1>10. CASE MotelStops
  BY <1>10 DEF MotelStops
<1>11. CASE MotelStarts
  BY <1>11 DEF MotelStarts
<1>12. CASE Reload
  BY <1>12 DEF Reload
<1>13. CASE \E v \in Versions, rollback \in BOOLEAN : BeginDeploy(v, rollback)
  BY <1>13 DEF BeginDeploy
<1>14. CASE UNCHANGED vars
  BY <1>14 DEF vars
<1> HIDE DEF InstanceInv, LedgerInv, CurrentKnown, JobShape, DeploySteps, RecoverySteps,
      WatchdogSteps, SettleSteps, NamedSteps, UnstartedSteps, UnpublishedSteps,
      RelaunchSteps, PublishedSteps, disk, memory, locals, history, Launch, Inst,
      RecoverKeep, Alive, Held, KeptNonces
<1> QED
  BY <1>1, <1>2, <1>3, <1>4, <1>5, <1>6, <1>7, <1>8, <1>9, <1>10, <1>11, <1>12, <1>13, <1>14
     DEF Next, DeployStep

\* Every step leaves a live current instance routed: unrouteIf, dropIf and
\* retire touch only an instance that is dead or replaced.
LEMMA RoutingStep ==
  ASSUME InstanceInv, [Next]_vars
  PROVE  Routing'
<1> USE DEF InstanceInv, LedgerInv, Routing, LiveInstanceIsRouted, CurrentKnown, JobShape,
      DeploySteps, RecoverySteps, WatchdogSteps, SettleSteps, NamedSteps, UnstartedSteps,
      UnpublishedSteps, RelaunchSteps, PublishedSteps, disk, memory, locals, history,
      Launch, Inst, RecoverKeep, Alive, Running, AppUnit, Held, KeptNonces
<1>1. CASE AdmitStep
  <2>1. CASE SettleSweep
    BY <2>1 DEF SettleSweep, SweepConfirmed, SweepUnconfirmed, UnitsUnconfirmed, Goto, Unlock
  <2>2. CASE Settle
    BY <2>2 DEF Settle, Goto
  <2>3. CASE SettleRecord
    BY <2>3 DEF SettleRecord, Goto
  <2>4. CASE SettleClear
    BY <2>4 DEF SettleClear, ClearMarker, Goto, Unlock
  <2>5. CASE Refuse
    BY <2>5 DEF Refuse, Unlock
  <2>6. CASE Accept
    BY <2>6 DEF Accept, Goto, FailTo
  <2>7. CASE Fetch
    BY <2>7 DEF Fetch, Goto, FailTo
  <2> HIDE DEF InstanceInv, LedgerInv, Routing, LiveInstanceIsRouted, CurrentKnown, JobShape,
        DeploySteps, RecoverySteps, WatchdogSteps, SettleSteps, NamedSteps, UnstartedSteps,
        UnpublishedSteps, RelaunchSteps, PublishedSteps, disk, memory, locals, history,
        Launch, Inst, RecoverKeep, Alive, Running, AppUnit, Held, KeptNonces
  <2> QED
    BY <1>1, <2>1, <2>2, <2>3, <2>4, <2>5, <2>6, <2>7 DEF AdmitStep
<1>2. CASE LaunchStep
  <2>1. CASE Prepare
    BY <2>1 DEF Prepare
  <2>2. CASE PrepareFailed
    BY <2>2 DEF PrepareFailed, RelaunchFailed, FailTo, Unlock
  <2>3. CASE PreSweep
    BY <2>3 DEF PreSweep, SweepConfirmed, SweepUnconfirmed, UnitsUnconfirmed, Goto, FailTo
  <2>4. CASE RunPreStart
    BY <2>4 DEF RunPreStart, Goto, FailTo, PreUnit
  <2>5. CASE Migrated
    BY <2>5 DEF Migrated, Goto, FailTo
  <2>6. CASE StartSweep
    BY <2>6
       DEF StartSweep, SweepConfirmed, SweepUnconfirmed, UnitsUnconfirmed, RelaunchFailed,
           Goto, FailTo, Unlock, Beside, Kept
  <2>7. CASE Start
    BY <2>7 DEF Start, Goto, Identity
  <2>8. CASE StartFailed
    BY <2>8 DEF StartFailed, RelaunchFailed, FailTo, Unlock, Identity
  <2>9. CASE RelaunchRefused
    BY <2>9 DEF RelaunchRefused, Unlock
  <2>10. CASE Soak
    BY <2>10 DEF Soak, StopConfirmed, StopUnconfirmed, Goto, FailTo
  <2> HIDE DEF InstanceInv, LedgerInv, Routing, LiveInstanceIsRouted, CurrentKnown, JobShape,
        DeploySteps, RecoverySteps, WatchdogSteps, SettleSteps, NamedSteps, UnstartedSteps,
        UnpublishedSteps, RelaunchSteps, PublishedSteps, disk, memory, locals, history,
        Launch, Inst, RecoverKeep, Alive, Running, AppUnit, Held, KeptNonces
  <2> QED
    BY <1>2, <2>1, <2>2, <2>3, <2>4, <2>5, <2>6, <2>7, <2>8, <2>9, <2>10 DEF LaunchStep
<1>3. CASE CutoverStep
  <2>1. CASE Swap
    BY <2>1 DEF Swap, Goto
  <2>2. CASE Route
    BY <2>2 DEF Route, Goto
  <2>3. CASE Persist
    BY <2>3, NoneAssumption DEF Persist, Goto, Unlock, Identity, Instances
  <2>4. CASE Drain
    BY <2>4 DEF Drain, StopConfirmed, StopUnconfirmed, Goto, Identity
  <2>5. CASE FinalSweep
    BY <2>5 DEF FinalSweep, SweepConfirmed, SweepUnconfirmed, UnitsUnconfirmed, Goto
  <2>6. CASE CollectReleases
    BY <2>6 DEF CollectReleases, Goto
  <2>7. CASE Cleanup
    BY <2>7 DEF Cleanup, Goto, Identity
  <2>8. CASE RecordDeploy
    BY <2>8 DEF RecordDeploy, Goto
  <2>9. CASE EndDeploy
    BY <2>9 DEF EndDeploy, ClearMarker, Unlock
  <2> HIDE DEF InstanceInv, LedgerInv, Routing, LiveInstanceIsRouted, CurrentKnown, JobShape,
        DeploySteps, RecoverySteps, WatchdogSteps, SettleSteps, NamedSteps, UnstartedSteps,
        UnpublishedSteps, RelaunchSteps, PublishedSteps, disk, memory, locals, history,
        Launch, Inst, RecoverKeep, Alive, Running, AppUnit, Held, KeptNonces
  <2> QED
    BY <1>3, <2>1, <2>2, <2>3, <2>4, <2>5, <2>6, <2>7, <2>8, <2>9 DEF CutoverStep
<1>4. CASE RecoveryStep
  <2>1. CASE BeginRecovery
    BY <2>1, Zenon DEF BeginRecovery
  <2>2. CASE Reattach
    BY <2>2 DEF Reattach, Goto
  <2>3. CASE Adopt
    BY <2>3 DEF Adopt, Goto
  <2>4. CASE NotAttached
    BY <2>4 DEF NotAttached, Goto
  <2>5. CASE ReattachUnreadable
    BY <2>5 DEF ReattachUnreadable, Unlock
  <2>6. CASE RecoverSweep
    BY <2>6
       DEF RecoverSweep, SweepConfirmed, SweepUnconfirmed, UnitsUnconfirmed, Goto, Unlock
  <2> HIDE DEF InstanceInv, LedgerInv, Routing, LiveInstanceIsRouted, CurrentKnown, JobShape,
        DeploySteps, RecoverySteps, WatchdogSteps, SettleSteps, NamedSteps, UnstartedSteps,
        UnpublishedSteps, RelaunchSteps, PublishedSteps, disk, memory, locals, history,
        Launch, Inst, RecoverKeep, Alive, Running, AppUnit, Held, KeptNonces
  <2> QED
    BY <1>4, <2>1, <2>2, <2>3, <2>4, <2>5, <2>6 DEF RecoveryStep
<1>5. CASE WatchdogStep
  <2>1. CASE WatchdogUnroutes
    <3>1. ~Alive(current) \/ (socks' = socks /\ active' = active)
      BY <2>1 DEF WatchdogUnroutes
    <3>2. current # None => socks \ {current.nonce} \subseteq socks'
      BY <2>1 DEF WatchdogUnroutes
    <3>3. UNCHANGED <<pc, current, exited, units, new>>
      BY <2>1 DEF WatchdogUnroutes
    <3>4. current = None => socks' = socks /\ active' = active
      BY <2>1, NoneAssumption DEF WatchdogUnroutes, TypeOK, Verdicts, Instances
    <3> QED
      BY <2>1, <3>1, <3>2, <3>3, <3>4 DEF WatchdogUnroutes, Identity
  <2>2. CASE WatchdogStandsDown
    BY <2>2 DEF WatchdogStandsDown
  <2>3. CASE WatchdogLocks
    BY <2>3 DEF WatchdogLocks
  <2>4. CASE WatchdogSweep
    BY <2>4
       DEF WatchdogSweep, SweepConfirmed, SweepUnconfirmed, UnitsUnconfirmed, Goto, Unlock
  <2>5. CASE WatchdogStop
    BY <2>5 DEF WatchdogStop, StopConfirmed, Goto, Unlock
  <2> HIDE DEF InstanceInv, LedgerInv, Routing, LiveInstanceIsRouted, CurrentKnown, JobShape,
        DeploySteps, RecoverySteps, WatchdogSteps, SettleSteps, NamedSteps, UnstartedSteps,
        UnpublishedSteps, RelaunchSteps, PublishedSteps, disk, memory, locals, history,
        Launch, Inst, RecoverKeep, Alive, Running, AppUnit, Held, KeptNonces
  <2> QED
    BY <1>5, <2>1, <2>2, <2>3, <2>4, <2>5 DEF WatchdogStep
<1>6. CASE WatchdogNotices
  BY <1>6 DEF WatchdogNotices
<1>7. CASE UnitExits
  BY <1>7 DEF UnitExits
<1>8. CASE ExitObserved
  BY <1>8 DEF ExitObserved
<1>9. CASE OrphanMigrationEnds
  BY <1>9 DEF OrphanMigrationEnds
<1>10. CASE MotelStops
  BY <1>10 DEF MotelStops
<1>11. CASE MotelStarts
  BY <1>11 DEF MotelStarts
<1>12. CASE Reload
  BY <1>12 DEF Reload
<1>13. CASE \E v \in Versions, rollback \in BOOLEAN : BeginDeploy(v, rollback)
  BY <1>13 DEF BeginDeploy
<1>14. CASE UNCHANGED vars
  BY <1>14 DEF vars
<1> HIDE DEF InstanceInv, LedgerInv, Routing, LiveInstanceIsRouted, CurrentKnown, JobShape,
      DeploySteps, RecoverySteps, WatchdogSteps, SettleSteps, NamedSteps, UnstartedSteps,
      UnpublishedSteps, RelaunchSteps, PublishedSteps, disk, memory, locals, history,
      Launch, Inst, RecoverKeep, Alive, Running, AppUnit, Held, KeptNonces
<1> QED
  BY <1>1, <1>2, <1>3, <1>4, <1>5, <1>6, <1>7, <1>8, <1>9, <1>10, <1>11, <1>12, <1>13, <1>14
     DEF Next, DeployStep

\* The invariant on instances is inductive.
LEMMA InstanceInvariant == Spec => []InstanceInv
<1>1. Init => InstanceInv
  <2> SUFFICES ASSUME Init PROVE InstanceInv
    OBVIOUS
  <2>1. LedgerInv
    BY TypeInit, Zenon
       DEF LedgerInv, Init, LedgerKnown, OwnRelease, UnstartedSteps, ReleaseUnderEveryUnit
  <2>2. Identity
    BY DEF Init, Identity, NamedSteps, UnstartedSteps, PublishedSteps
  <2>3. CurrentKnown
    BY DEF Init, CurrentKnown, UnpublishedSteps, RelaunchSteps, WatchdogSteps, PublishedSteps
  <2>4. Routing
    BY DEF Init, Routing, LiveInstanceIsRouted, NamedSteps, PublishedSteps
  <2> QED
    BY <2>1, <2>2, <2>3, <2>4 DEF InstanceInv
<1>2. InstanceInv /\ [Next]_vars => InstanceInv'
  <2> SUFFICES ASSUME InstanceInv, [Next]_vars PROVE InstanceInv'
    OBVIOUS
  <2>1. LedgerInv'
    BY TypeStep, ShapeStep, LedgerStep, OwnStep, ReleaseStep DEF InstanceInv, LedgerInv
  <2> QED
    BY <2>1, IdentityStep, CurrentStep, RoutingStep DEF InstanceInv
<1> QED
  BY <1>1, <1>2, PTL DEF Spec

\* A live current instance is the one the proxy dials, and its socket is
\* there: a verdict reached on an instance a deploy has since replaced never
\* unroutes its successor.
THEOREM LiveIsRouted == Spec => []LiveInstanceIsRouted
<1>1. InstanceInv => LiveInstanceIsRouted
  BY DEF InstanceInv, Routing
<1> QED
  BY <1>1, InstanceInvariant, PTL
=============================================================================
