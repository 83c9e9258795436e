------------------------------ MODULE ManagedApp ------------------------------
(***************************************************************************)
(* One liveswap app (liveswap/app.go, deploying.go, state.go, deploys.go): *)
(* the deploy pipeline, crash recovery and the watchdog's restart, which   *)
(* take turns under deployMu, over the service manager's ledger of units   *)
(* and the files the app keeps on disk.                                    *)
(*                                                                         *)
(* Every durable write, every call to the manager and every change of what *)
(* the proxy dials is a step of its own, so that a motel stop, a unit's    *)
(* exit or the watchdog's unlocked half can fall between any two of them.  *)
(***************************************************************************)
EXTENDS Naturals, FiniteSets

CONSTANTS
    Versions,     \* version names a request can carry
    Nonces,       \* instance identifiers; one nothing mentions is fresh
    None,         \* a nil pointer, or no file
    Keep,         \* the app's keep directive
    PreStart,     \* whether the app definition has a pre_start
    MaxDeploys,   \* bound on the deploys begun
    Faults        \* which calls may fail: see FaultKinds

\* "manager": an answer of the service manager is lost; "launch": a launch
\* cannot be prepared or its start fails; "refuse": a pre-flight refuses it;
\* the others are the write or removal of that file failing.
FaultKinds == {"manager", "launch", "refuse", "state", "record", "marker", "remove"}

ASSUME NoneAssumption ==
    /\ None \notin Versions /\ None \notin Nonces
    /\ None \notin [nonce : Nonces, version : Versions]
    /\ None \notin [version : Versions, started : Nat]
    /\ None \notin [started : Nat, failed : BOOLEAN]

ASSUME BoundsAssumption ==
    /\ Keep \in Nat \ {0} /\ PreStart \in BOOLEAN /\ MaxDeploys \in Nat
    /\ Faults \subseteq FaultKinds

VARIABLES
    units,        \* manager: the app's running units
    releases,     \* disk: releases/<version>
    stateFile,    \* disk: state.json
    marker,       \* disk: deploying.json
    records,      \* disk: deploys/<version>.json
    socks,        \* disk: run/<nonce> and its pin under proxy/
    up,           \* motel is running
    current,      \* managedApp.current
    active,       \* managedApp.activeSocket
    exited,       \* nonces of held handles whose watcher has seen the end
    recovering,   \* recover's loop is still trying
    verdict,      \* the failure handleFailure is acting on
    pc,           \* where the holder of deployMu is; "free" when unlocked
    who,          \* the holder of deployMu
    target,       \* the version it launches
    old,          \* the instance it found current
    new,          \* the nonce of the instance it launches
    notes,        \* what it has noted so far
    clock,        \* deploys begun, which is when the latest started
    gated,        \* history: releases whose bytes passed the health gate
    left          \* history: releases a failure said it leaves on disk

disk == <<releases, stateFile, marker, records>>
memory == <<current, active, recovering, verdict>>
locals == <<who, target, old, new, notes>>
history == <<gated, left>>
vars == <<units, disk, socks, up, memory, exited, pc, locals, clock, history>>

Instances == [nonce : Nonces, version : Versions]
Units == [nonce : Nonces, version : Versions, kind : {"app", "pre"}]
Markers == [version : Versions, started : Nat]
Records == [started : Nat, failed : BOOLEAN]
Verdicts == [inst : Instances, stage : {"noticed", "waiting"}]
\* What a deploy notes on its way: it extracted the release itself; it wrote
\* the marker; it failed; its outcome is not the version's history; its unit
\* may be running regardless.
Notes == {"extracted", "marked", "failed", "unrecorded", "doubt"}

Steps == {"free", "settle_sweep", "settle", "settle_record", "settle_clear",
          "accept", "fetch", "prepare", "pre_sweep", "pre_start", "migrating",
          "start_sweep", "start", "soak", "swap", "route", "persist", "drain",
          "final_sweep", "gc", "cleanup", "record", "clear", "reattach",
          "adopt", "recover_sweep", "wd_sweep", "wd_stop"}

Init ==
    /\ units = {} /\ releases = {} /\ stateFile = None /\ marker = None
    /\ records = [v \in Versions |-> None]
    /\ socks = {} /\ up = FALSE /\ current = None /\ active = None
    /\ exited = {} /\ recovering = FALSE /\ verdict = None
    /\ pc = "free" /\ who = "nobody" /\ target = None /\ old = None /\ new = None
    /\ notes = {} /\ clock = 0 /\ gated = {} /\ left = {}

-----------------------------------------------------------------------------
(* The runner's view of the manager. *)

Inst(n, v) == [nonce |-> n, version |-> v]
AppUnit(i) == [nonce |-> i.nonce, version |-> i.version, kind |-> "app"]
PreUnit(i) == [nonce |-> i.nonce, version |-> i.version, kind |-> "pre"]
Launch == Inst(new, target)

\* runner.Alive: the handle's watcher has not seen the unit end yet.
Alive(i) == i # None /\ i.nonce \notin exited
Running(i) == i # None /\ AppUnit(i) \in units
Migrating == \E u \in units : u.kind = "pre"

AppUnits == {u \in units : u.kind = "app"}
Kept(keep) == IF keep = None THEN {} ELSE {AppUnit(keep)}
KeptNonces(keep) == IF keep = None THEN {} ELSE {keep.nonce}

\* Mutant: the sweep looks at app units only, as if no pre_start were one.
SweepBlindToMigrations(keep, launching) ==
    /\ units' = units \ (AppUnits \ Kept(keep))
    /\ socks' = socks \cap (KeptNonces(keep) \cup {launching})

\* Mutant: the sweep stops a running pre_start too, as StopAll does.
SweepStopsMigrations(keep, launching) ==
    /\ units' = units \cap Kept(keep)
    /\ socks' = socks \cap (KeptNonces(keep) \cup {launching})

\* Sweep returned nil: keep is the only unit left, and the sockets of every
\* other instance but the one being launched are pruned.
SweepConfirmed(keep, launching) ==
    /\ ~Migrating
    /\ units' = units \cap Kept(keep)
    /\ socks' = socks \cap (KeptNonces(keep) \cup {launching})

\* Sweep returned an error: a pre_start is running, which it spares, or the
\* manager did not answer for some stray, which may or may not be gone.
UnitsUnconfirmed(keep) ==
    \/ Migrating /\ units' = units \ (AppUnits \ Kept(keep))
    \/ /\ "manager" \in Faults
       /\ \E gone \in SUBSET (AppUnits \ Kept(keep)) : units' = units \ gone

SweepUnconfirmed(keep) == UnitsUnconfirmed(keep) /\ UNCHANGED socks

\* Stop returned nil: the unit is gone and the watcher has seen it.
StopConfirmed(i) ==
    /\ units' = units \ {AppUnit(i)}
    /\ exited' = exited \cup {i.nonce}

\* Stop returned an error: the unit may be running still.
StopUnconfirmed(i) ==
    /\ "manager" \in Faults
    /\ \E gone \in SUBSET {AppUnit(i)} : units' = units \ gone
    /\ UNCHANGED exited

-----------------------------------------------------------------------------
(* Taking and letting go of deployMu. *)

\* The handles anything still refers to once the holder lets go.
Held == KeptNonces(current) \cup
        (IF verdict = None THEN {} ELSE {verdict.inst.nonce})

Unlock ==
    /\ pc' = "free" /\ who' = "nobody" /\ target' = None /\ old' = None
    /\ new' = None /\ notes' = {}
    /\ exited' = exited \cap Held

\* newNonce: an identifier nothing else goes by. A socket dir left over from
\* an instance nothing mentions any more is as good as absent, so its nonce
\* stands for the next fresh one.
FreshNonce(n) ==
    /\ n \notin exited
    /\ \A u \in units : u.nonce # n
    /\ n \notin Held \cup KeptNonces(stateFile) \cup KeptNonces(old)
    /\ active # n

\* A failure of the deploy before its cutover, on its way to the defers.
FailTo(step, more) ==
    /\ pc' = step /\ notes' = notes \cup {"failed"} \cup more
    /\ UNCHANGED <<who, target, old, new>>

Goto(step) == pc' = step /\ UNCHANGED locals

-----------------------------------------------------------------------------
(* The deploy pipeline: deployLocked. *)

\* Deploy and deployPush take the lock; a request naming the running version
\* relaunches it from disk when its artifact matches the record's. A request
\* refused here changes nothing.
BeginDeploy(v, rollback) ==
    LET same == current # None /\ current.version = v /\ Alive(current)
    IN  /\ up /\ pc = "free" /\ clock < MaxDeploys
        /\ same => rollback \/ records[v] # None
        /\ clock' = clock + 1
        /\ who' = "deploy" /\ target' = v /\ old' = current /\ new' = None
        /\ notes' = IF same THEN {"unrecorded"} ELSE IF rollback THEN {} ELSE {"extracted"}
        /\ pc' = IF marker # None THEN "settle_sweep" ELSE "accept"
        /\ UNCHANGED <<units, disk, socks, up, memory, exited, history>>

\* settleBeforeDeploy's sweep: unconfirmed, the deploy is refused.
SettleSweep ==
    /\ pc = "settle_sweep"
    /\ \/ SweepConfirmed(old, None) /\ Goto("settle") /\ UNCHANGED exited
       \/ SweepUnconfirmed(old) /\ Unlock
    /\ UNCHANGED <<disk, up, memory, clock, history>>

\* The instance recovery stands by: none when nothing is recorded.
RecoverKeep == IF old = None /\ target = None THEN None ELSE current

\* The instance whose version a settle must not touch.
SettleKeep == IF who = "deploy" THEN old ELSE RecoverKeep


\* Mutant: the version state.json names is not looked at.
MarkerFinishedUnlessServing ==
    \/ SettleKeep # None /\ SettleKeep.version = marker.version
    \/ /\ records[marker.version] # None
       /\ records[marker.version].started = marker.started

\* Whether the marker's deploy is known to have ended: it serves, state.json
\* names it, or its own record is there.
MarkerFinished ==
    \/ SettleKeep # None /\ SettleKeep.version = marker.version
    \/ stateFile # None /\ stateFile.version = marker.version
    \/ /\ records[marker.version] # None
       /\ records[marker.version].started = marker.started

\* settleInterrupted, up to the removal of the release.
Settle ==
    /\ pc = "settle"
    /\ UNCHANGED <<units, stateFile, marker, records, socks, up, memory, exited, clock, gated>>
    /\ \/ (marker # None => MarkerFinished) /\ Goto("settle_clear")
          /\ UNCHANGED <<releases, left>>
       \/ /\ marker # None /\ ~MarkerFinished
          /\ records[marker.version] # None /\ "record" \in Faults
          /\ left' = left \cup {marker.version}
          /\ Goto("settle_clear") /\ UNCHANGED releases
       \/ /\ marker # None /\ ~MarkerFinished
          /\ releases' = releases \ {marker.version} /\ UNCHANGED left
          /\ Goto("settle_record")
       \/ /\ marker # None /\ ~MarkerFinished /\ "remove" \in Faults
          /\ left' = left \cup {marker.version} /\ UNCHANGED releases
          /\ Goto("settle_record")

\* pruneDeployRecords: every version on disk keeps its record, and so do the
\* newest Keep others.
Pruned(recs) ==
    LET others == {v \in Versions : recs[v] # None /\ v \notin releases}
        newer(v) == {w \in others : recs[w].started > recs[v].started}
    IN  [v \in Versions |-> IF v \in others /\ Cardinality(newer(v)) >= Keep
                            THEN None ELSE recs[v]]

\* recordDeploy, or its write failing.
WriteRecord(v, started, failed) ==
    \/ records' = Pruned([records EXCEPT ![v] = [started |-> started, failed |-> failed]])
    \/ "record" \in Faults /\ UNCHANGED records

\* clearDeployMarker, or the removal failing.
ClearMarker ==
    \/ marker' = None
    \/ "marker" \in Faults /\ UNCHANGED marker

SettleRecord ==
    /\ pc = "settle_record"
    /\ WriteRecord(marker.version, marker.started, TRUE)
    /\ Goto("settle_clear")
    /\ UNCHANGED <<units, releases, stateFile, marker, socks, up, memory, exited, clock, history>>

\* The settle's end: a deploy goes on, a recovery is over.
SettleClear ==
    /\ pc = "settle_clear"
    /\ ClearMarker
    /\ \/ who = "deploy" /\ Goto("accept") /\ UNCHANGED <<exited, recovering>>
       \/ who = "recover" /\ Unlock /\ recovering' = FALSE
    /\ UNCHANGED <<units, releases, stateFile, records, socks, up, current, active, verdict, clock, history>>

\* Versions are immutable: a deploy of one on disk is refused, as is a
\* rollback to one that is not.
Refuse ==
    /\ pc = "accept"
    /\ "extracted" \in notes <=> target \in releases
    /\ Unlock
    /\ UNCHANGED <<units, disk, socks, up, memory, clock, history>>

\* The request is accepted; a deploy that will extract writes its marker.
Accept ==
    /\ pc = "accept"
    /\ "extracted" \in notes <=> target \notin releases
    /\ \/ /\ "extracted" \notin notes
          /\ Goto("prepare") /\ UNCHANGED marker
       \/ /\ "extracted" \in notes
          /\ marker' = [version |-> target, started |-> clock]
          /\ pc' = "fetch" /\ notes' = notes \cup {"marked"}
          /\ UNCHANGED <<who, target, old, new>>
       \/ /\ "extracted" \in notes /\ "marker" \in Faults
          /\ FailTo("record", {}) /\ UNCHANGED marker
    /\ UNCHANGED <<units, releases, stateFile, records, socks, up, memory, exited, clock, history>>

\* fetch: the extracted tree is renamed into place whole, or not at all. A
\* refused URL or digest is the request's failure, not the version's.
Fetch ==
    /\ pc = "fetch"
    /\ \/ /\ releases' = releases \cup {target}
          /\ gated' = gated \ {target} /\ left' = left \ {target}
          /\ Goto("prepare")
       \/ /\ \E more \in SUBSET {"unrecorded"} : FailTo("record", more)
          /\ UNCHANGED <<releases, history>>
    /\ UNCHANGED <<units, stateFile, marker, records, socks, up, memory, exited, clock>>

\* prepareLaunch and, on a deploy, the pre-flights.
Prepare ==
    /\ pc = "prepare" /\ target \in releases
    /\ \E n \in Nonces :
          /\ FreshNonce(n)
          /\ new' = n
          /\ socks' = socks \cup {n}
    /\ pc' = IF PreStart /\ "extracted" \in notes THEN "pre_sweep" ELSE "start_sweep"
    /\ UNCHANGED <<who, target, old, notes, units, disk, up, memory, exited, clock, history>>

\* launchVersion returned an error: its own socket is among those retired
\* unless its unit may run, recovery retries, and the watchdog unroutes the
\* instance it could not replace (unrouteIf).
RelaunchFailed(retired) ==
    /\ Unlock
    /\ \/ /\ who = "recover"
          /\ socks' = socks \ retired /\ UNCHANGED <<active, verdict>>
       \/ /\ who = "watchdog" /\ verdict' = None /\ active' = None
          /\ socks' = socks \ (retired \cup {old.nonce})

PrepareFailed ==
    /\ pc = "prepare"
    /\ \/ /\ who = "deploy" /\ "launch" \in Faults
          /\ \E more \in SUBSET {"unrecorded"} : FailTo("cleanup", more)
          /\ UNCHANGED <<socks, active, verdict, exited>>
       \/ /\ "launch" \in Faults \/ target \notin releases
          /\ RelaunchFailed({})
    /\ UNCHANGED <<units, disk, up, current, recovering, clock, history>>

\* Mutant: the sweep before the pre_start keeps nothing.
PreSweepKeepsNothing ==
    /\ pc = "pre_sweep"
    /\ \/ SweepConfirmed(None, new) /\ Goto("pre_start")
       \/ SweepUnconfirmed(None) /\ FailTo("cleanup", {})
    /\ UNCHANGED <<disk, up, memory, exited, clock, history>>

PreSweep ==
    /\ pc = "pre_sweep"
    /\ \/ SweepConfirmed(old, new) /\ Goto("pre_start")
       \/ SweepUnconfirmed(old) /\ FailTo("cleanup", {})
    /\ UNCHANGED <<disk, up, memory, exited, clock, history>>

\* RunOnce: its unit starts, or fails to, or may have.
RunPreStart ==
    /\ pc = "pre_start"
    /\ \/ units' = units \cup {PreUnit(Launch)} /\ Goto("migrating")
       \/ UNCHANGED units /\ FailTo("cleanup", {})
       \/ /\ "manager" \in Faults
          /\ \E born \in SUBSET {PreUnit(Launch)} : units' = units \cup born
          /\ FailTo("cleanup", {"doubt"})
    /\ UNCHANGED <<disk, socks, up, memory, exited, clock, history>>

\* RunOnce returns: the command ended, or its deadline passed and its stop
\* was confirmed, or was not.
Migrated ==
    /\ pc = "migrating"
    /\ \/ units' = units \ {PreUnit(Launch)} /\ (Goto("start_sweep") \/ FailTo("cleanup", {}))
       \/ /\ "manager" \in Faults
          /\ \E gone \in SUBSET {PreUnit(Launch)} : units' = units \ gone
          /\ FailTo("cleanup", {"doubt"})
    /\ UNCHANGED <<disk, socks, up, memory, exited, clock, history>>

\* The instance a launch may come up beside: a deploy's old one, nothing on
\* a relaunch (launchVersion).
Beside == IF who = "deploy" THEN old ELSE None

\* Mutant: a launch goes on after a sweep that could not be confirmed.
StartAfterAnySweep ==
    /\ pc = "start_sweep" /\ Goto("start")
    /\ SweepConfirmed(Beside, new) \/ SweepUnconfirmed(Beside)
    /\ UNCHANGED <<disk, up, memory, exited, clock, history>>

\* Mutant: a recovery whose sweep could not be confirmed gives up.
StartSweepGivesUp ==
    /\ pc = "start_sweep"
    /\ \/ /\ SweepConfirmed(Beside, new) /\ Goto("start")
          /\ UNCHANGED <<active, verdict, exited, recovering>>
       \/ /\ who = "deploy" /\ SweepUnconfirmed(Beside) /\ FailTo("cleanup", {})
          /\ UNCHANGED <<active, verdict, exited, recovering>>
       \/ /\ who # "deploy" /\ UnitsUnconfirmed(Beside)
          /\ RelaunchFailed({new}) /\ recovering' = FALSE
    /\ UNCHANGED <<disk, up, current, clock, history>>

StartSweep ==
    /\ pc = "start_sweep"
    /\ \/ /\ SweepConfirmed(Beside, new) /\ Goto("start")
          /\ UNCHANGED <<active, verdict, exited>>
       \/ /\ who = "deploy" /\ SweepUnconfirmed(Beside) /\ FailTo("cleanup", {})
          /\ UNCHANGED <<active, verdict, exited>>
       \/ /\ who # "deploy" /\ UnitsUnconfirmed(Beside)
          /\ RelaunchFailed({new})
    /\ UNCHANGED <<disk, up, current, recovering, clock, history>>

\* runner.Start: the unit runs.
Start ==
    /\ pc = "start"
    /\ units' = units \cup {AppUnit(Launch)}
    /\ Goto(IF who = "deploy" THEN "soak" ELSE "swap")
    /\ UNCHANGED <<disk, socks, up, memory, exited, clock, history>>

\* runner.Start: the unit never ran, or whether it runs cannot be told.
StartFailed ==
    /\ pc = "start"
    /\ \E doubt \in BOOLEAN :
          /\ IF doubt THEN "manager" \in Faults ELSE "launch" \in Faults
          /\ \/ UNCHANGED units
             \/ doubt /\ units' = units \cup {AppUnit(Launch)}
          /\ \/ /\ who = "deploy"
                /\ FailTo("cleanup", IF doubt THEN {"doubt"} ELSE {})
                /\ UNCHANGED <<socks, active, verdict, exited>>
             \/ RelaunchFailed(IF doubt THEN {} ELSE {new})
    /\ UNCHANGED <<disk, up, current, recovering, clock, history>>

\* A relaunch's pre-flight refuses the release: recovery gives up, and the
\* watchdog drops the instance (dropIf).
RelaunchRefused ==
    /\ pc = "start" /\ who # "deploy" /\ "refuse" \in Faults
    /\ Unlock
    /\ \/ /\ who = "recover" /\ recovering' = FALSE
          /\ socks' = socks \ {new} /\ UNCHANGED <<current, active, verdict>>
       \/ /\ who = "watchdog" /\ verdict' = None
          /\ current' = None /\ active' = None
          /\ socks' = socks \ {new, old.nonce} /\ UNCHANGED recovering
    /\ UNCHANGED <<units, disk, up, clock, history>>

\* waitHealthy: the gate passed, or failed and the new instance is stopped.
Soak ==
    /\ pc = "soak"
    /\ \/ /\ Running(Launch) /\ gated' = gated \cup {target}
          /\ Goto("swap") /\ UNCHANGED <<units, exited>>
       \/ StopConfirmed(Launch) /\ FailTo("cleanup", {}) /\ UNCHANGED gated
       \/ StopUnconfirmed(Launch) /\ FailTo("cleanup", {"doubt"}) /\ UNCHANGED gated
    /\ UNCHANGED <<disk, socks, up, memory, clock, left>>

\* publishInstance: current, then what the proxy dials, then state.json.
Swap ==
    /\ pc = "swap" /\ current' = Launch /\ Goto("route")
    /\ UNCHANGED <<units, disk, socks, up, active, recovering, verdict, exited, clock, history>>

Route ==
    /\ pc = "route" /\ active' = new /\ Goto("persist")
    /\ UNCHANGED <<units, disk, socks, up, current, recovering, verdict, exited, clock, history>>

\* persistState, after which a deploy drains, a recovery settles and the
\* watchdog retires the socket of the instance it replaced.
Persist ==
    /\ pc = "persist"
    /\ \/ stateFile' = Launch
       \/ "state" \in Faults /\ UNCHANGED stateFile
    /\ \/ who = "deploy" /\ Goto("drain") /\ UNCHANGED <<verdict, exited, socks>>
       \/ who = "recover" /\ Goto("settle") /\ UNCHANGED <<verdict, exited, socks>>
       \/ /\ who = "watchdog" /\ Unlock /\ verdict' = None
          /\ socks' = socks \ {old.nonce}
    /\ UNCHANGED <<units, releases, marker, records, up, current, active, recovering, clock, history>>

\* Drain and stop the replaced instance, whose socket is retired whatever
\* the stop came to.
Drain ==
    /\ pc = "drain" /\ Goto("final_sweep")
    /\ socks' = socks \ KeptNonces(old)
    /\ \/ ~Alive(old) /\ UNCHANGED <<units, exited>>
       \/ Alive(old) /\ (StopConfirmed(old) \/ StopUnconfirmed(old))
    /\ UNCHANGED <<disk, up, memory, clock, history>>

\* Nothing is collected unless the sweep confirms the new instance is alone.
FinalSweep ==
    /\ pc = "final_sweep"
    /\ \/ SweepConfirmed(Launch, None) /\ Goto("gc")
       \/ SweepUnconfirmed(Launch) /\ Goto("record")
    /\ UNCHANGED <<disk, up, memory, exited, clock, history>>

\* newestFirst: the promoted version, then the one it replaced, then the
\* releases by how and when their latest deploy went. Releases with no
\* record tie: their order is their mtime's, which an app can set.
Rank(v) == IF v = target THEN 0
           ELSE IF old # None /\ v = old.version THEN 1 ELSE 2
Tier(v) == IF records[v] = None THEN 2 ELSE IF records[v].failed THEN 1 ELSE 0
Newer(v, w) ==
    \/ Rank(v) < Rank(w)
    \/ Rank(v) = Rank(w) /\ Tier(v) < Tier(w)
    \/ /\ Rank(v) = Rank(w) /\ Tier(v) = Tier(w) /\ Tier(v) # 2
       /\ records[v].started > records[w].started

\* gcReleases keeps the newest Keep. Held releases, whose record cannot be
\* read, are neither counted nor removed; a removal may fail.
CollectReleases ==
    /\ pc = "gc" /\ Goto("record")
    /\ \E held \in SUBSET releases, kept \in SUBSET releases,
          stuck \in SUBSET releases :
          /\ held # {} => "record" \in Faults
          /\ stuck # {} => "remove" \in Faults
          /\ kept \cap held = {}
          /\ \/ Cardinality(kept) = Keep
             \/ Cardinality(kept) < Keep /\ kept \cup held = releases
          /\ \A v \in kept, w \in releases \ (kept \cup held) : ~Newer(w, v)
          /\ releases' = kept \cup held \cup stuck \cup (releases \cap {target})
    /\ UNCHANGED <<units, stateFile, marker, records, socks, up, memory, exited, clock, history>>

\* Mutant: the release of a deploy that failed goes whatever may be running.
CleanupDespiteDoubt ==
    /\ pc = "cleanup" /\ Goto("record")
    /\ socks' = socks \ {new}
    /\ releases' = IF "extracted" \in notes THEN releases \ {target} ELSE releases
    /\ UNCHANGED <<units, stateFile, marker, records, up, memory, exited, clock, history>>

\* The cleanup defers of a deploy that failed before its cutover: the release
\* it extracted and its sockets go, unless its unit may be running.
Cleanup ==
    /\ pc = "cleanup" /\ Goto("record")
    /\ socks' = IF "doubt" \in notes THEN socks ELSE socks \ {new}
    /\ \/ "extracted" \notin notes /\ UNCHANGED <<releases, left>>
       \/ /\ "extracted" \in notes /\ "doubt" \notin notes
          /\ releases' = releases \ {target} /\ UNCHANGED left
       \/ /\ "extracted" \in notes /\ ("doubt" \in notes \/ "remove" \in Faults)
          /\ left' = left \cup {target} /\ UNCHANGED releases
    /\ UNCHANGED <<units, stateFile, marker, records, up, memory, exited, clock, gated>>

RecordDeploy ==
    /\ pc = "record" /\ Goto("clear")
    /\ IF "unrecorded" \in notes THEN UNCHANGED records
       ELSE WriteRecord(target, clock, "failed" \in notes)
    /\ UNCHANGED <<units, releases, stateFile, marker, socks, up, memory, exited, clock, history>>

\* The marker goes once the record is written; then endDeploy.
EndDeploy ==
    /\ pc = "clear" /\ Unlock
    /\ IF "marked" \in notes THEN ClearMarker ELSE UNCHANGED marker
    /\ UNCHANGED <<units, releases, stateFile, records, socks, up, memory, clock, history>>

-----------------------------------------------------------------------------
(* Recovery: one attempt of recover's loop is ensureRunning. *)

BeginRecovery ==
    /\ up /\ recovering /\ pc = "free"
    /\ IF ~Alive(current) /\ stateFile # None /\ stateFile.version \notin releases
       THEN recovering' = FALSE /\ UNCHANGED <<pc, locals>>
       ELSE /\ who' = "recover" /\ new' = None /\ notes' = {}
            /\ old' = IF Alive(current) THEN current ELSE None
            /\ target' = IF stateFile = None THEN None ELSE stateFile.version
            /\ pc' = IF Alive(current) \/ stateFile = None
                     THEN "recover_sweep" ELSE "reattach"
            /\ UNCHANGED recovering
    /\ UNCHANGED <<units, disk, socks, up, current, active, verdict, exited, clock, history>>

\* The recorded unit runs and its socket can be pinned: adopted.
Reattach ==
    /\ pc = "reattach" /\ Running(stateFile) /\ stateFile.nonce \in socks
    /\ current' = stateFile /\ exited' = exited \ {stateFile.nonce}
    /\ Goto("adopt")
    /\ UNCHANGED <<units, disk, socks, up, active, recovering, verdict, clock, history>>

Adopt ==
    /\ pc = "adopt" /\ active' = current.nonce /\ Goto("recover_sweep")
    /\ UNCHANGED <<units, disk, socks, up, current, recovering, verdict, exited, clock, history>>

\* Observed not running, or nothing its record can be dialled by: relaunch.
NotAttached ==
    /\ pc = "reattach" /\ (~Running(stateFile) \/ stateFile.nonce \notin socks \/ "launch" \in Faults)
    /\ socks' = socks \ {stateFile.nonce}
    /\ Goto("prepare")
    /\ UNCHANGED <<units, disk, up, memory, exited, clock, history>>

\* The recorded unit's state could not be read: nothing is launched.
ReattachUnreadable ==
    /\ pc = "reattach" /\ "manager" \in Faults
    /\ Unlock
    /\ UNCHANGED <<units, disk, socks, up, memory, clock, history>>

\* Mutant: recovery is over although its sweep could not be confirmed.
RecoverSweepGivesUp ==
    /\ pc = "recover_sweep"
    /\ \/ SweepConfirmed(RecoverKeep, None) /\ Goto("settle") /\ UNCHANGED <<exited, recovering>>
       \/ SweepUnconfirmed(RecoverKeep) /\ Unlock /\ recovering' = FALSE
    /\ UNCHANGED <<disk, up, current, active, verdict, clock, history>>

RecoverSweep ==
    /\ pc = "recover_sweep"
    /\ \/ SweepConfirmed(RecoverKeep, None) /\ Goto("settle") /\ UNCHANGED exited
       \/ SweepUnconfirmed(RecoverKeep) /\ Unlock
    /\ UNCHANGED <<disk, up, memory, clock, history>>

-----------------------------------------------------------------------------
(* The watchdog: the verdict is reached without the lock, and acted on      *)
(* under it. Its pacing (budget, backoff, wake-ups) is Watchdog.tla's.      *)

\* superviseInstance: the process exited, or its probes failed.
WatchdogNotices ==
    /\ up /\ verdict = None /\ current # None
    /\ verdict' = [inst |-> current, stage |-> "noticed"]
    /\ UNCHANGED <<units, disk, socks, up, current, active, recovering, exited, pc, locals, clock, history>>

\* Mutant: the unroute does not look whether the instance is still current.
UnrouteWithoutLooking ==
    /\ up /\ verdict # None /\ verdict.stage = "noticed"
    /\ verdict' = [verdict EXCEPT !.stage = "waiting"]
    /\ IF ~Alive(verdict.inst)
       THEN active' = None /\ socks' = socks \ {verdict.inst.nonce}
       ELSE UNCHANGED <<active, socks>>
    /\ UNCHANGED <<units, disk, up, current, recovering, exited, pc, locals, clock, history>>

\* unrouteIf, before any wait: a dead instance is not dialled.
WatchdogUnroutes ==
    /\ up /\ verdict # None /\ verdict.stage = "noticed"
    /\ verdict' = [verdict EXCEPT !.stage = "waiting"]
    /\ IF ~Alive(verdict.inst) /\ current = verdict.inst
       THEN active' = None /\ socks' = socks \ {current.nonce}
       ELSE UNCHANGED <<active, socks>>
    /\ UNCHANGED <<units, disk, up, current, recovering, exited, pc, locals, clock, history>>

\* Replaced while waiting, or recovered by a fresh probe, or switched off.
WatchdogStandsDown ==
    /\ up /\ verdict # None /\ verdict.stage = "waiting"
    /\ \/ who # "watchdog" /\ current # verdict.inst
       \/ pc = "free" /\ Running(current)
    /\ verdict' = None
    /\ UNCHANGED <<units, disk, socks, up, current, active, recovering, exited, pc, locals, clock, history>>

WatchdogLocks ==
    /\ up /\ verdict # None /\ verdict.stage = "waiting" /\ pc = "free"
    /\ current = verdict.inst
    /\ who' = "watchdog" /\ target' = current.version /\ old' = current
    /\ new' = None /\ notes' = {}
    /\ pc' = IF Alive(current) THEN "wd_sweep" ELSE "prepare"
    /\ UNCHANGED <<units, disk, socks, up, memory, exited, clock, history>>

\* A running pre_start holds the restart; any other doubt is the launch's.
WatchdogSweep ==
    /\ pc = "wd_sweep"
    /\ \/ /\ SweepConfirmed(old, None) /\ Goto("wd_stop")
          /\ UNCHANGED <<verdict, exited>>
       \/ /\ Migrating /\ SweepUnconfirmed(old) /\ Unlock /\ verdict' = None
       \/ /\ "manager" \in Faults /\ SweepUnconfirmed(old) /\ Goto("wd_stop")
          /\ UNCHANGED <<verdict, exited>>
    /\ UNCHANGED <<disk, up, current, active, recovering, clock, history>>

\* Stop the unhealthy instance; a stop that cannot be confirmed leaves it.
WatchdogStop ==
    /\ pc = "wd_stop"
    /\ \/ StopConfirmed(old) /\ Goto("prepare") /\ UNCHANGED verdict
       \/ /\ "manager" \in Faults /\ Alive(old) /\ Unlock /\ verdict' = None
          /\ \E gone \in SUBSET {AppUnit(old)} : units' = units \ gone
    /\ UNCHANGED <<disk, socks, up, current, active, recovering, clock, history>>

-----------------------------------------------------------------------------
(* The world. *)

\* An app process ends by itself.
UnitExits ==
    /\ \E u \in AppUnits : units' = units \ {u}
    /\ UNCHANGED <<disk, socks, up, memory, exited, pc, locals, clock, history>>

\* Mutant: the launch is watched before it has a unit.
ExitObservedTooEarly ==
    /\ \E i \in {current, old, Launch} :
          /\ i # None /\ ~Running(i) /\ i.nonce \notin exited
          /\ exited' = exited \cup {i.nonce}
    /\ UNCHANGED <<units, disk, socks, up, memory, pc, locals, clock, history>>

\* watch and finish: the handle's watcher sees the unit gone.
ExitObserved ==
    /\ \E i \in {current, old, Launch} :
          /\ i # None /\ i.nonce # None /\ ~Running(i) /\ i.nonce \notin exited
          /\ i = Launch => pc = "soak"
          /\ exited' = exited \cup {i.nonce}
    /\ UNCHANGED <<units, disk, socks, up, memory, pc, locals, clock, history>>

\* A pre_start no motel waits for ends on its own clock.
OrphanMigrationEnds ==
    /\ \E u \in units :
          /\ u.kind = "pre" /\ ~(pc = "migrating" /\ u = PreUnit(Launch))
          /\ units' = units \ {u}
    /\ UNCHANGED <<disk, socks, up, memory, exited, pc, locals, clock, history>>

\* motel stops at any point: a crash, a restart, an upgrade. Units live on.
MotelStops ==
    /\ up /\ up' = FALSE
    /\ current' = None /\ active' = None /\ exited' = {} /\ verdict' = None
    /\ recovering' = FALSE /\ pc' = "free"
    /\ who' = "nobody" /\ target' = None /\ old' = None /\ new' = None /\ notes' = {}
    /\ UNCHANGED <<units, disk, socks, clock, history>>

MotelStarts ==
    /\ ~up /\ up' = TRUE /\ recovering' = TRUE
    /\ UNCHANGED <<units, disk, socks, current, active, verdict, exited, pc, locals, clock, history>>

\* A config reload runs recovery again.
Reload ==
    /\ up /\ ~recovering /\ recovering' = TRUE
    /\ UNCHANGED <<units, disk, socks, up, current, active, verdict, exited, pc, locals, clock, history>>

AdmitStep ==
    SettleSweep \/ Settle \/ SettleRecord \/ SettleClear \/ Refuse \/ Accept \/ Fetch

LaunchStep ==
    \/ Prepare \/ PrepareFailed \/ PreSweep \/ RunPreStart \/ Migrated \/ StartSweep
    \/ Start \/ StartFailed \/ RelaunchRefused \/ Soak

CutoverStep ==
    \/ Swap \/ Route \/ Persist \/ Drain \/ FinalSweep \/ CollectReleases \/ Cleanup
    \/ RecordDeploy \/ EndDeploy

DeployStep == AdmitStep \/ LaunchStep \/ CutoverStep

RecoveryStep ==
    BeginRecovery \/ Reattach \/ Adopt \/ NotAttached \/ ReattachUnreadable \/ RecoverSweep

WatchdogStep ==
    WatchdogUnroutes \/ WatchdogStandsDown \/ WatchdogLocks \/ WatchdogSweep \/ WatchdogStop

Next ==
    \/ \E v \in Versions, rollback \in BOOLEAN : BeginDeploy(v, rollback)
    \/ DeployStep \/ RecoveryStep \/ WatchdogNotices \/ WatchdogStep
    \/ UnitExits \/ ExitObserved \/ OrphanMigrationEnds \/ MotelStops \/ MotelStarts
    \/ Reload

Spec == Init /\ [][Next]_vars

-----------------------------------------------------------------------------
(* What the app is promised. *)

\* The variables hold values of their types.
TypeOK ==
    /\ units \subseteq Units /\ releases \subseteq Versions
    /\ stateFile \in Instances \cup {None} /\ marker \in Markers \cup {None}
    /\ records \in [Versions -> Records \cup {None}] /\ socks \subseteq Nonces
    /\ up \in BOOLEAN /\ current \in Instances \cup {None}
    /\ active \in Nonces \cup {None} /\ exited \subseteq Nonces
    /\ recovering \in BOOLEAN /\ verdict \in Verdicts \cup {None}
    /\ pc \in Steps /\ clock \in Nat
    /\ who \in {"nobody", "deploy", "recover", "watchdog"}
    /\ target \in Versions \cup {None} /\ old \in Instances \cup {None}
    /\ new \in Nonces \cup {None} /\ notes \subseteq Notes
    /\ gated \subseteq Versions /\ left \subseteq Versions

\* No release is deleted under a live process: the release of every running
\* unit, a pre_start's included, is on disk. Garbage collection (gcReleases),
\* the cleanup of a failed deploy and the settling of an interrupted one each
\* remove releases, on the word of a sweep that may be steps old.
ReleaseUnderEveryUnit == \A u \in units : u.version \in releases

\* At most one instance beside another: a new one comes up only next to the
\* one it replaces, whatever stops were unconfirmed and motels died before
\* (every Start follows a confirmed sweep).
AtMostTwoInstances == Cardinality(AppUnits) <= 2

\* Migrations never overlap, and nothing is launched beside one (the sweep
\* before RunOnce and Start reports a pre_start an earlier motel left).
NothingLaunchedBesideMigration ==
    [][Migrating => units' \subseteq units]_vars

\* A migration is never stopped by motel, except by the deploy that runs it
\* at its own deadline (Sweep spares a running pre_start).
MigrationsRunToTheirEnd ==
    [][\A u \in units \ units' : u.kind = "pre" => pc = "migrating" \/ pc' = pc]_vars

\* A live current instance is the one the proxy dials and its socket is
\* there, but for the two stores of its publication: no verdict on an
\* instance a deploy has replaced unroutes its successor (unrouteIf).
LiveInstanceIsRouted ==
    current # None /\ Running(current) /\ Alive(current)
       /\ ~(pc \in {"route", "adopt"}) =>
    active = current.nonce /\ active \in socks

\* No deploy or recovery step stops the serving instance: a deploy that
\* fails, wherever it fails, leaves it running.
ServingInstanceSpared ==
    [][pc # pc' /\ who \in {"deploy", "recover"} /\ Running(current) =>
       AppUnit(current) \in units']_vars


\* What the watchdog and a restart's recovery would relaunch is on disk, with
\* the bytes that passed the health gate, as long as state.json can be
\* written: a deploy whose write of it fails goes on (deployLocked logs that a
\* restart will not know the version), and its GC may then collect the version
\* the file still names, or a settle the one that it does not.
RelaunchableIsGated ==
    /\ current # None => current.version \in gated \cap releases
    /\ stateFile # None => stateFile.version \in gated \cap releases

-----------------------------------------------------------------------------
(* Fairness: motel's goroutines run, migrations end by their                *)
(* TimeoutStartSec, and a unit's watcher polls it. Nothing here makes the   *)
(* manager answer or a write succeed: the liveness properties are about     *)
(* instances without those Faults. Recovery retries at least every minute (recoveryBackoffCap)    *)
(* while the watchdog's restarts are spaced by a growing backoff, so it     *)
(* finds the lock free some time: hence SF.                                 *)

Fairness ==
    /\ WF_vars(DeployStep) /\ WF_vars(RecoveryStep) /\ WF_vars(WatchdogStep)
    /\ WF_vars(ExitObserved) /\ WF_vars(OrphanMigrationEnds)
    /\ WF_vars(WatchdogNotices /\ ~Alive(current))
    /\ WF_vars(MotelStarts) /\ SF_vars(BeginRecovery)

FairSpec == Spec /\ Fairness

Serving == current # None /\ active = current.nonce

\* An app that was once promoted is served again and again, whatever crashes,
\* restarts of motel, interrupted migrations and failed deploys happen, when
\* the manager answers and writes succeed: its recovery and its watchdog do
\* not wait for each other for ever.
ServedAgain == (<>[]up) => []<>(Serving \/ stateFile = None)

\* An interrupted deploy is settled: its marker does not outlive the next
\* undisturbed run of motel.
MarkerSettled == (<>[]up) => []<>(marker = None)
=============================================================================
