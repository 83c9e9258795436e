------------------------------ MODULE Watchdog ------------------------------
(***************************************************************************)
(* The pacing of one app's watchdog (liveswap/watchdog.go): grace, probes, *)
(* the restart budget, the backoff, and the wake-ups that reach its        *)
(* goroutine over wdNotify while deploys, recoveries and config reloads    *)
(* change the world under it. What a launch does on disk and in the        *)
(* manager is ManagedApp's.                                                *)
(*                                                                         *)
(* Times are kept as what is left of them, or as how long ago they were,   *)
(* so that the clock itself is no part of the state.                       *)
(***************************************************************************)
EXTENDS Naturals, Sequences

CONSTANTS
    Instances,     \* handles of instances; one nothing mentions is fresh
    None,          \* a nil pointer
    Budget,        \* watchdog_restarts
    Window,        \* watchdog_window
    Failures,      \* watchdog_failures
    Grace,         \* watchdog_grace
    Interval,      \* health_interval
    ResetAfter,    \* backoffResetAfter
    Floor,         \* wdBackoffFloor
    Cap,           \* wdBackoffCap
    MaxStep,       \* bound on the backoff step, past which it changes nothing
    MaxHolds,      \* bound on the deploys and recoveries
    MaxReloads     \* bound on the config reloads

ASSUME InstancesAssumption == None \notin Instances
ASSUME TimesAssumption ==
    /\ {Budget, Window, Failures, Interval, ResetAfter, Floor} \subseteq Nat \ {0}
    /\ {Grace, Cap, MaxStep, MaxHolds, MaxReloads} \subseteq Nat
    /\ Floor <= Cap /\ Cap <= Floor * 2^MaxStep

VARIABLES
    on,            \* the live spec's watchdogOn
    current,       \* managedApp.current
    alive,         \* handles whose unit the runner has not seen end
    lock,          \* who holds deployMu
    stage,         \* how far a deploy or a recovery has come
    poked,         \* wdNotify holds a poke
    owed,          \* someone is about to poke
    restarts,      \* watchdogState.restarts: the slots' ages, oldest first
    step,          \* watchdogState.backoffStep
    failures,      \* watchdogState.failures
    streak,        \* age of watchdogState.healthySince
    skipGraceFor,  \* watchdogState.skipGraceFor
    pc,            \* where the goroutine is
    inst,          \* the instance it supervises
    graceLeft, probeIn, wait,   \* what is left of its timers
    overtaken,     \* deploysEnded has moved since the failure was found
    holds, reloads,             \* deploys and recoveries, and reloads, so far
    spent          \* history: ages of the slots restarts were begun with

world == <<on, current, alive, lock, stage>>
wake == <<poked, owed>>
book == <<restarts, step, failures, streak, skipGraceFor>>
timers == <<graceLeft, probeIn, wait>>
bounds == <<holds, reloads>>
vars == <<world, wake, book, pc, inst, timers, overtaken, bounds, spent>>

Init ==
    /\ on \in BOOLEAN /\ current = None /\ alive = {}
    /\ lock = "free" /\ stage = "none" /\ poked = FALSE /\ owed = FALSE
    /\ restarts = <<>> /\ step = 0 /\ failures = 0 /\ streak = None
    /\ skipGraceFor = None /\ pc = "loop" /\ inst = None
    /\ graceLeft = 0 /\ probeIn = 0 /\ wait = 0 /\ overtaken = FALSE
    /\ holds = 0 /\ reloads = 0 /\ spent = <<>>

Least(a, b) == IF a < b THEN a ELSE b
Most(a, b) == IF a > b THEN a ELSE b
InWindow(age) == age < Window

Fresh(i) == i \in Instances \ ({current, inst, skipGraceFor} \cup alive)

-----------------------------------------------------------------------------
(* The goroutine: watchdogLoop, parkWatchdog, superviseInstance. *)

GoTo(p) == pc' = p /\ UNCHANGED <<inst, overtaken>>

\* Back to watchdogLoop: what was local to the supervision is gone.
Leave ==
    /\ pc' = "loop" /\ inst' = None /\ overtaken' = FALSE
    /\ graceLeft' = 0 /\ probeIn' = 0 /\ wait' = 0

\* One cycle of the outer loop: park, or take up the current instance (arm),
\* with no grace if its stop could not be confirmed last time.
Loop ==
    /\ pc = "loop"
    /\ \/ /\ ~on \/ current = None
          /\ GoTo("parked") /\ UNCHANGED <<failures, streak, skipGraceFor, timers>>
       \/ /\ on /\ current # None
          /\ pc' = "watch" /\ inst' = current /\ UNCHANGED overtaken
          /\ graceLeft' = IF skipGraceFor = current THEN 0 ELSE Grace
          /\ skipGraceFor' = IF skipGraceFor = current THEN None ELSE skipGraceFor
          /\ probeIn' = Interval /\ failures' = 0 /\ streak' = None /\ UNCHANGED wait
    /\ UNCHANGED <<world, wake, restarts, step, bounds, spent>>

Park ==
    /\ pc = "parked" /\ poked /\ poked' = FALSE /\ GoTo("loop")
    /\ UNCHANGED <<world, owed, book, timers, bounds, spent>>

\* The top of superviseInstance's loop re-reads the spec.
Watch ==
    /\ pc = "watch" /\ IF on THEN GoTo("select") /\ UNCHANGED timers ELSE Leave
    /\ UNCHANGED <<world, wake, book, bounds, spent>>

\* handleFailure is entered.
Fails ==
    /\ pc' = "budget" /\ overtaken' = FALSE /\ UNCHANGED inst
    /\ graceLeft' = 0 /\ probeIn' = 0 /\ wait' = 0

\* A poke: another instance is current, or the config is to be re-read.
WakeInWatch ==
    /\ pc = "select" /\ poked /\ poked' = FALSE
    /\ IF current # inst THEN Leave ELSE GoTo("watch") /\ UNCHANGED timers
    /\ UNCHANGED <<world, owed, book, bounds, spent>>

\* The handle's end: a crash, unless a deploy has stopped what it replaced.
ExitInWatch ==
    /\ pc = "select" /\ inst \notin alive
    /\ IF current # inst THEN Leave ELSE Fails
    /\ UNCHANGED <<world, wake, book, bounds, spent>>

\* The tick: the process is looked at, then the health endpoint probed.
TickInWatch ==
    /\ pc = "select" /\ probeIn = 0
    /\ IF current # inst THEN Leave
       ELSE IF inst \notin alive THEN Fails
       ELSE GoTo("probe") /\ probeIn' = Interval /\ UNCHANGED <<graceLeft, wait>>
    /\ UNCHANGED <<world, wake, book, bounds, spent>>

\* The probe's answer, dropped if a deploy has replaced the instance since:
\* recordHealthy, noteFlap within the grace, or recordFailure.
Probe ==
    /\ pc = "probe"
    /\ \/ current # inst /\ Leave /\ UNCHANGED <<failures, streak, step>>
       \/ /\ current = inst /\ GoTo("watch") /\ UNCHANGED timers /\ failures' = 0
          /\ streak' = IF streak = None THEN 0 ELSE streak
          /\ step' = IF streak = ResetAfter THEN 0 ELSE step
       \/ /\ current = inst /\ graceLeft > 0 /\ GoTo("watch") /\ UNCHANGED timers
          /\ streak' = None /\ UNCHANGED <<failures, step>>
       \/ /\ current = inst /\ graceLeft = 0
          /\ failures' = failures + 1 /\ streak' = None /\ UNCHANGED step
          /\ IF failures' >= Failures THEN Fails ELSE GoTo("watch") /\ UNCHANGED timers
    /\ UNCHANGED <<world, wake, restarts, skipGraceFor, bounds, spent>>

-----------------------------------------------------------------------------
(* handleFailure: budget, backoff, lock, restart. *)

\* Mutant: a full window has room for one more.
ConsumeOverBudget ==
    /\ pc = "budget" /\ on /\ GoTo("claimed")
    /\ LET kept == SelectSeq(restarts, InWindow)
       IN  Len(kept) <= Budget /\ restarts' = Append(kept, 0)
    /\ UNCHANGED <<world, wake, step, failures, streak, skipGraceFor, timers, bounds, spent>>

\* consumeBudget: a slot is claimed if the window has room, or the wait is
\* until the oldest one slides out (untilBudgetFrees).
ConsumeBudget ==
    /\ pc = "budget"
    /\ LET kept == SelectSeq(restarts, InWindow)
       IN  \/ ~on /\ Leave /\ UNCHANGED restarts
           \/ /\ on /\ Len(kept) < Budget /\ restarts' = Append(kept, 0)
              /\ GoTo("claimed") /\ UNCHANGED timers
           \/ /\ on /\ Len(kept) >= Budget /\ restarts' = kept /\ GoTo("throttled")
              /\ wait' = Most(Window - Head(kept), Floor) /\ UNCHANGED <<graceLeft, probeIn>>
    /\ UNCHANGED <<world, wake, step, failures, streak, skipGraceFor, bounds, spent>>

\* The throttle: a poke has the budget read again, unless the instance went.
Throttled ==
    /\ pc = "throttled"
    /\ \/ /\ poked /\ poked' = FALSE /\ current # inst /\ Leave
       \/ /\ GoTo("budget") /\ wait' = 0 /\ UNCHANGED <<graceLeft, probeIn>>
          /\ \/ poked /\ poked' = FALSE /\ current = inst
             \/ wait = 0 /\ UNCHANGED poked
    /\ UNCHANGED <<world, owed, book, bounds, spent>>

\* nextBackoff: doubling from the floor to the cap, give or take a fifth.
NextBackoff ==
    /\ pc = "claimed" /\ GoTo("pacing")
    /\ LET d == Least(Floor * 2^step, Cap)
       IN  \E jittered \in (4 * d) \div 5 .. (6 * d) \div 5 : wait' = jittered
    /\ step' = Least(step + 1, MaxStep)
    /\ UNCHANGED <<world, wake, restarts, failures, streak, skipGraceFor, graceLeft, probeIn,
                   bounds, spent>>

\* refundBudget: the slot claimed last is given back, if a reset left any.
RefundBudget == restarts' = SubSeq(restarts, 1, Most(Len(restarts), 1) - 1)

StandDown == Leave /\ RefundBudget

\* The head of the backoff's loop: it is over, or cut short by a deploy that
\* has ended since the failure was found and left the instance current.
Pace ==
    /\ pc = "pacing"
    /\ IF overtaken \/ wait = 0
       THEN GoTo("trylock") /\ wait' = 0 /\ UNCHANGED <<graceLeft, probeIn>>
       ELSE GoTo("backoff") /\ UNCHANGED timers
    /\ UNCHANGED <<world, wake, book, bounds, spent>>

BackoffEnds ==
    /\ pc = "backoff" /\ wait = 0 /\ GoTo("pacing")
    /\ UNCHANGED <<world, wake, book, timers, bounds, spent>>

\* A poke during the backoff: the restart is off, or waits on.
WakeInBackoff ==
    /\ pc = "backoff" /\ poked /\ poked' = FALSE
    /\ \/ (current # inst \/ ~on) /\ StandDown
       \/ current = inst /\ on /\ GoTo("pacing") /\ UNCHANGED <<restarts, timers>>
    /\ UNCHANGED <<world, owed, step, failures, streak, skipGraceFor, bounds, spent>>

\* deployMu.TryLock, and the wait for its holder's poke.
TryLock ==
    /\ pc = "trylock"
    /\ \/ lock = "free" /\ lock' = "watchdog" /\ GoTo("act")
       \/ lock # "free" /\ GoTo("lockwait") /\ UNCHANGED lock
    /\ UNCHANGED <<on, current, alive, stage, wake, book, timers, bounds, spent>>

WakeInLockWait ==
    /\ pc = "lockwait" /\ poked /\ poked' = FALSE
    /\ \/ (current # inst \/ ~on) /\ StandDown
       \/ current = inst /\ on /\ GoTo("trylock") /\ UNCHANGED <<restarts, timers>>
    /\ UNCHANGED <<world, owed, step, failures, streak, skipGraceFor, bounds, spent>>

\* The slot of the restart that begins: the last one, unless a deploy's reset
\* has taken it away.
OwnSlot == SubSeq(restarts, Most(Len(restarts), 1), Len(restarts))

\* Mutant: whose instance it is now is not looked at again under the lock.
ActOnTheVerdict ==
    /\ pc = "act" /\ on /\ GoTo("launch")
    /\ spent' = spent \o OwnSlot /\ alive' = alive \ {current}
    /\ UNCHANGED <<on, current, stage, lock, wake, book, timers, bounds>>

\* Under the lock everything is looked at again. The restart is off when the
\* instance was replaced or the watchdog switched off; when a live instance
\* answers a fresh probe, or a pre_start holds every launch; and when its
\* stop cannot be confirmed, which skips its next grace. Else it is stopped.
Act ==
    /\ pc = "act"
    /\ \/ /\ current # inst \/ ~on \/ inst \in alive
          /\ StandDown /\ lock' = "free" /\ UNCHANGED <<alive, skipGraceFor, spent>>
       \/ /\ current = inst /\ on /\ inst \in alive
          /\ StandDown /\ lock' = "free" /\ skipGraceFor' = inst /\ UNCHANGED <<alive, spent>>
       \/ /\ current = inst /\ on /\ GoTo("launch")
          /\ spent' = spent \o OwnSlot /\ alive' = alive \ {inst}
          /\ UNCHANGED <<restarts, lock, skipGraceFor, timers>>
    /\ UNCHANGED <<on, current, stage, wake, step, failures, streak, bounds>>

\* Mutant: a launch that fails gives its slot back.
LaunchOrRefund ==
    /\ pc = "launch" /\ Leave /\ lock' = "free"
    /\ \/ \E i \in Instances :
             /\ Fresh(i) /\ current' = i /\ alive' = alive \cup {i} /\ UNCHANGED restarts
       \/ current' = None /\ UNCHANGED <<alive, restarts>>
       \/ RefundBudget /\ UNCHANGED <<current, alive>>
    /\ UNCHANGED <<on, stage, wake, step, failures, streak, skipGraceFor, bounds, spent>>

\* launchVersion and publishInstance; or the pre-flight refuses the release
\* and the instance is dropped; or the launch fails, its slot spent.
Launch ==
    /\ pc = "launch" /\ Leave /\ lock' = "free"
    /\ \/ \E i \in Instances :
             Fresh(i) /\ current' = i /\ alive' = alive \cup {i}
       \/ current' = None /\ UNCHANGED alive
       \/ UNCHANGED <<current, alive>>
    /\ UNCHANGED <<on, stage, wake, book, bounds, spent>>

Goroutine ==
    \/ Loop \/ Park \/ Watch \/ WakeInWatch \/ ExitInWatch \/ TickInWatch \/ Probe
    \/ ConsumeBudget \/ Throttled \/ NextBackoff \/ Pace \/ BackoffEnds \/ WakeInBackoff
    \/ TryLock \/ WakeInLockWait \/ Act \/ Launch

-----------------------------------------------------------------------------
(* The other holders of deployMu, and the pokes they send. *)

\* A deploy, or a recovery, takes the lock.
Hold(who) ==
    /\ lock = "free" /\ holds < MaxHolds /\ holds' = holds + 1
    /\ lock' = who /\ stage' = "running"
    /\ UNCHANGED <<on, current, alive, wake, book, pc, inst, timers, overtaken, reloads, spent>>

\* publishInstance: a recovery only where nothing is alive.
Publish ==
    /\ stage = "running" /\ stage' = "published"
    /\ lock = "recovery" => current \notin alive
    /\ \E i \in Instances : Fresh(i) /\ current' = i /\ alive' = alive \cup {i}
    /\ UNCHANGED <<on, lock, wake, book, pc, inst, timers, overtaken, bounds, spent>>

\* wd.reset, by a deploy only, and the poke that both send.
Reset ==
    /\ stage = "published" /\ stage' = "reset" /\ owed' = TRUE
    /\ IF lock = "deploy"
       THEN /\ restarts' = <<>> /\ step' = 0 /\ failures' = 0 /\ streak' = None
            /\ skipGraceFor' = None /\ spent' = <<>>
       ELSE UNCHANGED <<book, spent>>
    /\ UNCHANGED <<on, current, alive, lock, poked, pc, inst, timers, overtaken, bounds>>

\* The instance it replaced is stopped, or the stop cannot be confirmed.
StopOld ==
    /\ stage = "reset" /\ stage' = "done"
    /\ alive' \in {alive, alive \cap {current}}
    /\ UNCHANGED <<on, current, lock, wake, book, pc, inst, timers, overtaken, bounds, spent>>

\* Where handleFailure holds the count it read when it was entered.
Handling == {"budget", "throttled", "claimed", "pacing", "backoff", "trylock", "lockwait"}

\* endDeploy counts the deploy first, whatever it came to.
EndHold ==
    /\ stage \in {"running", "done"} /\ stage' = "ending"
    /\ overtaken' = (overtaken \/ (lock = "deploy" /\ pc \in Handling))
    /\ UNCHANGED <<on, current, alive, lock, wake, book, pc, inst, timers, bounds, spent>>

\* Mutant: the lock is let go of and nobody told.
UnlockQuietly ==
    /\ stage = "ending" /\ stage' = "none" /\ lock' = "free"
    /\ UNCHANGED <<on, current, alive, wake, book, pc, inst, timers, overtaken, bounds, spent>>

\* unlockDeploy: the lock first, then the poke.
UnlockDeploy ==
    /\ stage = "ending" /\ stage' = "none" /\ lock' = "free" /\ owed' = TRUE
    /\ UNCHANGED <<on, current, alive, poked, book, pc, inst, timers, overtaken, bounds, spent>>

\* pokeWatchdog: the channel holds one poke, which is enough.
Poke ==
    /\ owed /\ owed' = FALSE /\ poked' = TRUE
    /\ UNCHANGED <<world, book, pc, inst, timers, overtaken, bounds, spent>>

\* installSpec, restoreSpec: a reload switches the watchdog off or on.
Reload ==
    /\ reloads < MaxReloads /\ reloads' = reloads + 1 /\ on' = ~on /\ owed' = TRUE
    /\ UNCHANGED <<current, alive, lock, stage, poked, book, pc, inst, timers, overtaken, holds, spent>>

\* An app's process ends, and the runner sees it.
Exit ==
    /\ \E i \in alive : alive' = alive \ {i}
    /\ UNCHANGED <<on, current, lock, stage, wake, book, pc, inst, timers, overtaken, bounds, spent>>

Down(left) == Most(left, 1) - 1
Older(ages) == [k \in 1..Len(ages) |-> Least(ages[k] + 1, Window)]

Tick ==
    /\ restarts' = Older(restarts) /\ spent' = SelectSeq(Older(spent), InWindow)
    /\ streak' = IF streak = None THEN None ELSE Least(streak + 1, ResetAfter)
    /\ graceLeft' = Down(graceLeft) /\ probeIn' = Down(probeIn) /\ wait' = Down(wait)
    /\ UNCHANGED <<world, wake, step, failures, skipGraceFor, pc, inst, overtaken, bounds>>

HolderStep == Publish \/ Reset \/ StopOld \/ EndHold \/ UnlockDeploy

Next ==
    \/ Goroutine \/ HolderStep \/ Poke \/ Reload \/ Exit \/ Tick
    \/ \E who \in {"deploy", "recovery"} : Hold(who)

Spec == Init /\ [][Next]_vars

-----------------------------------------------------------------------------
(* What the watchdog promises. *)

\* The variables hold values of their types.
TypeOK ==
    /\ on \in BOOLEAN /\ current \in Instances \cup {None} /\ alive \subseteq Instances
    /\ lock \in {"free", "deploy", "recovery", "watchdog"}
    /\ stage \in {"none", "running", "published", "reset", "done", "ending"}
    /\ poked \in BOOLEAN /\ owed \in BOOLEAN
    /\ restarts \in Seq(0..Window) /\ Len(restarts) <= Budget /\ spent \in Seq(0..Window)
    /\ step \in 0..MaxStep /\ failures \in 0..Failures
    /\ streak \in 0..ResetAfter \cup {None} /\ skipGraceFor \in Instances \cup {None}
    /\ pc \in {"loop", "parked", "watch", "select", "probe", "budget", "throttled", "claimed",
               "pacing", "backoff", "trylock", "lockwait", "act", "launch"}
    /\ inst \in Instances \cup {None} /\ overtaken \in BOOLEAN
    /\ graceLeft \in 0..Grace /\ probeIn \in 0..Interval /\ wait \in Nat
    /\ holds \in 0..MaxHolds /\ reloads \in 0..MaxReloads

\* At most Budget restarts are begun on slots claimed within one window since
\* a deploy's reset: no refund, recovery or reload makes room for one more
\* (consumeBudget, refundBudget). The reset itself does, by the one restart
\* that claimed its slot between the deploy's publish and its reset.
BudgetRespected == Len(SelectSeq(spent, InWindow)) <= Budget

\* The goroutine never waits for a poke nobody will send. Parked, there is
\* nothing to supervise; waiting for the lock, someone else has it; in the
\* backoff, no deploy has ended since the failure; unless a poke is there or
\* on its way, or the holder of the lock has one to send (unlockDeploy,
\* endDeploy, installSpec).
NoLostWakeup ==
    ~poked /\ ~owed =>
       /\ pc = "parked" => ~on \/ current = None \/ lock \in {"deploy", "recovery"}
       /\ pc = "lockwait" => lock \in {"deploy", "recovery"}
       /\ pc = "backoff" /\ overtaken => lock \in {"deploy", "recovery"}

\* A verdict never outlives its instance: a restart stops and replaces only
\* the instance it was reached on, while that one is still current.
OnlyItsInstance ==
    pc \in {"act", "launch"} /\ pc' # pc =>
       /\ alive \ alive' \subseteq {inst}
       /\ current' # current => current = inst
StaleVerdictHarmless == [][OnlyItsInstance]_vars

-----------------------------------------------------------------------------
(* Fairness: goroutines run, a deploy or a recovery that holds the lock      *)
(* ends (each of its steps has a deadline), and time passes.                 *)

Fairness ==
    WF_vars(Goroutine) /\ WF_vars(HolderStep) /\ WF_vars(Poke) /\ WF_vars(Tick)
FairSpec == Spec /\ Fairness

\* A dead current instance is launched again, or tried, or another has taken
\* its place, or the watchdog is switched off: no throttle, backoff, held
\* lock or missed poke is for ever.
DeadIsTriedAgain ==
    current # None /\ current \notin alive ~>
       pc = "launch" \/ current = None \/ current \in alive \/ ~on
=============================================================================
