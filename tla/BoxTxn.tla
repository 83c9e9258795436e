------------------------------- MODULE BoxTxn -------------------------------
(***************************************************************************)
(* The box's transaction (box/txn.go, apply.go, envfiles.go): root's       *)
(* applier takes the pushes the handler dropped, installs a commit's       *)
(* Caddyfile and env files, reloads motel, and rolls back what it cannot   *)
(* finish; `motel init` and `motel box baseline` enter it from a console.  *)
(* All of them run under root's lock, and begin by settling what a crash   *)
(* left.                                                                   *)
(*                                                                         *)
(* Every durable write and every reading of the files is a step of its     *)
(* own, so that a crash or a console edit can fall between any two.        *)
(***************************************************************************)
EXTENDS Naturals, FiniteSets

CONSTANTS
    Apps,        \* the apps, numbered in app-name order
    Bytes,       \* what a file can hold
    None,        \* no file
    Pushes,      \* request ids, and the commits they carry in history order
    Head,        \* Head[p][f]: file f in push p's commit
    Uses,        \* Uses[b]: the apps whose env file a Caddyfile b names
    Plain,       \* the Caddyfile of a box before its init
    Faults,      \* which writes and reads may fail: see FaultKinds
    MaxPosts,    \* bound on the pushes dropped
    MaxFaults,   \* bound on the failures
    MaxStops,    \* bound on the crashes
    MaxConsole   \* bound on the console's edits and commands

\* "lost": a write fails before its rename; "unsynced": after it, the bytes
\* visible and the error returned; "read": a file or motel's state cannot be
\* read.
FaultKinds == {"lost", "unsynced", "read"}

Caddyfile == 0
Files == {Caddyfile} \cup Apps
Disks == [Files -> Bytes \cup {None}]

ASSUME FilesAssumption ==
    /\ Apps \subseteq Nat \ {0} /\ Pushes \subseteq Nat \ {0}
    /\ None \notin Bytes /\ Plain \in Bytes

\* A commit's Caddyfile names only env files the commit has (secretsFit).
ASSUME HeadAssumption ==
    /\ Head \in [Pushes -> Disks] /\ Uses \in [Bytes -> SUBSET Apps]
    /\ \A p \in Pushes :
          /\ Head[p][Caddyfile] # None
          /\ \A a \in Uses[Head[p][Caddyfile]] : Head[p][a] # None

ASSUME BoundsAssumption ==
    /\ Faults \subseteq FaultKinds
    /\ {MaxPosts, MaxFaults, MaxStops, MaxConsole} \subseteq Nat

VARIABLES
    etc,         \* disk: the Caddyfile and the env files
    rec,         \* disk: txn.json
    applied,     \* disk: applied.json, the baseline
    out,         \* disk: out/<id>.json, by id
    inbox,       \* disk: in/
    work,        \* disk: work/
    markers,     \* disk: stage/<id>.auth
    loaded,      \* the Caddyfile motel runs; None when it is not running
    dropping,    \* the push the handler has dropped and not yet marked
    posted,      \* pushes dropped so far
    pc,          \* where root is; "idle" when the lock is free
    run,         \* who holds root's lock
    stage,       \* which part of the run the transaction belongs to
    t,           \* the transaction
    fate,        \* the phase it is to end at
    todo,        \* files yet to write
    dirty,       \* a file's bytes have changed
    queue,       \* entries listed and not yet looked at
    taken,       \* bundles taken and not yet processed
    ended,       \* pushes this run has ended
    faults, stops, console,   \* failures, crashes and console acts so far
    fresh,       \* history: files a console edited since root began to write
    touched      \* history: a console has edited a file, or installed one

disk == <<rec, applied, out, inbox, work, markers>>
drop == <<dropping, posted>>
job == <<run, stage, t, fate, todo, dirty, queue, taken, ended>>
bounds == <<faults, stops, console>>
history == <<fresh, touched>>
vars == <<etc, disk, loaded, drop, pc, job, bounds, history>>

Terminal == {"refused", "failed", "no_change", "applied", "rolled_back", "unknown"}
Phases == {"no_change", "installing", "swapped", "applied", "rolling_back"}
\* The id of an init's transaction, which is no push.
Console == 0
Ids == Pushes \cup {Console}
Txns == [id : Ids, commit : Pushes, prev : Disks, new : Disks,
         set : SUBSET Files, secrets : [Apps -> Bytes \cup {None}]]
Baselines == [commit : Pushes, secrets : [Apps -> Bytes \cup {None}]]

NoSecrets == [a \in Apps |-> None]
Secrets(p) == [a \in Apps |-> Head[p][a]]

\* A box before its init, or one that runs a commit.
Init ==
    /\ \/ /\ applied = None
          /\ etc = [f \in Files |-> IF f = Caddyfile THEN Plain ELSE None]
       \/ \E p \in Pushes : etc = Head[p] /\ applied = [commit |-> p, secrets |-> Secrets(p)]
    /\ rec = None /\ out = [p \in Pushes |-> None]
    /\ inbox = {} /\ work = {} /\ markers = {} /\ loaded = etc[Caddyfile]
    /\ dropping = None /\ posted = {}
    /\ pc = "idle" /\ run = "nobody" /\ stage = "run" /\ t = None /\ fate = None
    /\ todo = {} /\ dirty = FALSE /\ queue = {} /\ taken = {} /\ ended = {}
    /\ faults = 0 /\ stops = 0 /\ console = 0 /\ fresh = {} /\ touched = FALSE

-----------------------------------------------------------------------------
(* Steps in general. *)

Go(step) == pc' = step /\ UNCHANGED job

\* finish, which writes the result, then drops the record and the entry.
End(phase) ==
    /\ pc' = "result" /\ fate' = phase
    /\ UNCHANGED <<run, stage, t, todo, dirty, queue, taken, ended>>

\* finish before there is a record: transaction x ends in part s of the run.
Report(s, x, phase) ==
    /\ pc' = "report" /\ fate' = phase /\ stage' = s /\ t' = x
    /\ UNCHANGED <<run, todo, dirty, ended>>

\* The run is over, or cut short: nothing of it stays in memory.
LetGo ==
    /\ pc' = "idle" /\ run' = "nobody" /\ stage' = "run" /\ t' = None /\ fate' = None
    /\ todo' = {} /\ dirty' = FALSE /\ queue' = {} /\ taken' = {} /\ ended' = {}

Fail(kind) == kind \in Faults /\ faults < MaxFaults /\ faults' = faults + 1

\* writeDurable, removeDurable: the change is made and known durable; or it
\* is not made; or it is made and an error is returned.
Attempt(change, keep, then, otherwise) ==
    \/ change /\ then /\ UNCHANGED faults
    \/ Fail("lost") /\ keep /\ otherwise
    \/ Fail("unsynced") /\ change /\ otherwise

\* states: the Caddyfile and every file of the set is read, or the run stops
\* with everything as found (unsettled).
Look(decide) ==
    \/ decide /\ UNCHANGED faults
    \/ Fail("read") /\ LetGo /\ UNCHANGED fresh

AtPrev(x, fs) == \A f \in fs : etc[f] = x.prev[f]
AtNew(x, fs) == \A f \in fs : etc[f] = x.new[f]
Known(x, fs) == \A f \in fs : etc[f] \in {x.prev[f], x.new[f]}
All(x) == x.set \cup {Caddyfile}

\* Mutant: only what this run has journaled counts.
SettledByThisRun(p) == p \in ended

\* settled: a terminal result on disk, or one this run has journaled.
Settled(p) == p \in ended \/ out[p] \in Terminal

\* The transaction of a push nothing is known of but its id.
Bare(p) == [id |-> p, commit |-> p, prev |-> etc, new |-> etc, set |-> {},
            secrets |-> NoSecrets]

-----------------------------------------------------------------------------
(* The handler's drop (admission.go): the bundle, then its marker. *)

Post(p) ==
    /\ p \notin posted /\ Cardinality(posted) < MaxPosts
    /\ dropping = None /\ inbox = {}
    /\ inbox' = {p} /\ posted' = posted \cup {p} /\ dropping' = p
    /\ UNCHANGED <<etc, rec, applied, out, work, markers, loaded, pc, job, bounds, history>>

\* The marker is written, or cannot be, or motel stops first.
Mark ==
    /\ dropping # None /\ dropping' = None
    /\ \E written \in SUBSET {dropping} : markers' = markers \cup written
    /\ UNCHANGED <<etc, rec, applied, out, inbox, work, loaded, posted, pc, job, bounds, history>>

-----------------------------------------------------------------------------
(* A run begins: recoverAll. *)

\* The path unit starts the applier on what it finds in the exchange; a
\* console starts the others.
StartRun(who) ==
    /\ pc = "idle"
    /\ \/ /\ who = "applier" /\ (rec # None \/ work # {} \/ inbox # {})
          /\ UNCHANGED console
       \/ who # "applier" /\ console < MaxConsole /\ console' = console + 1
    /\ pc' = "recover" /\ run' = who
    /\ UNCHANGED <<etc, disk, loaded, drop, stage, t, fate, todo, dirty, queue, taken,
                   ended, faults, stops, history>>

\* Mutant: a record still at installing is taken to mean nothing was written.
InstallingIsUntouched(x, phase) ==
    IF phase = "no_change" /\ AtPrev(x, All(x)) THEN <<"advance", "no_change">>
    ELSE IF phase = "applied" /\ AtNew(x, All(x)) THEN <<"advance", "applied">>
    ELSE IF phase = "installing" THEN <<"result", "failed">>
    ELSE IF phase = "swapped" /\ Known(x, x.set) THEN <<"rec_rolling_back", None>>
    ELSE IF phase = "rolling_back" /\ Known(x, x.set) THEN <<"rolling_back", None>>
    ELSE <<"result", "unknown">>

\* Where a record's phase and the files as they stand lead (States table).
RecoverTo(x, phase) ==
    IF phase = "no_change" /\ AtPrev(x, All(x)) THEN <<"advance", "no_change">>
    ELSE IF phase = "applied" /\ AtNew(x, All(x)) THEN <<"advance", "applied">>
    ELSE IF phase = "installing" /\ AtPrev(x, x.set) THEN <<"result", "failed">>
    ELSE IF phase \in {"installing", "swapped"} /\ Known(x, x.set) THEN <<"rec_rolling_back", None>>
    ELSE IF phase = "rolling_back" /\ Known(x, x.set) THEN <<"rolling_back", None>>
    ELSE <<"result", "unknown">>

\* recoverRecord, up to the decision.
Recover ==
    /\ pc = "recover"
    /\ \/ /\ rec = None
          /\ pc' = "leftovers" /\ queue' = work
          /\ UNCHANGED <<stage, t, fate, run, todo, dirty, taken, ended, faults>>
       \/ /\ rec # None
          /\ stage' = "recover" /\ t' = rec.txn
          /\ \/ /\ rec.txn.id # Console /\ Settled(rec.txn.id)
                /\ pc' = "unrecord" /\ UNCHANGED fate
             \/ /\ rec.txn.id # Console => ~Settled(rec.txn.id)
                /\ pc' = RecoverTo(rec.txn, rec.phase)[1]
                /\ fate' = RecoverTo(rec.txn, rec.phase)[2]
          /\ UNCHANGED <<run, todo, dirty, queue, taken, ended, faults>>
       \/ rec # None /\ Fail("read") /\ LetGo
    /\ UNCHANGED <<etc, disk, loaded, drop, stops, console, history>>

\* Mutant: the entry of a push that has ended is left where it is.
LeftoversOfOpenPushes ==
    /\ pc = "leftovers"
    /\ \/ /\ queue \subseteq {p \in Pushes : Settled(p)}
          /\ pc' = IF run = "applier" THEN "take" ELSE run
          /\ queue' = IF run = "applier" THEN inbox ELSE {}
          /\ UNCHANGED <<run, stage, t, fate, todo, dirty, taken, ended>>
       \/ \E p \in queue :
             /\ queue' = queue \ {p} /\ UNCHANGED taken
             /\ ~Settled(p) /\ Report("leftovers", Bare(p), "failed")
    /\ UNCHANGED <<etc, disk, loaded, drop, bounds, history>>

\* Every work/ entry with no record behind it: its push ended, or nothing of
\* it changed and it ends failed.
Leftovers ==
    /\ pc = "leftovers"
    /\ \/ /\ queue = {}
          /\ pc' = IF run = "applier" THEN "take" ELSE run
          /\ queue' = IF run = "applier" THEN inbox ELSE {}
          /\ UNCHANGED <<run, stage, t, fate, todo, dirty, taken, ended>>
       \/ \E p \in queue :
             /\ queue' = queue \ {p} /\ UNCHANGED taken
             /\ \/ ~Settled(p) /\ Report("leftovers", Bare(p), "failed")
                \/ /\ Settled(p) /\ pc' = "unentry" /\ stage' = "leftovers" /\ t' = Bare(p)
                   /\ UNCHANGED <<run, fate, todo, dirty, ended>>
    /\ UNCHANGED <<etc, disk, loaded, drop, bounds, history>>

\* take: every entry listed in in/ goes to work/, or where that fails ends
\* failed; one whose push has ended is removed.
Take ==
    /\ pc = "take"
    /\ \/ /\ queue = {} /\ Go("process") /\ UNCHANGED <<inbox, work, faults>>
       \/ \E p \in queue :
             /\ queue' = queue \ {p}
             /\ \/ /\ inbox' = inbox \ {p} /\ work' = work \cup {p} /\ UNCHANGED faults
                   /\ \/ /\ ~Settled(p) /\ taken' = taken \cup {p}
                         /\ UNCHANGED <<pc, run, stage, t, fate, todo, dirty, ended>>
                      \/ /\ Settled(p) /\ pc' = "unentry" /\ stage' = "take" /\ t' = Bare(p)
                         /\ UNCHANGED <<run, fate, todo, dirty, taken, ended>>
                \/ /\ Fail("lost") /\ UNCHANGED <<inbox, work, taken>>
                   /\ \/ ~Settled(p) /\ Report("untaken", Bare(p), "failed")
                      \/ /\ Settled(p) /\ pc' = "unentry" /\ stage' = "untaken" /\ t' = Bare(p)
                         /\ UNCHANGED <<run, fate, todo, dirty, ended>>
    /\ UNCHANGED <<etc, rec, applied, out, markers, loaded, drop, stops, console, history>>

-----------------------------------------------------------------------------
(* A bundle's checks, and the console commands. *)

\* planSecrets: an env file is in the set when the commit has it and it does
\* not stand as the commit says (its bytes, or for those in modes its owner
\* or mode), and when the commit has dropped one the baseline lists. The
\* Caddyfile is in the set when its bytes change.
Plan(p, modes) ==
    LET inSet(f) ==
          \/ f = Caddyfile /\ etc[f] # Head[p][f]
          \/ f # Caddyfile /\ Head[p][f] # None /\ (etc[f] # Head[p][f] \/ f \in modes)
          \/ /\ f # Caddyfile /\ Head[p][f] = None /\ etc[f] # None
             /\ applied.secrets[f] # None
    IN  [id |-> p, commit |-> p, prev |-> etc,
         new |-> [f \in Files |-> IF inSet(f) THEN Head[p][f] ELSE etc[f]],
         set |-> {f \in Files : inSet(f)}, secrets |-> Secrets(p)]

\* process, up to the question whether motel is active: a bundle that cannot
\* be read, or on a box with no baseline, fails; one whose commit does not
\* descend from the baseline, or that any other check turns down, is refused.
Process ==
    /\ pc = "process"
    /\ \/ /\ taken = {} /\ Go("end") /\ UNCHANGED faults
       \/ \E p \in taken :
             /\ taken' = taken \ {p} /\ UNCHANGED queue
             /\ \/ Fail("read") /\ Report("process", Bare(p), "failed")
                \/ /\ applied = None /\ Report("process", Bare(p), "failed") /\ UNCHANGED faults
                \/ /\ applied # None /\ Report("process", Bare(p), "refused") /\ UNCHANGED faults
                \/ /\ applied # None /\ p >= applied.commit
                   /\ \E modes \in SUBSET {a \in Apps : etc[a] = Head[p][a]} : t' = Plan(p, modes)
                   /\ pc' = "active" /\ stage' = "process"
                   /\ UNCHANGED <<run, fate, todo, dirty, ended, faults>>
    /\ UNCHANGED <<etc, disk, loaded, drop, stops, console, history>>

\* Step 16: a push needs motel active.
Active ==
    /\ pc = "active"
    /\ \/ /\ loaded # None
          /\ Go(IF t.set = {} THEN "rec_no_change" ELSE "verified") /\ UNCHANGED faults
       \/ /\ loaded = None
          /\ Report("process", t, "refused") /\ UNCHANGED <<queue, taken, faults>>
       \/ Fail("read") /\ Report("process", t, "failed") /\ UNCHANGED <<queue, taken>>
    /\ UNCHANGED <<etc, disk, loaded, drop, stops, console, history>>

\* runInit: the Caddyfile of some commit alone, on a motel that is up; the
\* env files the baseline lists are kept.
RunInit ==
    /\ pc = "init"
    /\ \/ loaded = None /\ LetGo /\ UNCHANGED <<faults, touched>>
       \/ Fail("read") /\ LetGo /\ UNCHANGED touched
       \/ \E p \in Pushes :
             /\ loaded # None
             /\ t' = [id |-> Console, commit |-> p, prev |-> etc,
                      new |-> [etc EXCEPT ![Caddyfile] = Head[p][Caddyfile]],
                      set |-> IF etc[Caddyfile] = Head[p][Caddyfile] THEN {} ELSE {Caddyfile},
                      secrets |-> IF applied = None THEN NoSecrets ELSE applied.secrets]
             /\ pc' = IF t'.set = {} THEN "rec_no_change" ELSE "rec_installing"
             /\ stage' = "init" /\ touched' = TRUE
             /\ UNCHANGED <<run, fate, todo, dirty, queue, taken, ended, faults>>
    /\ UNCHANGED <<etc, disk, loaded, drop, stops, console, fresh>>

\* runBaseline: one write of the baseline's commit.
RunBaseline ==
    /\ pc = "baseline" /\ LetGo /\ touched' = TRUE
    /\ \/ applied = None /\ UNCHANGED <<applied, faults>>
       \/ \E p \in Pushes :
             /\ applied # None
             /\ Attempt(applied' = [applied EXCEPT !.commit = p], UNCHANGED applied, TRUE, TRUE)
    /\ UNCHANGED <<etc, rec, out, inbox, work, markers, loaded, drop, stops, console, fresh>>

-----------------------------------------------------------------------------
(* The transaction: install. *)

\* writeRecord: the record says phase, and the transaction goes on, or does
\* not and goes elsewhere.
Record(phase, then, otherwise) ==
    /\ Attempt(rec' = [phase |-> phase, txn |-> t], UNCHANGED rec, then, otherwise)
    /\ UNCHANGED <<etc, applied, out, inbox, work, markers, loaded, drop, stops, console, history>>

RecordNoChange ==
    /\ pc = "rec_no_change"
    /\ Record("no_change",
              /\ pc' = "advance" /\ fate' = "no_change"
              /\ UNCHANGED <<run, stage, t, todo, dirty, queue, taken, ended>>,
              End("failed"))

\* The result verified; where it cannot be written the push ends failed.
Verified ==
    /\ pc = "verified"
    /\ Attempt(out' = [out EXCEPT ![t.id] = "verified"], UNCHANGED out,
               Go("rec_installing"),
               Report("unverified", t, "failed") /\ UNCHANGED <<queue, taken>>)
    /\ UNCHANGED <<etc, rec, applied, inbox, work, markers, loaded, drop, stops, console, history>>

\* Mutant: the install goes on although its record could not be written.
InstallUnrecorded ==
    pc = "rec_installing" /\ Record("installing", Go("compare"), Go("compare"))

RecordInstalling ==
    pc = "rec_installing" /\ Record("installing", Go("compare"), End("failed"))

\* Mutant: the files are not read again before they are written.
CompareSkipped ==
    /\ pc = "compare" /\ UNCHANGED faults
    /\ pc' = "swap" /\ todo' = t.set /\ dirty' = FALSE /\ fresh' = {}
    /\ UNCHANGED <<run, stage, t, fate, queue, taken, ended>>
    /\ UNCHANGED <<etc, disk, loaded, drop, stops, console, touched>>

\* Every file must still be what the checks read. A reading that fails here
\* ends the push: nothing has changed.
Compare ==
    /\ pc = "compare"
    /\ \/ /\ AtPrev(t, All(t)) /\ UNCHANGED faults
          /\ pc' = "swap" /\ todo' = t.set /\ dirty' = FALSE /\ fresh' = {}
          /\ UNCHANGED <<run, stage, t, fate, queue, taken, ended>>
       \/ ~AtPrev(t, All(t)) /\ End("unknown") /\ UNCHANGED <<faults, fresh>>
       \/ Fail("read") /\ End("failed") /\ UNCHANGED fresh
    /\ UNCHANGED <<etc, disk, loaded, drop, stops, console, touched>>

\* Mutant: the Caddyfile goes first.
CaddyfileFirst(goal, f) == IF f = Caddyfile THEN 0 ELSE IF goal[f] = None THEN 3 ELSE 1

\* The file to write next: the env files that get bytes in app order, then
\* the Caddyfile, then the env files that go.
Turn(goal, f) == IF f = Caddyfile THEN 2 ELSE IF goal[f] = None THEN 3 ELSE 1
First(goal) ==
    CHOOSE f \in todo : \A g \in todo :
        \/ Turn(goal, f) < Turn(goal, g)
        \/ Turn(goal, f) = Turn(goal, g) /\ f <= g

Swap ==
    /\ pc = "swap"
    /\ \/ todo = {} /\ Go("rec_swapped") /\ UNCHANGED <<etc, faults>>
       \/ /\ todo # {}
          /\ LET f == First(t.new)
             IN  Attempt(etc' = [etc EXCEPT ![f] = t.new[f]], UNCHANGED etc,
                         /\ todo' = todo \ {f}
                         /\ dirty' = (dirty \/ t.prev[f] # t.new[f])
                         /\ UNCHANGED <<pc, run, stage, t, fate, queue, taken, ended>>,
                         Go(IF dirty THEN "rec_rolling_back" ELSE "swap_failed"))
    /\ UNCHANGED <<disk, loaded, drop, stops, console, history>>

\* Mutant: a failed write is taken not to have landed.
SwapFailedUnread ==
    /\ pc = "swap_failed" /\ End("failed") /\ UNCHANGED faults
    /\ UNCHANGED <<etc, disk, loaded, drop, stops, console, history>>

\* swapFailed before any bytes have changed: what stands there decides.
SwapFailed ==
    /\ pc = "swap_failed"
    /\ LET f == First(t.new)
       IN  \/ /\ UNCHANGED faults
              /\ \/ etc[f] = t.prev[f] /\ End("failed")
                 \/ etc[f] = t.new[f] /\ etc[f] # t.prev[f] /\ Go("rec_rolling_back")
                 \/ etc[f] \notin {t.prev[f], t.new[f]} /\ End("unknown")
           \/ Fail("read") /\ LetGo
    /\ UNCHANGED <<etc, disk, loaded, drop, stops, console, history>>

\* Mutant: the record says applied before the reload.
RecordSwappedAsApplied ==
    pc = "rec_swapped" /\ Record("applied", Go("reload"), Go("rec_rolling_back"))

RecordSwapped ==
    pc = "rec_swapped" /\ Record("swapped", Go("reload"), Go("rec_rolling_back"))

\* Mutant: a reload that failed passes for one that worked.
ReloadUnasked ==
    /\ pc = "reload" /\ Go("reread")
    /\ loaded' = loaded \/ (loaded # None /\ loaded' = etc[Caddyfile])
    /\ UNCHANGED <<etc, disk, drop, bounds, history>>

\* systemctl reload: motel runs the file on disk; or it fails, and whether
\* the file was loaded first cannot be told. No reload without a Caddyfile.
Reload ==
    /\ pc = "reload"
    /\ \/ Caddyfile \notin t.set /\ Go("reread") /\ UNCHANGED loaded
       \/ Caddyfile \in t.set /\ loaded # None /\ Go("reread") /\ loaded' = etc[Caddyfile]
       \/ /\ Caddyfile \in t.set /\ Go("rec_rolling_back")
          /\ loaded' = loaded \/ (loaded # None /\ loaded' = etc[Caddyfile])
    /\ UNCHANGED <<etc, disk, drop, bounds, history>>

\* "applied" means these bytes.
Reread ==
    /\ pc = "reread"
    /\ Look(\/ AtNew(t, All(t)) /\ Go("rec_applied")
            \/ ~AtNew(t, All(t)) /\ End("unknown"))
    /\ UNCHANGED <<etc, disk, loaded, drop, stops, console, history>>

RecordApplied ==
    /\ pc = "rec_applied"
    /\ Record("applied",
              /\ pc' = "advance" /\ fate' = "applied"
              /\ UNCHANGED <<run, stage, t, todo, dirty, queue, taken, ended>>,
              Go("rec_rolling_back"))

\* advance: the files are read once more, for a push every env file the
\* baseline will list, before the baseline is written.
Stands(x) ==
    /\ AtNew(x, All(x))
    /\ x.id # Console => \A a \in Apps : x.secrets[a] # None => etc[a] = x.secrets[a]

Advance ==
    /\ pc = "advance"
    /\ Look(\/ Stands(t) /\ Go("write_applied")
            \/ ~Stands(t) /\ End("unknown"))
    /\ UNCHANGED <<etc, disk, loaded, drop, stops, console, history>>

WriteApplied ==
    /\ pc = "write_applied"
    /\ Attempt(applied' = [commit |-> t.commit, secrets |-> t.secrets], UNCHANGED applied,
               Go("result"), End("unknown"))
    /\ UNCHANGED <<etc, rec, out, inbox, work, markers, loaded, drop, stops, console, history>>

-----------------------------------------------------------------------------
(* Rolling back. *)

\* The record says rolling_back if it can.
RecordRollingBack ==
    /\ pc = "rec_rolling_back"
    /\ Record("rolling_back", Go("rolling_back"), Go("rolling_back"))

RollingBack ==
    /\ pc = "rolling_back"
    /\ Look(\/ /\ Known(t, t.set)
               /\ pc' = "restore" /\ todo' = {f \in t.set : etc[f] # t.prev[f]} /\ fresh' = {}
               /\ UNCHANGED <<run, stage, t, fate, dirty, queue, taken, ended>>
            \/ ~Known(t, t.set) /\ End("unknown") /\ UNCHANGED fresh)
    /\ UNCHANGED <<etc, disk, loaded, drop, stops, console, touched>>

\* restore, restoreEnv: a write that landed counts. One that did not, on the
\* retry either, leaves record and entry for the next run (fullDisk), unless
\* a console has put something else at an env file's name.
Restore ==
    /\ pc = "restore"
    /\ \/ /\ todo = {} /\ UNCHANGED <<etc, faults>>
          /\ \/ Caddyfile \in t.set /\ Go("reload_prev")
             \/ Caddyfile \notin t.set /\ End("rolled_back")
       \/ /\ todo # {}
          /\ LET f == First(t.prev)
             IN  \/ /\ etc' = [etc EXCEPT ![f] = t.prev[f]]
                    /\ pc' = pc /\ todo' = todo \ {f} /\ UNCHANGED faults
                    /\ UNCHANGED <<run, stage, t, fate, dirty, queue, taken, ended>>
                 \/ /\ Fail("lost") /\ UNCHANGED etc
                    /\ \/ f # Caddyfile /\ etc[f] \notin {t.prev[f], t.new[f]} /\ End("unknown")
                       \/ (f = Caddyfile \/ etc[f] \in {t.prev[f], t.new[f]}) /\ LetGo
    /\ UNCHANGED <<disk, loaded, drop, stops, console, history>>

\* The previous Caddyfile is loaded again; in recovery, if motel is up.
ReloadPrev ==
    /\ pc = "reload_prev"
    /\ \/ stage = "recover" /\ loaded = None /\ End("failed") /\ UNCHANGED <<loaded, faults>>
       \/ stage = "recover" /\ Fail("read") /\ LetGo /\ UNCHANGED loaded
       \/ loaded # None /\ End("rolled_back") /\ loaded' = etc[Caddyfile] /\ UNCHANGED faults
       \/ /\ stage = "recover" => loaded # None
          /\ End("unknown") /\ UNCHANGED faults
          /\ loaded' = loaded \/ (loaded # None /\ loaded' = etc[Caddyfile])
    /\ UNCHANGED <<etc, disk, drop, stops, console, history>>

-----------------------------------------------------------------------------
(* finish: the result, then the record, then the entry. *)

\* A push gets its result file; init's outcome is only journaled. A result
\* that cannot be written is journaled, and the push has ended all the same.
WriteResult(next, otherwise) ==
    /\ ended' = ended \cup {t.id} /\ UNCHANGED <<run, stage, t, fate, todo, dirty, queue, taken>>
    /\ Attempt(out' = [out EXCEPT ![t.id] = fate], UNCHANGED out, pc' = next, pc' = otherwise)
    /\ UNCHANGED <<etc, rec, applied, inbox, work, markers, loaded, drop, stops, console, history>>

\* Mutant: init's outcome is kept with those of the pushes.
ResultOfInitKept ==
    /\ pc = "result"
    /\ \/ t.id # Console /\ WriteResult("unrecord", "unrecord")
       \/ /\ t.id = Console /\ pc' = "unrecord" /\ ended' = ended \cup {t.id}
          /\ UNCHANGED <<run, stage, t, fate, todo, dirty, queue, taken>>
          /\ UNCHANGED <<etc, disk, loaded, drop, bounds, history>>

Result ==
    /\ pc = "result"
    /\ \/ t.id # Console /\ WriteResult("unrecord", "unrecord")
       \/ /\ t.id = Console /\ Go("unrecord")
          /\ UNCHANGED <<etc, disk, loaded, drop, bounds, history>>

ReportResult ==
    pc = "report" /\ WriteResult("unentry", IF stage = "unverified" THEN "unverify" ELSE "unentry")

\* removeRecord.
Unrecord ==
    /\ pc = "unrecord"
    /\ Attempt(rec' = None, UNCHANGED rec, TRUE, TRUE)
    /\ \/ t.id # Console /\ Go("unentry")
       \/ /\ t.id = Console /\ stage = "recover"
          /\ pc' = "leftovers" /\ queue' = work
          /\ UNCHANGED <<run, stage, t, fate, todo, dirty, taken, ended>>
       \/ t.id = Console /\ stage # "recover" /\ LetGo
    /\ UNCHANGED <<etc, applied, out, inbox, work, markers, loaded, drop, stops, console, history>>

\* removeEntry, from in/ where the take failed.
Unentry ==
    /\ pc = "unentry"
    /\ \/ /\ stage = "untaken" /\ UNCHANGED work
          /\ Attempt(inbox' = inbox \ {t.id}, UNCHANGED inbox, TRUE, TRUE)
       \/ /\ stage # "untaken" /\ UNCHANGED inbox
          /\ Attempt(work' = work \ {t.id}, UNCHANGED work, TRUE, TRUE)
    /\ pc' = CASE stage = "recover" -> "leftovers"
               [] stage = "leftovers" -> "unverify"
               [] stage \in {"take", "untaken"} -> "take"
               [] stage \in {"process", "unverified"} -> "process"
    /\ queue' = IF stage = "recover" THEN work' ELSE queue
    /\ UNCHANGED <<run, stage, t, fate, todo, dirty, taken, ended, etc, rec, applied, out,
                   markers, loaded, drop, stops, console, history>>

\* removeVerified: no verified stays behind a push that has ended.
Unverify ==
    /\ pc = "unverify"
    /\ \/ /\ out[t.id] = "verified"
          /\ Attempt(out' = [out EXCEPT ![t.id] = None], UNCHANGED out, TRUE, TRUE)
       \/ out[t.id] # "verified" /\ UNCHANGED <<out, faults>>
    /\ Go(IF stage = "unverified" THEN "unentry" ELSE "leftovers")
    /\ UNCHANGED <<etc, rec, applied, inbox, work, markers, loaded, drop, stops, console, history>>

\* sweep (retention.go) ends the run: a marker nothing answers for gets its
\* failed once it is old, and what is older goes.
Stranded(p) ==
    /\ p \in markers /\ out[p] = None /\ p \notin ended \cup inbox \cup work
    /\ rec # None => rec.txn.id # p

EndRun ==
    /\ pc = "end" /\ LetGo
    /\ \E aged \in SUBSET {p \in Pushes : Stranded(p)},
          gone \in SUBSET {p \in Pushes \ ended : out[p] # None \/ Stranded(p)} :
          /\ out' = [p \in Pushes |-> IF p \in gone THEN None
                                      ELSE IF p \in aged THEN "failed" ELSE out[p]]
          /\ markers' = markers \ gone
    /\ UNCHANGED <<etc, rec, applied, inbox, work, loaded, drop, bounds, history>>

-----------------------------------------------------------------------------
(* The world. *)

\* A kill or a power loss: what was written stays.
Crash ==
    /\ pc # "idle" /\ stops < MaxStops /\ stops' = stops + 1 /\ LetGo
    /\ UNCHANGED <<etc, disk, loaded, drop, faults, console, history>>

ConsoleEdit ==
    /\ console < MaxConsole /\ console' = console + 1
    /\ \E f \in Files, b \in Bytes \cup {None} :
          /\ f = Caddyfile => b # None
          /\ b # etc[f] /\ etc' = [etc EXCEPT ![f] = b]
          /\ fresh' = IF pc \in {"swap", "restore"} THEN fresh \cup {f} ELSE fresh
    /\ touched' = TRUE
    /\ UNCHANGED <<disk, loaded, drop, pc, job, faults, stops>>

MotelStops ==
    /\ loaded # None /\ loaded' = None
    /\ UNCHANGED <<etc, disk, drop, pc, job, bounds, history>>

MotelStarts ==
    /\ loaded = None /\ loaded' = etc[Caddyfile]
    /\ UNCHANGED <<etc, disk, drop, pc, job, bounds, history>>

RootStep ==
    \/ Recover \/ Leftovers \/ Take \/ Process \/ Active \/ RunInit \/ RunBaseline
    \/ RecordNoChange \/ Verified \/ RecordInstalling \/ Compare \/ Swap \/ SwapFailed
    \/ RecordSwapped \/ Reload \/ Reread \/ RecordApplied \/ Advance \/ WriteApplied
    \/ RecordRollingBack \/ RollingBack \/ Restore \/ ReloadPrev \/ Result \/ ReportResult
    \/ Unrecord \/ Unentry \/ Unverify \/ EndRun

Next ==
    \/ \E p \in Pushes : Post(p)
    \/ Mark
    \/ \E who \in {"applier", "init", "baseline"} : StartRun(who)
    \/ RootStep \/ Crash \/ ConsoleEdit \/ MotelStops \/ MotelStarts

Spec == Init /\ [][Next]_vars

-----------------------------------------------------------------------------
(* What the box is promised (DESIGN-box.md, I1 to I5). *)

RootSteps ==
    {"recover", "leftovers", "take", "process", "active", "init", "baseline",
     "rec_no_change", "verified", "rec_installing", "compare", "swap", "swap_failed",
     "rec_swapped", "reload", "reread", "rec_applied", "advance", "write_applied",
     "rec_rolling_back", "rolling_back", "restore", "reload_prev", "result", "report",
     "unrecord", "unentry", "unverify", "end"}

\* The variables hold values of their types.
TypeOK ==
    /\ etc \in Disks /\ etc[Caddyfile] # None
    /\ rec \in [phase : Phases, txn : Txns] \cup {None}
    /\ applied \in Baselines \cup {None}
    /\ out \in [Pushes -> Terminal \cup {"verified", None}]
    /\ inbox \subseteq Pushes /\ work \subseteq Pushes /\ markers \subseteq Pushes
    /\ loaded \in Bytes \cup {None}
    /\ dropping \in Pushes \cup {None} /\ posted \subseteq Pushes
    /\ pc \in RootSteps \cup {"idle"}
    /\ run \in {"nobody", "applier", "init", "baseline"}
    /\ stage \in {"run", "recover", "leftovers", "take", "untaken", "process", "unverified", "init"}
    /\ t \in Txns \cup {None} /\ fate \in Terminal \cup {None}
    /\ todo \subseteq Files /\ dirty \in BOOLEAN
    /\ queue \subseteq Pushes /\ taken \subseteq Pushes /\ ended \subseteq Pushes
    /\ faults \in 0..MaxFaults /\ stops \in 0..MaxStops /\ console \in 0..MaxConsole
    /\ fresh \subseteq Files /\ touched \in BOOLEAN

\* Root's own writes to the files, as opposed to a console's.
RootWrites(f) == etc'[f] # etc[f] /\ console' = console

\* I1: root never overwrites bytes it has not read. A console's edit is left
\* alone, wherever it falls, unless it falls between the reading a round of
\* writes begins with and its file's own write (install, rollingBack).
ConsoleEditsKept ==
    [][\A f \in Files : RootWrites(f) =>
          etc[f] \in {t.prev[f], t.new[f]} \/ f \in fresh]_vars

\* I5: no byte changes before the record that can put it back is on disk.
RecordBeforeBytes ==
    [][\A f \in Files : RootWrites(f) =>
          /\ rec # None /\ rec.txn = t
          /\ etc'[f] \in {rec.txn.prev[f], rec.txn.new[f]}]_vars

\* A push that has its terminal result keeps it: no crash, retry or second
\* run gives it another. (Retention may forget it.)
OneTerminalResult ==
    [][\A p \in Pushes : out[p] \in Terminal => out'[p] \in {out[p], None}]_vars

\* The files are commit p's: those it has, and none it has not, but for env
\* files the baseline does not list (left by a push whose baseline could not
\* be written), which are not the box's to remove.
Installed(p) ==
    \A f \in Files :
        \/ etc[f] = Head[p][f]
        \/ f # Caddyfile /\ Head[p][f] = None /\ applied.secrets[f] = None

\* Whatever crashes and failures there were, with no record on disk the files
\* are one commit's, whole, and the baseline is not ahead of them.
WholeCommit ==
    rec = None /\ ~touched =>
       IF applied = None
       THEN etc = [f \in Files |-> IF f = Caddyfile THEN Plain ELSE None]
       ELSE \E p \in Pushes : p >= applied.commit /\ Installed(p)

\* A result says what happened: applied and no_change, that the files are the
\* commit's and the baseline is; the others, that the files are as before.
\* (unknown claims nothing, and Retention's failed is about a lost result.)
ResultIsTrue ==
    [][\A p \in Pushes : out'[p] # out[p] /\ ~touched /\ pc # "end" =>
          /\ out'[p] \in {"applied", "no_change"} => Installed(p) /\ applied.commit = p
          /\ out'[p] \in {"refused", "failed", "rolled_back"} => etc = t.prev]_vars

\* A running motel runs the Caddyfile a push is reported to have applied.
AppliedIsLoaded ==
    [][\A p \in Pushes : out'[p] # out[p] /\ out'[p] = "applied" /\ ~touched
          /\ Caddyfile \in t.set => loaded \in {Head[p][Caddyfile], None}]_vars

\* At every instant the Caddyfile on disk names only env files that are there
\* (the order of the swap, and of the rollback).
EnvFilesThere ==
    ~touched => \A a \in Uses[etc[Caddyfile]] : etc[a] # None

\* A rollback in progress can be taken up again: the record says a phase
\* recovery rolls back from.
RollbackResumes ==
    pc \in {"rolling_back", "restore"} =>
       rec # None /\ rec.txn = t /\ rec.phase \in {"installing", "swapped", "rolling_back"}

-----------------------------------------------------------------------------
(* Fairness: root's process runs; the path unit starts it while the exchange *)
(* holds anything (a console restarts a path unit that has hit its limit).   *)

Fairness == WF_vars(RootStep) /\ WF_vars(StartRun("applier"))
FairSpec == Spec /\ Fairness

\* Every push the handler drops leaves the exchange, its record with it: no
\* run of failures, crashes and edits, once over, leaves a box that a push
\* blocks.
ExchangeDrains == []<>(rec = None /\ work = {} /\ inbox = {})
=============================================================================
