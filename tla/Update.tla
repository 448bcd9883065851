------------------------------- MODULE Update -------------------------------
(***************************************************************************)
(* The automatic updater of a node: the periodic `fleet update             *)
(* apply-latest` process that downloads a release and promotes it in a     *)
(* journalled transaction, the launchd and systemd hosts it drives, the    *)
(* one-shot job that reloads the updater itself, the collector of          *)
(* superseded releases, and the daemon's update drain, which refuses       *)
(* admission so that a busy node reaches the quiescence the transaction    *)
(* demands.                                                                *)
(*                                                                         *)
(* A transaction is a list of steps, one per durable write or supervisor   *)
(* command.  The process may be killed or the host rebooted between any    *)
(* two of them, and a step that can return an error may return one.        *)
(***************************************************************************)
EXTENDS Integers, Sequences, FiniteSets, FiniteSetsExt, SequencesExt

CONSTANTS
    MaxVersion,      \* releases are numbered 1 .. MaxVersion
    Retain,          \* DefaultRetainedReleases: rollback headroom
    PendingFor,      \* how long a candidate waits before the drain
    MaxWait,         \* how long a drain lasts
    Cooldown,        \* how long admission resumes after a fruitless drain
    JobLength,       \* the longest a job runs, in clock units
    Interval,        \* the period of the updater
    RestartGap,      \* the time between two restarts of the daemon
    MaxMishaps       \* failing steps, killed updaters, reboots and
                     \* configuration-only rollouts, together

ASSUME UpdateConstants ==
    /\ {MaxVersion, Interval} \subseteq Nat \ {0}
    /\ {Retain, PendingFor, MaxWait, Cooldown, JobLength, RestartGap,
        MaxMishaps} \subseteq Nat
    /\ MaxWait + Cooldown > 0

Versions == 1 .. MaxVersion

\* A generation is a version with the configuration it is run with.  The
\* mode never changes: Apply refuses a candidate of another mode.
Generations == [v : Versions, c : {0, 1}]
None == [v |-> 0, c |-> 0]

NoBackup == [boot |-> None, updater |-> None, timer |-> None]
NoJournal == [cur |-> None, cand |-> None, hadUpdater |-> FALSE, hadTimer |-> FALSE]

VARIABLES
    kind,      \* the supervisor: "launchd" or "systemd"
    quality,   \* what is wrong with a version, if anything: its archive
               \* ("corrupt"), the configuration for it ("refused"), its
               \* daemon ("unhealthy")
    latest,    \* the newest published production release
    node,      \* the files of the node and what its supervisor has loaded
    run,       \* the updater process
    hand,      \* the handoff process: where it is
    torn,      \* a transaction ended neither committed nor rolled back
    clash,     \* an updater run began while a handoff was in flight
    budget,    \* the mishaps left
    busy,      \* how long the jobs of the node still run
    drain,     \* DrainState of the daemon with its controller's pendingSince
    clock      \* release ages, the updater's countdown, the daemon's tick in
               \* this unit, the time since its restart, its parked instances

vars == <<kind, quality, latest, node, run, hand, torn, clash, budget, busy, drain, clock>>
static == <<kind, quality>>
timing == <<busy, drain, clock>>

-----------------------------------------------------------------------------
(* The durable writes and supervisor commands, as functions of the node.   *)

WriteBoot(n, g) == [n EXCEPT !.boot = g]
WriteUpdater(n, g) == [n EXCEPT !.updater = g]
WriteTimer(n, g) == [n EXCEPT !.timer = g]
WriteHandoff(n, g) == [n EXCEPT !.handoff = g]
Link(n, g) == [n EXCEPT !.link = g.v]
Manifest(n, g) == [n EXCEPT !.installed = g]

\* launchctl: bootout stops the job and forgets its definition, bootstrap
\* loads the definition on disk and starts it, kickstart restarts it.
Bootout(n) == [n EXCEPT !.svc = None, !.up = None]
Bootstrap(n) == [n EXCEPT !.svc = n.boot, !.up = n.boot]
Kickstart(n) == [n EXCEPT !.up = n.svc]
BootoutHandoff(n) == [n EXCEPT !.hjob = None]
BootstrapHandoff(n) == [n EXCEPT !.hjob = n.handoff]
BootoutUpdater(n) == [n EXCEPT !.job = None, !.armed = FALSE]
BootstrapUpdater(n) == [n EXCEPT !.job = n.updater, !.armed = TRUE]

\* systemctl --user: daemon-reload rereads every unit, restart runs the
\* definition last reread, enable and disable arm and disarm the timer.
DaemonReload(n) == [n EXCEPT !.svc = n.boot, !.job = n.updater]
Restart(n) == [n EXCEPT !.up = n.svc]
EnableTimer(n) == [n EXCEPT !.armed = n.timer # None]
DisableTimer(n) == [n EXCEPT !.armed = FALSE]

BackupBoot(n) == [n EXCEPT !.backup.boot = n.boot]
BackupUpdater(n) == [n EXCEPT !.backup.updater =
                        IF n.updater = None THEN @ ELSE n.updater]
BackupTimer(n) == [n EXCEPT !.backup.timer =
                        IF n.timer = None THEN @ ELSE n.timer]

\* The journal is written last, with what rollback needs to know.
WriteJournal(n, cur, cand) ==
    [n EXCEPT !.journal = [cur |-> cur, cand |-> cand,
                           hadUpdater |-> n.updater # None,
                           hadTimer |-> n.timer # None]]

RemoveHandoff(n) == [n EXCEPT !.handoff = None]
RestoreUpdater(n) ==
    WriteUpdater(n, IF n.journal.hadUpdater THEN n.backup.updater ELSE None)
RestoreTimer(n) ==
    WriteTimer(n, IF n.journal.hadTimer THEN n.backup.timer ELSE None)

ClearBackups(n) == [n EXCEPT !.backup = NoBackup]
ClearJournal(n) == [n EXCEPT !.journal = NoJournal]

\* Rollback disarms a timer the transaction installed, and rearms one it found.
DisarmUnlessHad(n) == IF n.journal.hadTimer THEN n ELSE DisableTimer(n)
RearmIfHad(n) == IF n.journal.hadTimer THEN EnableTimer(n) ELSE n

-----------------------------------------------------------------------------
(* The collector of superseded releases.                                   *)

\* The versions named by a boot definition on disk or by a program the
\* supervisor has loaded.
ReferencedReleases(n) ==
    {g.v : g \in {n.boot, n.updater, n.handoff, n.svc, n.job, n.hjob}} \ {0}

\* Kept: the installed version, the one the `current` link resolves to, the
\* newest, every referenced one, and the `retain` newest older than installed.
PrunableReleases(names, running, current, retain, referenced) ==
    LET older == {v \in names : v < running}
        headroom == {v \in older : Cardinality({w \in older : w > v}) < retain}
        kept == {running, Max(names), current} \cup referenced \cup headroom
    IN  names \ kept

\* Mutant: only the links are protected, as before boot definitions were read.
PrunesReferenced(n) ==
    [n EXCEPT !.releases = @ \ PrunableReleases(@, n.installed.v, n.link, Retain, {})]

PruneReleases(n) ==
    IF n.installed = None THEN n
    ELSE [n EXCEPT !.releases =
            @ \ PrunableReleases(@, n.installed.v, n.link, Retain, ReferencedReleases(n))]

-----------------------------------------------------------------------------
(* The transaction as the steps of its handlers, per supervisor.           *)

\* Validate and Prepare: nothing they do outlives a failure but the backups.
LaunchdPrepare == <<"validate", "gate", "backupBoot", "backupUpdater", "journal">>
SystemdPrepare ==
    <<"validate", "gate", "backupBoot", "backupUpdater", "backupTimer", "journal">>

LaunchdActivate == <<"boot", "bootout", "bootstrap", "kickstart">>
SystemdActivate == <<"boot", "reload", "restart">>

\* A loaded updater may be the process executing the commit, so launchd's
\* commit leaves its replacement to the handoff job.
LaunchdCommit ==
    <<"updater", "print", "link", "manifest", "clearBackups", "clearJournal">>
Enroll(loaded) ==
    IF loaded THEN <<"handoff", "bootoutHandoff", "bootstrapHandoff">>
              ELSE <<"bootstrapUpdater">>
SystemdCommit ==
    <<"updater", "timer", "reload", "enable",
      "link", "manifest", "clearBackups", "clearJournal">>

LaunchdRollback ==
    <<"readBackup", "bootout", "bootBack", "bootstrap", "kickstart",
      "bootoutHandoff", "removeHandoff", "updaterBack",
      "manifest", "link", "clearBackups", "clearJournal">>
SystemdRollback ==
    <<"readBackup", "bootBack", "reload", "restart", "disarm", "updaterBack",
      "timerBack", "reload", "rearm",
      "manifest", "link", "clearBackups", "clearJournal">>

\* Mutant: the rollback that clears its journal before the boot definition
\* and the manifest are both back.
ForgetfulRollback(k) ==
    IF k = "launchd"
    THEN <<"readBackup", "bootout", "bootBack", "bootstrap", "kickstart",
           "bootoutHandoff", "removeHandoff", "manifest", "link",
           "clearBackups", "clearJournal">>
    ELSE SystemdRollback

PrepareSteps(k) == IF k = "launchd" THEN LaunchdPrepare ELSE SystemdPrepare
ActivateSteps(k) == IF k = "launchd" THEN LaunchdActivate ELSE SystemdActivate
CommitSteps(k) == IF k = "launchd" THEN LaunchdCommit ELSE SystemdCommit
RollbackSteps(k) == IF k = "launchd" THEN LaunchdRollback ELSE SystemdRollback

\* What a step does to the node; g is the generation the transaction ends
\* with: the candidate, or the current one while it is being rolled back.
Do(step, n, r, g) ==
    CASE step \in {"validate", "gate", "ready", "readBackup", "print"} -> n
      [] step = "backupBoot" -> BackupBoot(n)
      [] step = "backupUpdater" -> BackupUpdater(n)
      [] step = "backupTimer" -> BackupTimer(n)
      [] step = "journal" -> WriteJournal(n, r.cur, r.cand)
      [] step = "boot" -> WriteBoot(n, r.cand)
      [] step = "bootout" -> Bootout(n)
      [] step = "bootstrap" -> Bootstrap(n)
      [] step = "kickstart" -> Kickstart(n)
      [] step = "reload" -> DaemonReload(n)
      [] step = "restart" -> Restart(n)
      [] step = "updater" -> WriteUpdater(n, r.cand)
      [] step = "timer" -> WriteTimer(n, r.cand)
      [] step = "handoff" -> WriteHandoff(n, r.cand)
      [] step = "bootoutHandoff" -> BootoutHandoff(n)
      [] step = "bootstrapHandoff" -> BootstrapHandoff(n)
      [] step = "bootstrapUpdater" -> BootstrapUpdater(n)
      [] step = "enable" -> EnableTimer(n)
      [] step = "bootBack" -> WriteBoot(n, n.backup.boot)
      [] step = "removeHandoff" -> RemoveHandoff(n)
      [] step = "updaterBack" -> RestoreUpdater(n)
      [] step = "timerBack" -> RestoreTimer(n)
      [] step = "disarm" -> DisarmUnlessHad(n)
      [] step = "rearm" -> RearmIfHad(n)
      [] step = "link" -> Link(n, g)
      [] step = "manifest" -> Manifest(n, g)
      [] step = "clearBackups" -> ClearBackups(n)
      [] step = "clearJournal" -> ClearJournal(n)
      [] step = "prune" -> PruneReleases(n)

\* The daemon of a generation answers status as that generation, healthy.
Healthy(n, g) == n.up = g /\ quality[g.v] # "unhealthy"

\* ensureQuiescent: the current daemon answers, healthy, and every instance it
\* counts is parked behind a dead letter.
Quiescent(n, cur) ==
    LET live == (IF busy > 0 THEN 1 ELSE 0) + clock.parked
    IN  Healthy(n, cur) /\ live - clock.parked <= 0

\* The steps whose outcome the node itself decides.
Possible(step, n, r) ==
    CASE step = "validate" -> quality[r.cand.v] # "refused"
      [] step = "gate" -> Quiescent(n, r.cur)
      [] step = "ready" -> Healthy(n, r.cand)
      [] step = "readBackup" -> n.backup.boot # None
      [] step = "updaterBack" -> ~ n.journal.hadUpdater \/ n.backup.updater # None
      [] step = "timerBack" -> ~ n.journal.hadTimer \/ n.backup.timer # None
      [] OTHER -> TRUE

\* The steps whose error the code ignores, or that return none.
Infallible == {"bootout", "bootoutHandoff", "print", "disarm", "prune"}

-----------------------------------------------------------------------------
(* The updater process.                                                    *)

Idle == [todo |-> <<>>, cur |-> None, cand |-> None, phase |-> "idle", job |-> FALSE]
Running == run.todo # <<>>

\* requireCommittedGeneration and the comparison of the updater's definition.
Committed(n, g) == n.journal = NoJournal /\ n.installed = g /\ n.updater = g

\* The handoff is about to unload the updater, or to load it again.
InFlight == node.hjob # None /\ (hand \in {"unload", "load"}
                                  \/ (hand = "start" /\ Committed(node, node.hjob)))

\* Controller.Apply: what it does with the candidate.
Apply(k, n, cand) ==
    LET cur == n.installed
    IN  IF cand = cur \/ cand.v < cur.v THEN <<>>
        ELSE PrepareSteps(k) \o ActivateSteps(k) \o <<"ready">> \o CommitSteps(k)

\* runUpdate apply-latest begins with the configuration it was given.
ApplyLatest(c, job) ==
    /\ ~ Running
    /\ run' = [todo |-> <<"fetch">>, cur |-> None, cand |-> [v |-> latest, c |-> c],
               phase |-> "fetch", job |-> job]
    /\ clock' = [clock EXCEPT !.poll = IF job THEN Interval ELSE @]
    /\ clash' = (clash \/ InFlight)
    /\ UNCHANGED <<static, latest, node, hand, torn, busy, drain>>

\* LatestProductionRelease stages and verifies the release, unless it is on
\* disk, and publishes it by a rename; then Apply runs, and the collector
\* whatever came of it.
Fetched ==
    LET v == run.cand.v
    IN  /\ quality[v] # "corrupt"
        /\ node' = [node EXCEPT !.releases = @ \cup {v}]
        /\ clock' = [clock EXCEPT !.age = IF v \in node.releases THEN @
                                          ELSE [@ EXCEPT ![v] = 0]]
        /\ run' = [run EXCEPT !.todo = Apply(kind, node, run.cand) \o <<"prune">>,
                              !.cur = node.installed, !.phase = "apply"]
        /\ UNCHANGED budget

Fetch ==
    /\ run.phase = "fetch"
    /\ \/ Fetched
       \/ /\ IF quality[run.cand.v] = "corrupt" THEN UNCHANGED budget
             ELSE budget > 0 /\ budget' = budget - 1
          /\ run' = Idle
          /\ UNCHANGED <<node, clock>>
    /\ UNCHANGED <<static, latest, hand, torn, clash, busy, drain>>

\* The supervisor starts the periodic updater, which keeps the configuration
\* its definition was rendered with.
Poll ==
    /\ node.armed /\ node.job # None
    /\ clock.timed => clock.poll = 0
    /\ ApplyLatest(node.job.c, TRUE)
    /\ UNCHANGED budget

\* An operator runs apply-latest with another configuration.
Rollout ==
    /\ budget > 0
    /\ node.installed # None
    /\ ApplyLatest(1 - node.installed.c, FALSE)
    /\ budget' = budget - 1

\* fleet update adopt records the generation the boot definition names and
\* enables the periodic updater; it refuses while a journal exists.
Adopt ==
    /\ ~ Running
    /\ node.installed = None
    /\ node.journal = NoJournal
    /\ run' = [todo |-> <<"ready">> \o CommitSteps(kind), cur |-> None,
               cand |-> node.boot, phase |-> "adopt", job |-> FALSE]
    /\ UNCHANGED <<static, latest, node, hand, torn, clash, budget, timing>>

\* A daemon that has not observed yet.
Fresh == [waits |-> FALSE, pending |-> 0, draining |-> FALSE,
          cooldown |-> FALSE, since |-> 0]

Finished(todo, r) == IF todo = <<>> THEN Idle ELSE [r EXCEPT !.todo = todo]

Works(step) ==
    /\ Possible(step, node, run)
    /\ node' = Do(step, node, run, IF run.phase = "rollback" THEN run.cur ELSE run.cand)
    /\ run' = Finished((IF step = "print" THEN Enroll(node.job # None) ELSE <<>>)
                         \o Tail(run.todo), run)
    /\ UNCHANGED <<torn, budget>>

\* A failed transaction is rolled back once its journal was opened; a failed
\* rollback, like a failed adoption, leaves the node as it is.
Fails(step) ==
    /\ \/ ~ Possible(step, node, run) /\ UNCHANGED budget
       \/ /\ Possible(step, node, run)
          /\ step \notin Infallible
          /\ budget > 0
          /\ budget' = budget - 1
    /\ run' = CASE run.phase = "adopt" -> Idle
                [] run.phase = "apply" /\ Contains(PrepareSteps(kind), step) ->
                       [run EXCEPT !.todo = <<"prune">>]
                [] run.phase = "apply" ->
                       [run EXCEPT !.todo = RollbackSteps(kind) \o <<"prune">>,
                                   !.phase = "rollback"]
                [] run.phase = "rollback" -> [run EXCEPT !.todo = <<"prune">>]
    /\ torn' = (torn \/ run.phase = "rollback")
    /\ UNCHANGED node

Step ==
    /\ Running /\ run.phase # "fetch"
    /\ \/ Works(Head(run.todo))
       \/ Fails(Head(run.todo))
    /\ hand' = IF Head(run.todo) = "bootoutHandoff" THEN "start" ELSE hand
    /\ drain' = IF node'.up = node.up THEN drain ELSE Fresh
    /\ UNCHANGED <<static, latest, clash, busy, clock>>

\* A killed run tears the transaction it was in the middle of.
Torn(killed) == torn \/ (killed /\ node.journal # NoJournal)
                     \/ (killed /\ run.phase = "adopt")

Kill ==
    /\ Running /\ budget > 0
    /\ run' = Idle
    /\ torn' = Torn(TRUE)
    /\ budget' = budget - 1
    /\ UNCHANGED <<static, latest, node, hand, clash, timing>>

\* After a reboot the supervisor loads what is on disk, and the handoff
\* definition, which outlives its job, runs once more.
Loaded(k, n) ==
    IF k = "launchd"
    THEN [n EXCEPT !.svc = n.boot, !.up = n.boot, !.job = n.updater,
                   !.armed = n.updater # None, !.hjob = n.handoff]
    ELSE [n EXCEPT !.svc = n.boot, !.up = n.boot, !.job = n.updater,
                   !.armed = @ /\ n.timer # None]

Reboot ==
    /\ budget > 0
    /\ node' = Loaded(kind, node)
    /\ run' = Idle
    /\ hand' = "start"
    /\ torn' = Torn(Running)
    /\ drain' = Fresh
    /\ busy' = 0
    /\ budget' = budget - 1
    /\ UNCHANGED <<static, latest, clash, clock>>

-----------------------------------------------------------------------------
(* The handoff job of launchd: finish-updater-handoff, restarted until it  *)
(* succeeds.                                                               *)

\* Mutant: the handoff that does not wait for the commit.
HastyGate ==
    /\ hand = "start" /\ node.hjob # None
    /\ hand' = "unload"
    /\ UNCHANGED <<static, latest, node, run, torn, clash, budget, timing>>

HandoffGate ==
    /\ hand = "start" /\ node.hjob # None
    /\ Committed(node, node.hjob)
    /\ hand' = "unload"
    /\ UNCHANGED <<static, latest, node, run, torn, clash, budget, timing>>

\* Booting out the updater's job kills the run it is in.
HandoffUnload ==
    /\ hand = "unload" /\ node.hjob # None
    /\ LET killed == Running /\ run.job
       IN  /\ run' = IF killed THEN Idle ELSE run
           /\ torn' = Torn(killed)
    /\ node' = BootoutUpdater(node)
    /\ hand' = "load"
    /\ UNCHANGED <<static, latest, clash, budget, timing>>

\* It succeeds when the updater now loaded is the release it was asked for;
\* a definition that is gone, or loaded again meanwhile, cannot be loaded.
HandoffLoad ==
    /\ hand = "load" /\ node.hjob # None
    /\ IF node.updater # None /\ node.job = None
       THEN /\ node' = BootstrapUpdater(node)
            /\ hand' = IF node.updater.v = node.hjob.v THEN "done" ELSE "start"
       ELSE node' = node /\ hand' = "start"
    /\ UNCHANGED <<static, latest, run, torn, clash, budget, timing>>

\* launchctl fails; KeepAlive starts the job again.
HandoffFails ==
    /\ hand \in {"unload", "load"} /\ node.hjob # None
    /\ budget > 0
    /\ budget' = budget - 1
    /\ hand' = "start"
    /\ UNCHANGED <<static, latest, node, run, torn, clash, timing>>

\* systemd's handoff only asserts that the committed generation's timer is armed.
FinishUpdaterHandoff ==
    /\ kind = "systemd" /\ ~ Running
    /\ node.journal = NoJournal /\ node.installed # None
    /\ node' = EnableTimer(DaemonReload(node))
    /\ UNCHANGED <<static, latest, run, hand, torn, clash, budget, timing>>

Handoff == HandoffGate \/ HandoffUnload \/ HandoffLoad

-----------------------------------------------------------------------------
(* The daemon's update drain.  Dates are ages in clock units; the age of a *)
(* release wraps within one cycle of the schedule, which is all it decides.*)

Cycle == MaxWait + Cooldown
Older(a) == IF a + 1 < PendingFor + Cycle THEN a + 1 ELSE PendingFor

\* newerReleases, PendingCandidate and PendingSince.
Newer(n) == {v \in n.releases : v > n.up.v}
PendingSince == Max({clock.age[v] : v \in Newer(node)})

\* resume places a state that has just established its wait in the phase the
\* wait has reached.
Resume(age) ==
    LET offset == (age - PendingFor) % Cycle
    IN  [Fresh EXCEPT !.waits = TRUE, !.pending = age,
                      !.draining = age >= PendingFor /\ offset < MaxWait,
                      !.cooldown = age >= PendingFor /\ offset >= MaxWait,
                      !.since = IF age < PendingFor THEN age
                                ELSE IF offset < MaxWait THEN offset
                                ELSE offset - MaxWait]

\* The phases of a state that has been observing.
Phases(d) ==
    CASE d.draining /\ d.since >= MaxWait ->
           [d EXCEPT !.draining = FALSE, !.cooldown = TRUE, !.since = 0]
      [] d.cooldown /\ d.since >= Cooldown ->
           [d EXCEPT !.cooldown = FALSE, !.since = 0]
      [] ~ d.draining /\ ~ d.cooldown /\ d.pending >= PendingFor ->
           [d EXCEPT !.draining = TRUE, !.since = 0]
      [] OTHER -> d

\* Mutant: the daemon that dates the wait from its own first tick.
ResumesFromNothing(d, age) ==
    IF d.waits THEN Phases(d) ELSE [Fresh EXCEPT !.waits = TRUE]

DrainObserve(d, age) ==
    IF d.waits THEN Phases(d)
    ELSE LET r == Resume(age) IN IF r.draining THEN r ELSE Phases(r)

\* applyUpdateDrain: every tick of the engine folds the policy once.
Observe ==
    /\ clock.timed /\ ~ clock.seen
    /\ node.up # None
    /\ drain' = IF Newer(node) = {} THEN Fresh
                ELSE DrainObserve(drain, PendingSince)
    /\ clock' = [clock EXCEPT !.seen = TRUE]
    /\ UNCHANGED <<static, latest, node, run, hand, torn, clash, budget, busy>>

\* A node that admits takes the next job as soon as it has room for it.
Admit ==
    /\ clock.timed
    /\ node.up # None /\ ~ drain.draining
    /\ busy' = JobLength
    /\ UNCHANGED <<static, latest, node, run, hand, torn, clash, budget, drain, clock>>

\* The daemon restarts on its own: its jobs go on, its drain state is lost,
\* and it admits until its first tick has observed the candidate.
DaemonRestart ==
    /\ clock.timed /\ clock.quiet = RestartGap
    /\ node.up # None
    /\ drain' = Fresh
    /\ clock' = [clock EXCEPT !.quiet = 0]
    /\ UNCHANGED <<static, latest, node, run, hand, torn, clash, budget, busy>>

\* Time passes between runs of the updater, which fit in one unit, and at
\* least one tick of the daemon falls in every unit.
Clock ==
    /\ clock.timed /\ clock.seen /\ ~ Running
    /\ clock.poll > 0
    /\ clock' = [clock EXCEPT !.poll = @ - 1, !.seen = FALSE,
                              !.quiet = IF @ < RestartGap THEN @ + 1 ELSE @,
                              !.age = [v \in Versions |-> Older(@[v])]]
    /\ drain' = [drain EXCEPT !.pending = IF @ < PendingFor THEN @ + 1 ELSE @,
                              !.since = IF @ < Cycle THEN @ + 1 ELSE @]
    /\ busy' = IF busy > 0 THEN busy - 1 ELSE 0
    /\ UNCHANGED <<static, latest, node, run, hand, torn, clash, budget>>

\* A run asks for the newest release once, so a release published while it
\* runs might as well be published after it.
Publish ==
    /\ ~ Running
    /\ latest < MaxVersion
    /\ latest' = latest + 1
    /\ UNCHANGED <<static, node, run, hand, torn, clash, budget, timing>>

\* A node runs the generation its boot definition names.  It was adopted
\* before, or is not yet; at most one release is no good; the timed scenario starts one release behind the
\* last one, without faults.
Node(k, g, adopted) ==
    LET enrolled == IF adopted THEN g ELSE None
    IN  [boot |-> g, updater |-> enrolled,
         timer |-> IF k = "systemd" THEN enrolled ELSE None, handoff |-> None,
         backup |-> NoBackup, journal |-> NoJournal,
         installed |-> enrolled, link |-> enrolled.v, releases |-> {g.v},
         svc |-> g, up |-> g, job |-> enrolled, armed |-> adopted, hjob |-> None]

AllGood == [v \in Versions |-> "good"]

Init ==
    /\ kind \in {"launchd", "systemd"}
    /\ \E timed, adopted \in BOOLEAN :
         LET first == IF timed THEN MaxVersion - 1 ELSE 1
         IN  /\ timed => adopted
             /\ \E v \in Versions \ {first}, q \in {"corrupt", "refused", "unhealthy"} :
                    quality \in {AllGood} \cup (IF timed \/ ~ adopted THEN {}
                                               ELSE {[AllGood EXCEPT ![v] = q]})
             /\ latest = first
             /\ node = Node(kind, [v |-> first, c |-> 0], adopted)
             /\ budget = IF timed THEN 0 ELSE MaxMishaps
             /\ \E parked \in IF timed THEN {0, 1} ELSE {0} :
                    clock = [timed |-> timed, seen |-> FALSE, poll |-> 0, quiet |-> 0,
                             parked |-> parked, age |-> [v \in Versions |-> 0]]
    /\ run = Idle
    /\ hand = "start"
    /\ torn = FALSE /\ clash = FALSE
    /\ busy = 0
    /\ drain = Fresh

Next ==
    \/ Poll \/ Rollout \/ Adopt \/ Fetch \/ Step \/ Kill \/ Reboot
    \/ HandoffGate \/ HandoffUnload \/ HandoffLoad \/ HandoffFails
    \/ FinishUpdaterHandoff
    \/ Observe \/ Admit \/ DaemonRestart \/ Clock \/ Publish

\* A started run goes on, the supervisor restarts the handoff until it
\* succeeds and starts the updater every interval, the engine ticks.
Fairness ==
    /\ WF_vars(Fetch) /\ WF_vars(Step) /\ WF_vars(Poll) /\ WF_vars(Handoff)
    /\ WF_vars(Observe) /\ WF_vars(Clock)

Spec == Init /\ [][Next]_vars
FairSpec == Spec /\ Fairness

-----------------------------------------------------------------------------
(* Properties.                                                             *)

\* A transaction is open from its journal to its end.
Open == /\ run.phase \in {"apply", "rollback"}
        /\ ~ Contains(PrepareSteps(kind), Head(run.todo))
        /\ Head(run.todo) # "prune"

\* PruneReleases with ReferencedReleases: whatever crashed or failed and in
\* whatever state the transaction was left, no release that a boot definition,
\* the manifest, the link or a loaded program names, or that the rollback of
\* an open transaction would restore, has been removed from disk: whatever
\* starts next can start.
NothingStranded ==
    LET named == {node.boot, node.updater, node.handoff, node.installed,
                  node.svc, node.job, node.hjob}
                   \cup (IF Open THEN {node.backup.boot, node.backup.updater} ELSE {})
    IN  ({g.v : g \in named} \cup {node.link}) \ {0} \subseteq node.releases

\* Controller.Apply and the hosts' Commit and Rollback: between two runs of
\* the updater the boot definition, the manifest, the link and the updater's
\* own definition name one generation, and that generation runs, unless a
\* transaction was torn.  The journal and the backups are gone.
PromotedWhole ==
    (~ Running /\ ~ torn /\ node.installed # None) =>
        /\ {node.boot, node.updater, node.up, node.svc} = {node.installed}
        /\ kind = "systemd" => node.timer = node.installed
        /\ node.link = node.installed.v
        /\ node.journal = NoJournal

\* DrainState with the quiescence gate of Prepare: a healthy release that
\* stays the newest is installed, on a node that takes a new job whenever it
\* admits and whose daemon restarts inside every wait and every drain.
ReleaseLands ==
    \A v \in Versions :
        (latest = v /\ quality[v] = "good" /\ node.installed # None)
          ~> (node.installed.v >= v \/ latest > v \/ torn \/ clash)

\* LocalHost.Commit with FinishUpdaterHandoff, and SystemdHost.Commit: the
\* periodic updater the supervisor has loaded ends up being the installed
\* generation's.
UpdaterHandedOver ==
    \A g \in Generations :
        (node.installed = g /\ ~ Running) ~> (node.job = g \/ node.installed # g \/ torn \/ clash)

=============================================================================
