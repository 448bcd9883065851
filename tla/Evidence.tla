------------------------------ MODULE Evidence ------------------------------
(* What the fleet may believe about its guests (app.ProductionInventory). One  *)
(* scheduler tick reads the durable rows and the backend's enumeration, folds  *)
(* each raw power reading into a run of `stopped` answers and each guest probe *)
(* into a run of refusals, and publishes an inventory the planner destroys     *)
(* instances on. The runs are the daemon's memory: a restart forgets them, and *)
(* an inventory that is withheld as unavailable leaves them as they were.      *)
EXTENDS Integers, Sequences

CONSTANTS Insts,            \* instance identities
          PowerPolicy,      \* domain.PowerCorroboration, [count, window]
          GuestPolicy,      \* the node's GuestLivenessPolicy; zeroes disable it
          RetractedFactor,  \* domain.PowerRetractedFactor
          MaxAge            \* RecoveryConfirmationMaxAge

VARIABLES clock,    \* the one clock all accumulators and the planner read
          row,      \* the durable instance rows (LiveInstances)
          power,    \* PowerCorroborator.runs
          guest,    \* GuestLivenessTracker.state
          report,   \* the inventory the last tick published
          readings, \* history: every power reading folded, and what broke a run
          probes    \* history: every guest probe folded, and what broke a run
vars == <<clock, row, power, guest, report, readings, probes>>

-----------------------------------------------------------------------------
(* Rows, readings and runs *)

Provisioning == {"cloning", "booting", "reachable"}
TearingDown == {"draining", "deregistering", "stopping"}
States == {"planned", "registering", "idle", "assigned", "running"}
            \cup Provisioning \cup TearingDown

\* retracted: the row still carries the phase of an aborted stopped recovery.
Rows == [state : States \cup {"none"}, retracted : BOOLEAN, updated : Nat]
NoRow == [state |-> "none", retracted |-> FALSE, updated |-> 0]
Tracked == {i \in Insts : row[i].state # "none"}

Powers == {"running", "stopped", "absent", "unknown"}
ProvenIdle(p) == p \in {"stopped", "absent"}
Liveness == {"alive", "refused", "unknown"}

\* ObservationRun, which is GuestLivenessState: how many hostile observations in
\* a row and since when. Instant 0 is the zero time.
Runs == [n : Nat, since : Nat]
NoRun == [n |-> 0, since |-> 0]

\* GuestLivenessPolicy.Observe: only a refusal accumulates, and whatever else
\* was learnt, or not learnt, ends the run.
Fold(run, seen, now) ==
  IF seen = "refused"
  THEN [n |-> run.n + 1, since |-> IF run.since = 0 THEN now ELSE run.since]
  ELSE NoRun

Enabled(policy) == policy.count > 0 /\ policy.window > 0

\* Confirmed, with Silence: both bounds, on a run that began before now.
Confirmed(policy, run, now) ==
  /\ Enabled(policy)
  /\ run.n >= policy.count
  /\ run.since # 0 /\ run.since <= now
  /\ now - run.since >= policy.window

PowerSignal(p) == CASE p = "running" -> "alive"
                    [] p = "stopped" -> "refused"
                    [] OTHER -> "unknown"

PowerBound(retracted) ==
  IF retracted THEN [PowerPolicy EXCEPT !.window = @ * RetractedFactor] ELSE PowerPolicy

\* A stopped reading is downgraded until its run is confirmed, except for an
\* instance the fleet is already tearing down.
CorroboratedPower(p, r, run, now) ==
  IF p # "stopped" \/ r.state \in TearingDown \/ Confirmed(PowerBound(r.retracted), run, now)
  THEN p ELSE "unknown"

-----------------------------------------------------------------------------
(* One observation *)

AbsenceIsReconcilable(state) == state = "planned" \/ state \in Provisioning \cup TearingDown

\* What one tick reads. listed[i] is the backend's own classification of the VM,
\* or "missing"; stored and enumerated say whether the two reads succeeded; valid
\* are the rows with scheduling metadata; deletion[i] is the age of the recovery
\* confirmation, or -1 for one that is refused or unreadable; job[i] is the
\* durable demand's answer.
Inputs == [stored : BOOLEAN, enumerated : BOOLEAN, valid : SUBSET Insts,
           listed : [Insts -> {"running", "stopped", "unknown", "missing"}],
           deletion : [Insts -> {-1} \cup Nat],
           job : [Insts -> {"active", "inactive", "unread"}],
           probe : [Insts -> Liveness]]

\* Every early return of Observe that publishes domain.Unavailable, a VM of this
\* controller with no row among them.
Usable(in) ==
  /\ in.stored /\ in.enumerated
  /\ \A i \in Tracked : /\ i \in in.valid
                        /\ in.listed[i] = "missing" => AbsenceIsReconcilable(row[i].state)
  /\ \A i \in Insts \ Tracked : in.listed[i] = "missing"

RawPower(in, i) == IF in.listed[i] # "missing" THEN in.listed[i]
                   ELSE IF row[i].state # "planned" THEN "absent" ELSE "unknown"

RecoveryReady(in, i) == /\ RawPower(in, i) = "running"
                        /\ row[i].state \in {"assigned", "running"}
                        /\ in.deletion[i] \in 0 .. MaxAge
JobInactive(in, i) == /\ row[i].state = "running" /\ RawPower(in, i) = "running"
                      /\ in.job[i] = "inactive"
Since(i, states) == IF row[i].state \in states THEN row[i].updated ELSE 0

\* PowerCorroborator.Observe: instances that are not in the inventory are forgotten.
PowerRuns(in, now) ==
  [i \in Insts |-> IF i \in Tracked THEN Fold(power[i], PowerSignal(RawPower(in, i)), now)
                   ELSE NoRun]
PowerOf(in, i, runs, now) == CorroboratedPower(RawPower(in, i), row[i], runs[i], now)

\* probeGuests: the running instances that are not proven idle.
Candidates(in, runs, now) ==
  {i \in Tracked : row[i].state = "running" /\ ~ProvenIdle(PowerOf(in, i, runs, now))}

\* GuestLivenessTracker.Observe. With nothing to probe, or disabled, it returns
\* before it touches its memory: the runs of the guests it left out survive.
Probing(cands) == Enabled(GuestPolicy) /\ cands # {}
GuestRuns(in, cands, now) ==
  IF Probing(cands)
  THEN [i \in Insts |-> IF i \in cands THEN Fold(guest[i], in.probe[i], now) ELSE NoRun]
  ELSE guest

Fact(in, i, runs, cands, now) ==
  [state |-> row[i].state, retracted |-> row[i].retracted,
   power |-> PowerOf(in, i, runs, now),
   guest |-> IF Probing(cands) /\ i \in cands THEN Fold(guest[i], in.probe[i], now) ELSE NoRun,
   ready |-> RecoveryReady(in, i), inactive |-> JobInactive(in, i),
   assignedSince |-> Since(i, {"assigned"}), runningSince |-> Since(i, {"running"}),
   provisioningSince |-> Since(i, Provisioning)]
NoFact == [state |-> "none", retracted |-> FALSE, power |-> "unknown", guest |-> NoRun,
           ready |-> FALSE, inactive |-> FALSE, assignedSince |-> 0, runningSince |-> 0,
           provisioningSince |-> 0]
Facts == [state : States \cup {"none"}, retracted : BOOLEAN, power : Powers, guest : Runs,
          ready : BOOLEAN, inactive : BOOLEAN, assignedSince : Nat, runningSince : Nat,
          provisioningSince : Nat]

\* at is the instant the planner judges on, taken before the observation began.
Reports == [fresh : BOOLEAN, at : Nat, fact : [Insts -> Facts]]
NoReport(now) == [fresh |-> FALSE, at |-> now, fact |-> [i \in Insts |-> NoFact]]

\* guestUnresponsive, the planner's verdict on a published instance.
GuestUnresponsive(i) ==
  /\ report.fact[i].state = "running" /\ ~ProvenIdle(report.fact[i].power)
  /\ Confirmed(GuestPolicy, report.fact[i].guest, report.at)

-----------------------------------------------------------------------------
Note(log, what, now) == Append(log, [what |-> what, at |-> now])

Init == /\ clock = 1
        /\ row = [i \in Insts |-> NoRow]
        /\ power = [i \in Insts |-> NoRun]
        /\ guest = [i \in Insts |-> NoRun]
        /\ report = NoReport(1)
        /\ readings = [i \in Insts |-> <<>>]
        /\ probes = [i \in Insts |-> <<>>]

\* ProductionInventory.Observe in one tick. The tick's instant is taken first;
\* the reads and probes last until `now`.
Publish(in, now, runs, cands) ==
  /\ power' = runs
  /\ guest' = GuestRuns(in, cands, now)
  /\ report' = [fresh |-> TRUE, at |-> clock,
                fact |-> [i \in Insts |-> IF i \in Tracked
                            THEN Fact(in, i, runs, cands, now) ELSE NoFact]]
  /\ readings' = [i \in Insts |-> Note(readings[i],
                    IF i \in Tracked THEN PowerSignal(RawPower(in, i)) ELSE "forgotten", now)]
  /\ probes' = [i \in Insts |->
                  IF ~Probing(cands) THEN probes[i]
                  ELSE Note(probes[i], IF i \in cands THEN in.probe[i] ELSE "forgotten", now)]
Observe(in, now) ==
  /\ now >= clock
  /\ clock' = now
  /\ IF Usable(in)
     THEN Publish(in, now, PowerRuns(in, now), Candidates(in, PowerRuns(in, now), now))
     ELSE /\ report' = NoReport(clock)
          /\ UNCHANGED <<power, guest, readings, probes>>
  /\ UNCHANGED row

\* The rest of the fleet: the rows move as executors, events and plans move them.
Move(i, r) ==
  /\ row' = [row EXCEPT ![i] = r]
  /\ UNCHANGED <<clock, power, guest, report, readings, probes>>

Pass(now) ==
  /\ now > clock
  /\ clock' = now
  /\ UNCHANGED <<row, power, guest, report, readings, probes>>

\* A daemon restart: both accumulators are in-process and start empty.
Restart ==
  /\ power' = [i \in Insts |-> NoRun]
  /\ guest' = [i \in Insts |-> NoRun]
  /\ report' = NoReport(clock)
  /\ readings' = [i \in Insts |-> Note(readings[i], "restart", clock)]
  /\ probes' = [i \in Insts |-> Note(probes[i], "restart", clock)]
  /\ UNCHANGED <<clock, row>>

Next == \/ \E in \in Inputs, now \in Nat : Observe(in, now)
        \/ \E i \in Insts, r \in Rows : Move(i, r)
        \/ \E now \in Nat : Pass(now)
        \/ Restart

Spec == Init /\ [][Next]_vars

-----------------------------------------------------------------------------
(* Properties *)

\* The last n entries of a log are refusals, and they span at least `window`.
Unbroken(log, n, window) ==
  /\ n \in 1 .. Len(log)
  /\ \A j \in (Len(log) - n + 1) .. Len(log) : log[j].what = "refused"
  /\ log[Len(log)].at - log[Len(log) - n + 1].at >= window

\* An instance the fleet has not decided to tear down is published as stopped
\* only when the backend said so at least PowerPolicy.count times in a row, over
\* the window its retraction asks for, and nothing in between (another answer, an
\* absence, a restart) broke the row of readings (PowerCorroborator.Observe).
StoppedIsCorroborated ==
  \A i \in Insts :
    report.fresh /\ report.fact[i].power = "stopped" /\ report.fact[i].state \notin TearingDown
    => \E n \in 1 .. Len(readings[i]) :
         /\ n >= PowerPolicy.count
         /\ Unbroken(readings[i], n, PowerBound(report.fact[i].retracted).window)

\* A guest is called dead only after GuestPolicy.count consecutive probes were
\* refused over its window, the last of them in the tick that says so; an answer,
\* an inconclusive probe, or a restart in between clears the verdict
\* (GuestLivenessTracker.Observe, guestUnresponsive).
DeathIsCorroborated ==
  \A i \in Insts :
    report.fresh /\ GuestUnresponsive(i)
    => \E n \in 1 .. Len(probes[i]) :
         n >= GuestPolicy.count /\ Unbroken(probes[i], n, GuestPolicy.window)
=============================================================================
