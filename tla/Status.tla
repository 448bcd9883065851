------------------------------- MODULE Status -------------------------------
(***************************************************************************)
(* What a node says about itself: engineTicker.Tick publishing one tick's  *)
(* facts through the setters of telemetry.Health, the rate-limited log of  *)
(* failureReporter, and the quiescence gate of an update, which reads the  *)
(* published document (internal/daemon/runtime.go, internal/telemetry,     *)
(* internal/autoupdate/host.go).                                           *)
(*                                                                         *)
(* Each setter takes the health lock on its own, so a reader of the status *)
(* document sees the state between any two of them: the tick is a          *)
(* sequence of steps, and the component loops report in between.  What the *)
(* tick finds (its inventory, its plan, the durable rows) is arbitrary.    *)
(***************************************************************************)
EXTENDS Naturals, FiniteSets

CONSTANTS Instances,     \* instance identities
          Profiles,      \* the profiles the daemon is configured with
          Components,    \* failureComponents
          Observations,  \* REST observations and bindings a loop reports on
          Reasons,       \* the closed failure vocabulary
          Demands,       \* demands that empty exits are counted for
          Window,        \* failureReporter.window
          Budget,        \* OccupancyBudget of each profile, 0 for none
          Required,      \* GuestLivenessPolicy.ConsecutiveRefusals
          SilenceWindow, \* GuestLivenessPolicy.Window
          MaxRows,       \* maxOccupancy, maxDeadLetters
          TickTTL,       \* readyTickTTL
          ObservationTTL,
          None

VARIABLES clock,   \* the reporter's clock, which is monotonic
          last,    \* failureReporter.last: when each key was last admitted
          exits,   \* failureReporter.emptyExits: what each hold was last said for
          counts,  \* Health.componentFailures
          pc,      \* where the ticker goroutine is in Tick
          tick,    \* the TickResult it works on, and the rows it has read
          shown,   \* the published document
          raised,  \* history: each rate-limited condition reported, and when
          said,    \* history: each line the limiter let through, and when
          named,   \* history: the lines that are never rate limited
          drained, \* history: the reclaims planned on a verdict, and when
          refused  \* history: the last set of dead letters was refused whole

vars == <<clock, last, exits, counts, pc, tick, shown, raised, said, named, drained, refused>>

Constants ==
  /\ IsFiniteSet(Instances)
  /\ Window \in Nat \ {0}
  /\ Budget \in [Profiles -> Nat]
  /\ Required \in Nat
  /\ SilenceWindow \in Nat
  /\ MaxRows \in Nat
  /\ TickTTL \in Nat /\ ObservationTTL \in Nat
  /\ None \notin Profiles
  /\ None \notin Nat

-----------------------------------------------------------------------------
(* The facts of one instance that the reports and the metrics read. *)

States == {"provisioning", "running", "draining", "stopping", "deleted"}
Powers == {"running", "unreadable", "stopped", "absent"}
Instant == Nat \cup {None}

Fact == [state: States, power: Powers, profile: Profiles \cup {None}, occupiedSince: Instant,
         refusals: Nat, refusedSince: Instant, retracted: BOOLEAN,
         unreadable: Reasons \cup {None}, fitsQueued: BOOLEAN]

Live(f) == f.state # "deleted"
ProvenIdle(f) == f.power \in {"stopped", "absent"}
TearingDown(f) == f.state \in {"draining", "stopping"}

ConsumesHostResources(f) ==
  /\ Live(f)
  /\ TearingDown(f) /\ ProvenIdle(f) => f.power # "absent" /\ f.state # "stopping"

\* Instance.Occupancy: a hold nobody can time is not a measurement.
Held(f, now) == ConsumesHostResources(f) /\ f.occupiedSince # None /\ f.occupiedSince <= now
BudgetOf(f) == IF f.profile \in Profiles THEN Budget[f.profile] ELSE 0
Warned(f, now) == BudgetOf(f) > 0 /\ now - f.occupiedSince >= (3 * BudgetOf(f)) \div 4
OverBudget(f, now) == BudgetOf(f) > 0 /\ now - f.occupiedSince >= BudgetOf(f)

OccupancyExceeded(f, now) ==
  f.profile \in Profiles /\ ~ProvenIdle(f) /\ Held(f, now) /\ OverBudget(f, now)

\* GuestLivenessState.Silence and the verdict on it.
Silent(f, now) == f.refusedSince # None /\ f.refusedSince <= now
Confirmed(f, now) ==
  /\ Required > 0 /\ SilenceWindow > 0
  /\ f.refusals >= Required
  /\ Silent(f, now) /\ now - f.refusedSince >= SilenceWindow
GuestUnresponsive(f, now) == f.state = "running" /\ ~ProvenIdle(f) /\ Confirmed(f, now)

-----------------------------------------------------------------------------
(* What a tick hands over. *)

Flags == {"ConfirmedInactive", "StalledAssignment", "LingeringRunner", "GuestUnresponsive",
          "OccupancyExceeded", "ProvisionStalled"}
Operation == [instance: Instances, recovery: BOOLEAN, flags: SUBSET Flags]

Result == [at: Nat, facts: [Instances -> Fact], plan: SUBSET Operation, ready: BOOLEAN,
           holds: [Demands -> Instant]]

\* A reclaim on a verdict is planned from the predicate of the verdict, at the
\* instant and on the inventory the result carries.
PlannedOnVerdict(r) == \A o \in r.plan :
  /\ "GuestUnresponsive" \in o.flags => GuestUnresponsive(r.facts[o.instance], r.at)
  /\ "OccupancyExceeded" \in o.flags => OccupancyExceeded(r.facts[o.instance], r.at)

\* A durable dead letter: the instance it is about, and whether another
\* operation of that instance is still pending or claimed.
Letter == [resource: Instances, progressing: BOOLEAN]

NoFact == [state |-> "deleted", power |-> "absent", profile |-> None, occupiedSince |-> None,
           refusals |-> 0, refusedSince |-> None, retracted |-> FALSE, unreadable |-> None,
           fitsQueued |-> FALSE]
NoTick == [at |-> 0, facts |-> [i \in Instances |-> NoFact], plan |-> {}, ready |-> FALSE,
           holds |-> [d \in Demands |-> None], letters |-> {}, retrying |-> 0]

\* Occupancies and GuestSilences: the rows of the two published sets.
Occupancies(r) ==
  {[instance |-> i, warned |-> Warned(r.facts[i], r.at), overBudget |-> OverBudget(r.facts[i], r.at),
    starves |-> r.facts[i].fitsQueued] : i \in {j \in Instances : Held(r.facts[j], r.at)}}
GuestSilences(r) ==
  {[instance |-> i, unresponsive |-> GuestUnresponsive(r.facts[i], r.at)] :
     i \in {j \in Instances : Live(r.facts[j]) /\ Silent(r.facts[j], r.at)}}

\* SetOccupancy and SetGuestSilences replace the whole set, or refuse it whole:
\* over-long, or a row of a profile the daemon does not know.
Replace(r, rows, old) ==
  IF /\ Cardinality(rows) <= MaxRows
     /\ \A row \in rows : r.facts[row.instance].profile \in Profiles
  THEN rows
  ELSE old

SetOccupancy(r) == Replace(r, Occupancies(r), shown.occupancy)
SetGuestSilences(r) == Replace(r, GuestSilences(r), shown.silences)

\* recordMetrics counts the live instances of each configured profile.
Counted(r) == {i \in Instances : Live(r.facts[i]) /\ r.facts[i].profile \in Profiles}

\* deadLetterMetrics: a letter is parked when nothing pending will advance its
\* resource and this tick's inventory proves the machine idle.
IsParked(r, l) == Live(r.facts[l.resource]) /\ ProvenIdle(r.facts[l.resource]) /\ ~l.progressing
DeadLetterMetrics(r, letters) ==
  {[resource |-> l.resource, progressing |-> l.progressing, parked |-> IsParked(r, l)] : l \in letters}

-----------------------------------------------------------------------------
(* The log. *)

\* The rate-limit keys of one tick: the hold or the silence with its state, the
\* retracted premise, the unreadable power with its reason.
OccupancyKeys(r) == {<<"occupancy", h.instance, IF h.overBudget THEN "exceeded" ELSE "approaching">> :
                       h \in {g \in Occupancies(r) : g.warned}}
SilenceKeys(r) == {<<"guest", s.instance, IF s.unresponsive THEN "unresponsive" ELSE "silent">> :
                     s \in GuestSilences(r)}
RetractedKeys(r) == {<<"retracted", i, "">> : i \in {j \in Instances : r.facts[j].retracted /\ Live(r.facts[j])}}
UnreadableKeys(r) == {<<"unreadable", i, r.facts[i].unreadable>> :
                        i \in {j \in Instances : r.facts[j].unreadable # None /\ Live(r.facts[j])}}
TickKeys(r) == OccupancyKeys(r) \cup SilenceKeys(r) \cup RetractedKeys(r) \cup UnreadableKeys(r)

\* The keys of the loops: a component and its reason, a reconcile failure, a
\* binding.  A reason outside the vocabulary is not reported for the last two.
LoopKeys == ({"component"} \X Components \X (Reasons \cup {None}))
            \cup ({"reconcile", "binding"} \X Observations \X Reasons)
Keys == LoopKeys \cup ({"occupancy"} \X Instances \X {"exceeded", "approaching"})
        \cup ({"guest"} \X Instances \X {"unresponsive", "silent"})
        \cup ({"retracted"} \X Instances \X {""}) \cup ({"unreadable"} \X Instances \X Reasons)

\* admit: one line per key per window.
Admits(k) == last[k] = None \/ clock - last[k] >= Window
Said(keys) == {[key |-> k, at |-> clock] : k \in keys}
Say(keys) ==
  LET through == {k \in keys : Admits(k)}
  IN  /\ last' = [k \in Keys |-> IF k \in through THEN clock ELSE last[k]]
      /\ said' = said \cup Said(through)
      /\ raised' = raised \cup Said(keys)

\* reportRecovery's cause, in the order of its switch.
Cause(o) ==
  CASE "ConfirmedInactive" \in o.flags -> "runner confirmed inactive"
    [] "StalledAssignment" \in o.flags -> "assignment never started"
    [] "LingeringRunner" \in o.flags -> "runner idle past its deadline"
    [] "GuestUnresponsive" \in o.flags -> "guest stopped answering"
    [] "OccupancyExceeded" \in o.flags -> "occupancy budget exceeded"
    [] "ProvisionStalled" \in o.flags -> "provisioning stalled"
    [] OTHER -> "vm powered off"

\* The lines no limit applies to: every recovery with its cause, and the two
\* reclaims that end a job.
RecoveryLines(r) ==
  {[line |-> "recovery", instance |-> o.instance, cause |-> Cause(o), at |-> clock] :
     o \in {p \in r.plan : p.recovery}}
OccupancyReclaims(r) ==
  {[line |-> "occupancy reclaim", instance |-> o.instance, cause |-> "", at |-> clock] :
     o \in {p \in r.plan : "OccupancyExceeded" \in p.flags}}
GuestReclaims(r) ==
  {[line |-> "guest reclaim", instance |-> o.instance, cause |-> "", at |-> clock] :
     o \in {p \in r.plan : "GuestUnresponsive" \in p.flags}}

\* The verdicts that a plan's reclaims rest on, as the keys they are said under.
VerdictsOf(plan) ==
  {<<"guest", o.instance, "unresponsive">> : o \in {p \in plan : "GuestUnresponsive" \in p.flags}}
  \cup {<<"occupancy", o.instance, "exceeded">> : o \in {p \in plan : "OccupancyExceeded" \in p.flags}}

\* reportEmptyExitBackoffs: a hold is news when the exit that dates it changed,
\* and the memory is replaced by this tick's holds.
NewHolds(r) == {d \in Demands : r.holds[d] # None /\ exits[d] # r.holds[d]}
HoldLines(r) == {[line |-> "hold", instance |-> d, cause |-> "", at |-> r.holds[d]] : d \in NewHolds(r)}

-----------------------------------------------------------------------------
(* The tick. *)

NothingShown == [success |-> None, scheduler |-> "unavailable", schedulerAt |-> 0, live |-> 0, counted |-> NoTick.facts,
                 occupancy |-> {}, silences |-> {}, retrying |-> 0, letters |-> {},
                 operations |-> "unavailable", operationsAt |-> 0]

Init ==
  /\ clock = 0
  /\ last = [k \in Keys |-> None]
  /\ exits = [d \in Demands |-> None]
  /\ counts = [c \in Components \X (Reasons \cup {None}) |-> 0]
  /\ pc = "idle"
  /\ tick = NoTick
  /\ shown = NothingShown
  /\ raised = {} /\ said = {} /\ named = {} /\ drained = {}
  /\ refused = FALSE

Advance ==
  /\ \E t \in Nat : t > clock /\ clock' = t
  /\ UNCHANGED <<last, exits, counts, pc, tick, shown, raised, said, named, drained, refused>>

\* The engine's tick returned an error: RecordTick keeps the last successful
\* tick, the scheduler observation is unavailable, and nothing else is published.
TickFails ==
  /\ pc = "idle"
  /\ shown' = [shown EXCEPT !.scheduler = "unavailable", !.schedulerAt = clock]
  /\ UNCHANGED <<clock, last, exits, counts, pc, tick, raised, said, named, drained, refused>>

\* The engine's tick returned a result: RecordTick, and the scheduler
\* observation is fresh when the plan is ready and stale when it is blocked.
TickReturns ==
  /\ pc = "idle"
  /\ \E r \in Result :
       /\ PlannedOnVerdict(r)
       /\ tick' = [at |-> r.at, facts |-> r.facts, plan |-> r.plan, ready |-> r.ready,
                   holds |-> r.holds, letters |-> {}, retrying |-> 0]
       /\ shown' = [shown EXCEPT !.success = IF r.ready THEN clock ELSE @,
                                 !.scheduler = IF r.ready THEN "fresh" ELSE "stale",
                                 !.schedulerAt = clock]
  /\ pc' = "count"
  /\ UNCHANGED <<clock, last, exits, counts, raised, said, named, drained, refused>>

\* recordMetrics, first half: SetInstances for every configured profile.
CountInstances ==
  /\ pc = "count"
  /\ shown' = [shown EXCEPT !.live = Cardinality(Counted(tick)), !.counted = tick.facts]
  /\ pc' = "speak"
  /\ UNCHANGED <<clock, last, exits, counts, tick, raised, said, named, drained, refused>>

\* recordMetrics, second half: recordOccupancy, recordGuestLiveness,
\* recordRecoveries and recordEmptyExitBackoffs publish their sets and say
\* their lines.
Speak ==
  /\ pc = "speak"
  /\ shown' = [shown EXCEPT !.occupancy = SetOccupancy(tick), !.silences = SetGuestSilences(tick)]
  /\ Say(TickKeys(tick))
  /\ named' = named \cup OccupancyReclaims(tick) \cup GuestReclaims(tick) \cup RecoveryLines(tick)
                    \cup HoldLines(tick)
  /\ exits' = tick.holds
  /\ drained' = drained \cup Said(VerdictsOf(tick.plan))
  /\ pc' = "read"
  /\ UNCHANGED <<clock, counts, tick, refused>>

\* One of the four durable reads failed, or the cleanup recovery that follows
\* them did: the observation is degraded and every published row is kept.
ReadFails ==
  /\ pc = "read"
  /\ shown' = [shown EXCEPT !.operations = "unavailable", !.operationsAt = clock]
  /\ pc' = "idle"
  /\ UNCHANGED <<clock, last, exits, counts, tick, raised, said, named, drained, refused>>

\* All four were read.
ReadReturns ==
  /\ pc = "read"
  /\ \E letters \in SUBSET Letter, retrying \in Nat :
       tick' = [tick EXCEPT !.letters = letters, !.retrying = retrying]
  /\ pc' = "operations"
  /\ UNCHANGED <<clock, last, exits, counts, shown, raised, said, named, drained, refused>>

\* SetOperations, then SetDeadLetters, then the observation, each under a lock
\* of its own; the failure and the stall sets, which no reader here compares
\* with another, are published beside them.
SetOperations ==
  /\ pc = "operations"
  /\ shown' = [shown EXCEPT !.retrying = tick.retrying]
  /\ pc' = "letters"
  /\ UNCHANGED <<clock, last, exits, counts, tick, raised, said, named, drained, refused>>

SetDeadLetters ==
  /\ pc = "letters"
  /\ refused' = (Cardinality(tick.letters) > MaxRows)
  /\ shown' = [shown EXCEPT !.letters = IF refused' THEN @ ELSE DeadLetterMetrics(tick, tick.letters)]
  /\ pc' = "fresh"
  /\ UNCHANGED <<clock, last, exits, counts, tick, raised, said, named, drained>>

MarkFresh ==
  /\ pc = "fresh"
  /\ shown' = [shown EXCEPT !.operations = "fresh", !.operationsAt = clock]
  /\ pc' = "idle"
  /\ UNCHANGED <<clock, last, exits, counts, tick, raised, said, named, drained, refused>>

\* A component loop failed: counted on every occurrence, said once a window.
RecordComponentFailure(c, reason) == counts' = [counts EXCEPT ![<<c, reason>>] = @ + 1]
Report(c, reason) ==
  /\ RecordComponentFailure(c, reason)
  /\ Say({<<"component", c, reason>>})
  /\ UNCHANGED <<clock, exits, pc, tick, shown, named, drained, refused>>

\* A REST reconcile or a binding's ingest failed: said, not counted.
ReportReconcile(o, reason) ==
  /\ Say({<<"reconcile", o, reason>>})
  /\ UNCHANGED <<clock, exits, counts, pc, tick, shown, named, drained, refused>>

ReportBinding(o, reason) ==
  /\ Say({<<"binding", o, reason>>})
  /\ UNCHANGED <<clock, exits, counts, pc, tick, shown, named, drained, refused>>

Next ==
  \/ Advance
  \/ TickFails \/ TickReturns
  \/ CountInstances \/ Speak
  \/ ReadFails \/ ReadReturns \/ SetOperations \/ SetDeadLetters \/ MarkFresh
  \/ \E c \in Components, reason \in Reasons \cup {None} : Report(c, reason)
  \/ \E o \in Observations, reason \in Reasons : ReportReconcile(o, reason) \/ ReportBinding(o, reason)

Spec == Init /\ [][Next]_vars

-----------------------------------------------------------------------------
(* The quiescence gate of an update: ensureQuiescent over one status document, *)
(* which must say the daemon healthy.                                          *)

Healthy ==
  /\ shown.success # None /\ clock - shown.success <= TickTTL
  /\ shown.scheduler = "fresh" /\ clock - shown.schedulerAt <= ObservationTTL
  /\ shown.operations = "fresh" /\ clock - shown.operationsAt <= ObservationTTL
ParkedResources == {l.resource : l \in {m \in shown.letters : m.parked}}
Quiescent == Healthy /\ shown.retrying = 0 /\ shown.live <= Cardinality(ParkedResources)

-----------------------------------------------------------------------------
(* Properties *)

\* Every condition reported through the limiter has a line of its own key less
\* than one window older than the report: admit suppresses a repetition, and
\* never the first report of a changed reason or of an escalated state.
NothingGoesUnsaid == \A c \in raised : \E l \in said :
  l.key = c.key /\ l.at <= c.at /\ c.at - l.at < Window

\* Two lines of one key are at least a window apart, whichever loops and ticks
\* raised them: admit is what keeps a hot loop from drowning the log.
NeverDrowned == \A l, m \in said : l.key = m.key /\ l.at < m.at => m.at - l.at >= Window

\* A reclaim that ends a job on a verdict, an unanswering guest or an exceeded
\* occupancy budget, has the verdict's own line in the log less than a window
\* before it: recordGuestLiveness and recordOccupancy say what the plan was made
\* from, and the warning that preceded the verdict does not stand in for it.
DrainIsAnnounced == \A d \in drained : \E l \in said :
  l.key = d.key /\ l.at <= d.at /\ d.at - l.at < Window

\* ensureQuiescent never counts a guest that may be working as parked: outside
\* the steps of Tick between SetInstances and SetDeadLetters, when the last
\* letters were accepted and every parked one is of a configured profile, a
\* document the gate accepts shows only machines its own tick proved idle.
GateDefersToRunning ==
  /\ Quiescent
  /\ pc \notin {"speak", "read", "operations", "letters"}
  /\ ~refused
  /\ \A i \in ParkedResources : shown.counted[i].profile \in Profiles
  => \A i \in Instances :
       Live(shown.counted[i]) /\ shown.counted[i].profile \in Profiles => ProvenIdle(shown.counted[i])
=============================================================================
