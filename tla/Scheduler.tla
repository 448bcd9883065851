----------------------------- MODULE Scheduler -----------------------------
(***************************************************************************)
(* One node's admission over many ticks: the planner (module Planner), the *)
(* commit of its plan (reconcile.Controller), the guests the plan starts   *)
(* and drains, and GitHub, which queues jobs, hands a job to any idle      *)
(* runner of its scale set and sees jobs end.                              *)
(*                                                                         *)
(* The inside of a guest's lifecycle is modules Outbox and Lifecycle; here *)
(* a guest is the states the planner tells apart.                          *)
(***************************************************************************)
EXTENDS Planner

CONSTANTS Nodes,       \* scheduler.Config, with the jobs and the mishaps a node will see
          MaxAge,      \* ages stop growing here
          MaxSpawns,   \* bound: guests ever named after one demand
          Endless      \* TRUE: a finished job may be queued again

Demands == DOMAIN Job
GuestNames == Demands \X (1 .. MaxSpawns)

VARIABLES cfg,      \* the node's configuration
          job,      \* [Demands -> what GitHub says of the job]
          line,     \* unfinished demands, in order of creation
          age,      \* how long each demand has waited
          inst,     \* the instance rows: [id, demand, state, power, late, deps]
          prior,    \* scheduler.State
          pressed,  \* the host probe finds no idle CPU
          refused,  \* history: a plan was refused as a whole
          crossed,  \* history: a drain was abandoned because a job had landed
          left,     \* mishaps still to come: [press, faults, cancels, forget]
          beat      \* flips with every tick

vars == <<cfg, job, line, age, inst, prior, pressed, refused, crossed, left, beat>>
world == <<cfg, pressed, refused, crossed, left, beat>>

Init == /\ cfg \in Nodes
        /\ job = [d \in Demands |-> "new"] /\ line = <<>>
        /\ age = [d \in Demands |-> 0]
        /\ inst = {} /\ prior = NoState
        /\ pressed = FALSE /\ refused = FALSE /\ crossed = FALSE
        /\ left = cfg.mishaps /\ beat = FALSE

----------------------------------------------------------------------------
(* GitHub.                                                                 *)
Arrive(d) ==
  /\ \/ job[d] = "new"
     \/ Endless /\ job[d] = "done" /\ \A i \in inst : i.demand # d
  /\ d \in cfg.jobs
  /\ job' = [job EXCEPT ![d] = "queued"] /\ line' = Append(line, d)
  /\ age' = [age EXCEPT ![d] = 0]
  /\ UNCHANGED <<inst, prior, world>>

Finish(d) == /\ job' = [job EXCEPT ![d] = "done"]
             /\ line' = SelectSeq(line, LAMBDA e : e # d)

Cancel(d) == /\ job[d] = "queued" /\ left.cancels > 0
             /\ Finish(d) /\ left' = [left EXCEPT !.cancels = @ - 1]
             /\ UNCHANGED <<cfg, age, inst, prior, pressed, refused, crossed, beat>>

Clock == /\ \E d \in ToSet(line) : age[d] < MaxAge
         /\ age' = [d \in Demands |-> IF d \in ToSet(line) THEN Min({age[d] + 1, MaxAge}) ELSE age[d]]
         /\ UNCHANGED <<job, line, inst, prior, world>>

Press == /\ ~pressed /\ left.press > 0
         /\ pressed' = TRUE /\ left' = [left EXCEPT !.press = @ - 1]
         /\ UNCHANGED <<cfg, job, line, age, inst, prior, refused, crossed, beat>>
Relieve == /\ pressed /\ pressed' = FALSE
           /\ UNCHANGED <<cfg, job, line, age, inst, prior, refused, crossed, left, beat>>

\* The scheduler_state row is lost and the next tick reseeds it.
ReseedSchedulerState ==
  /\ left.forget > 0 /\ prior' = NoState /\ left' = [left EXCEPT !.forget = @ - 1]
  /\ UNCHANGED <<cfg, job, line, age, inst, pressed, refused, crossed, beat>>

----------------------------------------------------------------------------
(* A guest, step by step.                                                  *)
Set(i, j) == inst' = (inst \ {i}) \cup {j}
Settled(S, n) == {[i EXCEPT !.deps = @ \ {n}] : i \in S}

\* The spawn's operation runs once the drains it depends on are settled.
Start(i) == /\ i.state = "planned" /\ i.deps = {}
            /\ Set(i, [i EXCEPT !.state = "booting"])
            /\ UNCHANGED <<job, line, age, prior, world>>
Register(i) == /\ i.state = "booting" /\ ~i.late
               /\ Set(i, [i EXCEPT !.state = "online_idle"])
               /\ UNCHANGED <<job, line, age, prior, world>>
\* The job ends and the runner's own drain begins.
End(i) == /\ i.state = "running" /\ i.power = "running"
          /\ Finish(i.demand)
          /\ Set(i, [i EXCEPT !.state = "deregistering"])
          /\ UNCHANGED <<age, prior, world>>

\* A drain ends what its guest was doing. GitHub fails the job of a runner
\* that vanished; a job no runner had begun stays queued.
Deregister(i) ==
  /\ i.state = "draining"
  /\ Set(i, [i EXCEPT !.state = "deregistering"])
  /\ IF job[i.demand] = "taken" THEN Finish(i.demand) ELSE UNCHANGED <<job, line>>
  /\ UNCHANGED <<age, prior, world>>
Stop(i) == /\ i.state = "deregistering"
           /\ Set(i, [i EXCEPT !.state = "stopping", !.power = "stopped"])
           /\ UNCHANGED <<job, line, age, prior, world>>
Delete(i) == /\ i.state = "stopping"
             /\ inst' = Settled(inst \ {i}, i.id)
             /\ UNCHANGED <<job, line, age, prior, world>>

Fail(i) ==
  /\ left.faults > 0
  /\ \/ i.state = "booting" /\ ~i.late /\ Set(i, [i EXCEPT !.late = TRUE])
     \/ i.state = "running" /\ i.power = "running" /\ Set(i, [i EXCEPT !.power = "stopped"])
  /\ left' = [left EXCEPT !.faults = @ - 1]
  /\ UNCHANGED <<cfg, job, line, age, prior, pressed, refused, crossed, beat>>

----------------------------------------------------------------------------
(* GitHub hands a queued job to a runner of its scale set, and the binding *)
(* follows (alignRunnerDemand): two runners swap, or one is rebound and    *)
(* the demand it was started for is waiting again.                         *)
ScaleSet(d) == <<Job[d].scope, Job[d].profile>>
Align(i, d, j) ==
  {IF k = i THEN j
   ELSE IF k.demand = d THEN [k EXCEPT !.demand = i.demand] ELSE k : k \in inst}
Assign(i, d) ==
  /\ i.state = "online_idle" /\ job[d] = "queued" /\ ScaleSet(d) = ScaleSet(i.demand)
  /\ job' = [job EXCEPT ![d] = "taken"]
  /\ inst' = Align(i, d, [i EXCEPT !.state = "running", !.demand = d])
  /\ UNCHANGED <<line, age, prior, world>>
\* The job lands on a runner whose drain was already committed: the drain
\* reads the runner busy and is abandoned, which settles its operation.
Abandon(i, d) ==
  /\ i.state = "draining" /\ i.power = "running" /\ job[i.demand] # "taken" /\ ~i.late
  /\ job[d] = "queued" /\ ScaleSet(d) = ScaleSet(i.demand)
  /\ job' = [job EXCEPT ![d] = "taken"]
  /\ inst' = Settled(Align(i, d, [i EXCEPT !.state = "running", !.demand = d]), i.id)
  /\ crossed' = TRUE
  /\ UNCHANGED <<cfg, line, age, prior, pressed, refused, left, beat>>

----------------------------------------------------------------------------
(* The tick: observe, plan, commit.                                        *)
View(i) ==
  [id |-> i.id, demand |-> i.demand, repo |-> Job[i.demand].repo,
   scope |-> Job[i.demand].scope, profile |-> Job[i.demand].profile,
   res |-> cfg.profiles[Job[i.demand].profile].res, state |-> i.state, power |-> i.power,
   late |-> i.late, charge |-> FALSE, ready |-> FALSE, inactive |-> FALSE,
   over |-> FALSE, dead |-> FALSE]
\* The probe's reading is net of what runs here: pressed, no CPU is idle.
Available == [cfg.total EXCEPT !.cpu = IF pressed THEN 0 ELSE @]
\* mutant
QueuedDemands == {d \in ToSet(line) : job[d] = "queued"}
PlannableDemands ==
  {d \in ToSet(line) : job[d] = "queued" /\ \A i \in inst : i.demand # d}
\* A scale set without usable statistics admits its oldest demand alone: the
\* runner it starts is what brings new statistics (blind: none ever come).
Trickle(S) == {d \in S : \A e \in S : ScaleSet(e) = ScaleSet(d) => Index(line, d) <= Index(line, e)}
Schedulable == IF cfg.blind THEN Trickle(PlannableDemands) ELSE PlannableDemands
Input ==
  [cfg |-> cfg, demands |-> Schedulable,
   since |-> [d \in Demands |-> IF d \in ToSet(line) THEN Index(line, d) ELSE 0],
   age |-> age, inst |-> {View(i) : i \in inst},
   avail |-> Available, total |-> cfg.total, prior |-> prior]

\* An identity that supersedes the demand's spent incarnations.
FreshName(d) == CHOOSE n \in GuestNames :
                  /\ n[1] = d /\ \A i \in inst : i.id # n
                  /\ \A k \in 1 .. n[2] - 1 : \E i \in inst : i.id = <<d, k>>
NewInstance(o) ==
  [id |-> FreshName(o.demand), demand |-> o.demand, state |-> "planned",
   power |-> "running", late |-> FALSE, deps |-> o.deps]
\* translate: what a drain may find its instance in.
DrainableFrom(o) == IF o.cause = "none" THEN {"online_idle"}
                    ELSE IF o.cause = "provision_stalled" THEN {"booting"}
                    ELSE {"assigned", "running"}
\* A plan commits whole or not at all: an instance identity is a primary key.
Committable(ops) ==
  /\ \A k, l \in DOMAIN ops : k # l => \/ ops[k].demand # ops[l].demand
                                       \/ ops[k].inst # ops[l].inst
  /\ \A o \in ToSet(ops) :
       IF o.kind = "spawn" THEN \A i \in inst : i.demand # o.demand
       ELSE \E i \in inst : i.id = o.inst /\ i.state \in DrainableFrom(o)
Applied(ops) ==
  LET drained == {o.inst : o \in {p \in ToSet(ops) : p.kind = "drain"}}
  IN {IF i.id \in drained THEN [i EXCEPT !.state = "draining"] ELSE i : i \in inst}
       \cup {NewInstance(o) : o \in {p \in ToSet(ops) : p.kind = "spawn"}}

Commit(plan) ==
  IF Committable(plan.ops)
  THEN inst' = Applied(plan.ops) /\ prior' = plan.next /\ UNCHANGED refused
  ELSE refused' = TRUE /\ UNCHANGED <<inst, prior>>
Tick == /\ Commit(PlanTick(Input))
        /\ UNCHANGED <<cfg, job, line, age, pressed, crossed, left>>
        /\ beat' = ~beat

Guest(i) == Start(i) \/ Register(i) \/ End(i) \/ Deregister(i) \/ Stop(i) \/ Delete(i)
Next ==
  \/ \E d \in Demands : Arrive(d) \/ Cancel(d)
  \/ Clock \/ Press \/ Relieve \/ ReseedSchedulerState \/ Tick
  \/ \E i \in inst : Guest(i) \/ Fail(i)
  \/ \E i \in inst, d \in Demands : Assign(i, d) \/ Abandon(i, d)

Fairness ==
  /\ WF_vars(Clock) /\ WF_vars(Relieve) /\ []<><<TRUE>>_beat
  /\ WF_vars(\E i \in inst : Guest(i))
  /\ SF_vars(\E i \in inst, d \in Demands : Assign(i, d))
Spec == Init /\ [][Next]_vars /\ Fairness
\* The same, and no guest and no runner is left behind by the others.
EachFairly ==
  \A n \in GuestNames :
    /\ WF_vars(\E i \in inst : i.id = n /\ Guest(i))
    /\ SF_vars(\E i \in inst, d \in Demands : i.id = n /\ Assign(i, d))
FairSpec == Spec /\ EachFairly

----------------------------------------------------------------------------
(* Properties.                                                             *)
\* A plan is never refused: no tick admits a demand twice, or one a live
\* instance serves, or drains what it may not (issue #121, ADR 0027).
PlansAlwaysApply == ~refused

\* Guests that hold the host: a planned one holds nothing yet.
Hosted == {View(i) : i \in {j \in inst : j.state # "planned"}}
EnvelopeHolds ==
  LET live == LiveResources(Hosted)
      linux == LiveResources({i \in Hosted : PlatformOf([cfg |-> cfg], i) = "linux"})
      Within(v, bound) == \A x \in Dims : bound[x] > 0 => v[x] <= bound[x]
  IN /\ Within(live, cfg.budget)
     /\ IF cfg.elastic THEN Within(linux, cfg.capacity) /\ Within(live, cfg.total)
        ELSE Within(live, cfg.capacity)
\* The guests a node runs never hold more than its envelope, whatever the
\* order of ticks, handoffs, backfill and second passes (ADR 0031, g).
Conserved == ~crossed => EnvelopeHolds

MacProfiles == {i.profile : i \in {j \in Consuming(Hosted) : PlatformOf([cfg |-> cfg], j) = "macos"}}
\* Without mixedProfileCohorts, macOS guests of two profiles never run side
\* by side (the single-cohort invariant planExclusiveAdmission relies on).
SingleCohort == ~crossed /\ ~cfg.cohorts => Cardinality(MacProfiles) <= 1

StillHeads(h) ==
  prior.res = h /\ ReservationStillHeadsQueue(Input, SetToSeq(PlannableDemands), h)
Precedes(d, h) ==
  LET q == AgedQueueOrder(Input, {e \in PlannableDemands : Aged(Input, e)})
  IN {d, h} \subseteq ToSet(q) /\ Index(q, d) < Index(q, h)
Started == {i \in inst' : \A j \in inst : j.id # i.id}
\* No tick that leaves the reserved head waiting starts, behind it, a Linux
\* job of its size or larger that does not fit beside it: whichever pass
\* admits, "no equal-or-larger job can jump the queue" (ADR 0017).
HeadNotJumped ==
  [][prior'.res \in PlannableDemands /\ (\A i \in Started : i.demand # prior'.res) =>
       \A i \in Started :
         \/ PlatformOf(Input, Job[i.demand]) # "linux"
         \/ ~StillHeads(prior'.res) /\ Precedes(i.demand, prior'.res)
         \/ ~CanFit(Vector(Input, i.demand), Vector(Input, prior'.res))
         \/ FitsBeside(Input, prior'.res, LinuxFree(Input), i.demand)]_vars

\* While arrivals stop, every queued job is eventually done: no handoff,
\* reservation or drain leaves the node waiting on itself.
EveryDemandServed == \A d \in Demands : (job[d] = "queued") ~> (job[d] = "done")

\* "Aged work wins global FIFO and cannot starve" (USAGE.md): under an endless
\* stream of smaller jobs, a queued job is still given a runner.
AgedWorkStarts == \A d \in Demands : (job[d] = "queued") ~> (job[d] # "queued")
=============================================================================
