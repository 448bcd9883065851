------------------------------ MODULE Planner ------------------------------
(***************************************************************************)
(* The admission planner: package scheduler as pure operators.             *)
(*                                                                         *)
(* PlanTick maps one tick's input to a plan: the operations to commit and  *)
(* the scheduler state to carry to the next tick. An input is              *)
(*   cfg      scheduler.Config (capacity, flags, caps, profiles)           *)
(*   demands  the demands waiting for a runner, a set                      *)
(*   since    CreatedAt of each, as a place in the order of creation       *)
(*   age      how long each has waited                                     *)
(*   inst     the observed instances, a set of records                     *)
(*   avail, total   Host.Available and Host.Capacity                       *)
(*   prior    scheduler.State of the previous tick                         *)
(* A queue is a sequence of demands. Repositories are numbers, since the   *)
(* round robin visits them in the order of their names.                    *)
(***************************************************************************)
EXTENDS Integers, Sequences, FiniteSets, SequencesExt, FiniteSetsExt

CONSTANTS Job,                \* demand -> [repo, scope, profile, pull, rank]
          AdmissionsPerTick   \* the planner's own bound on one pass

ASSUME PlannerAssumption == AdmissionsPerTick \in Nat \ {0}

NoDemand == "none"
NoGuest == <<NoDemand, 0>>
NoHandoff == [demand |-> NoDemand, backfill |-> FALSE]
NoState == [res |-> NoDemand, cursor |-> 0, mac |-> NoHandoff, lin |-> NoHandoff]
Repos == {Job[d].repo : d \in DOMAIN Job}

----------------------------------------------------------------------------
(* Resource vectors.                                                       *)
Dims == {"cpu", "mem", "slots"}
Zero == [x \in Dims |-> 0]
CanFit(r, q) == \A x \in Dims : r[x] >= q[x]
Sub(r, q) == [x \in Dims |-> r[x] - q[x]]
SubOrZero(r, q) == IF CanFit(r, q) THEN Sub(r, q) ELSE Zero
MinResources(r, q) == [x \in Dims |-> Min({r[x], q[x]})]
Paced(r) == [r EXCEPT !.slots = Min({@, AdmissionsPerTick})]
\* physicalBound: a total of zero or less is an undeclared bound.
Bounded(free, total, live) ==
  [x \in Dims |-> IF total[x] <= 0 THEN free[x]
                  ELSE Min({free[x], Max({0, total[x] - live[x]})})]
TotalOf(V(_), S) == [x \in Dims |-> MapThenSumSet(LAMBDA s : V(s)[x], S)]

Profile(in, d) == in.cfg.profiles[Job[d].profile]
Vector(in, d) == Profile(in, d).res
PlatformOf(in, i) == in.cfg.profiles[i.profile].platform
Cap(in, r) == IF in.cfg.caps[r] > 0 THEN in.cfg.caps[r] ELSE 1
Index(q, d) == CHOOSE k \in DOMAIN q : q[k] = d
OfProfile(q, p) == SelectSeq(q, LAMBDA d : Job[d].profile = p)

----------------------------------------------------------------------------
(* What an instance holds.                                                 *)
TearingDown(s) == s \in {"draining", "deregistering", "stopping"}
ProvenIdle(p) == p \in {"stopped", "absent"}
ConsumesHostResources(i) ==
  \/ ~TearingDown(i.state) \/ ~ProvenIdle(i.power)
  \/ i.power # "absent" /\ i.state # "stopping"
IncarnatesDemand(i) == i.demand # NoDemand /\ i.state # "failed"
HoldsAssignment(i) == IncarnatesDemand(i) /\ ~TearingDown(i.state)

Consuming(inst) == {i \in inst : ConsumesHostResources(i)}
\* DeriveHostMode: the platforms that hold the host. {} is idle, two are mixed.
HostMode(in) == {PlatformOf(in, i) : i \in Consuming(in.inst)}
LiveResources(inst) == TotalOf(LAMBDA i : i.res, Consuming(inst))

ElasticFree(in, physical, aged) ==
  MinResources(physical, IF aged THEN [in.avail EXCEPT !.cpu = physical.cpu] ELSE in.avail)
FreeBeside(in, live, linux, aged) ==
  Bounded(IF in.cfg.elastic
          THEN ElasticFree(in, Bounded(SubOrZero(in.cfg.capacity, linux), in.total, live), aged)
          ELSE MinResources(SubOrZero(in.cfg.capacity, live), in.avail),
          in.cfg.budget, live)
FreeCapacity(in, inst, aged) ==
  FreeBeside(in, LiveResources(inst),
             LiveResources({i \in inst : PlatformOf(in, i) = "linux"}), aged)
LinuxFree(in) == FreeCapacity(in, in.inst, FALSE)
LinuxFreeAged(in) == FreeCapacity(in, in.inst, TRUE)

\* An idle runner and one past deregistration have given up their place.
HoldsRepoSlot(i) == i.state \notin {"online_idle", "deregistering", "stopping", "failed"}
ActiveRepoCounts(inst) ==
  [r \in Repos |-> Cardinality({i \in inst : HoldsRepoSlot(i) /\ i.repo = r})]
Charged(counts, S) ==
  [r \in Repos |-> counts[r] + Cardinality({d \in S : Job[d].repo = r})]
ActiveScopeCount(inst, s) == Cardinality({i \in Consuming(inst) : ~i.charge /\ i.scope = s})
ActiveMacProfiles(in) ==
  {i.profile : i \in {j \in Consuming(in.inst) : PlatformOf(in, j) = "macos"}}
MacActive(in, p) ==
  Cardinality({i \in Consuming(in.inst) : i.profile = p})

----------------------------------------------------------------------------
(* The order of the queue: aged work by tier, fair share and age; young    *)
(* work by class, tier, event, cost and a round robin over repositories.   *)
Aged(in, d) == in.cfg.fairness > 0 /\ in.age[d] >= in.cfg.fairness
EffectiveTier(in, d) ==
  Job[d].rank + (IF in.cfg.escalation > 0 THEN in.age[d] \div in.cfg.escalation ELSE 0)
Older(in, d, e) == in.since[d] < in.since[e]
LexLess(k, l) == \E n \in DOMAIN k : k[n] < l[n] /\ \A m \in 1 .. n - 1 : k[m] = l[m]
\* The members of S by their keys, which are all different.
Ranked(S, key) ==
  [k \in 1 .. Cardinality(S) |->
     CHOOSE d \in S : Cardinality({e \in S : LexLess(key[e], key[d])}) = k - 1]
InOrder(q, S) == SelectSeq(q, LAMBDA d : d \in S)

ByTier(in, S) == Ranked(S, [d \in S |-> <<-EffectiveTier(in, d), in.since[d]>>])
\* The places of a queue that compete for one profile's capacity: a demand of
\* another platform between two places parts them.
Segment(in, q, k) ==
  {j \in DOMAIN q :
     /\ Job[q[j]].profile = Job[q[k]].profile
     /\ \A m \in Min({j, k}) .. Max({j, k}) :
          Profile(in, q[m]).platform = Profile(in, q[k]).platform}
FairShareRank(in, q, k) ==
  ActiveScopeCount(in.inst, Job[q[k]].scope)
    + Cardinality({j \in 1 .. k - 1 : Job[q[j]].scope = Job[q[k]].scope})
FairShareKey(in, q, k) == <<-EffectiveTier(in, q[k]), FairShareRank(in, q, k), k>>
ByScopeFairShare(in, q) ==
  [k \in DOMAIN q |->
     LET seg == Segment(in, q, k)
     IN q[Ranked(seg, [j \in seg |-> FairShareKey(in, q, j)])[Cardinality({j \in seg : j <= k})]]]
AgedOrder(in) == ByScopeFairShare(in, ByTier(in, {d \in in.demands : Aged(in, d)}))
\* Every caller ranks a part of the queue by its place in the whole of it.
AgedQueueOrder(in, S) == InOrder(AgedOrder(in), S)

Weighed(cap, v) == Max({v[x] * FoldSet(LAMBDA y, p : cap[y] * p, 1, Dims \ {x}) : x \in Dims})
DominantShare(in, v) == Weighed([x \in Dims |-> Max({in.cfg.capacity[x], 1})], v)
ControlPlane(in, d) == in.cfg.control[Job[d].repo]
\* The demands that compete with d in one bucket, and the turn of its
\* repository: fairOrder starts after the repository served last.
Bucket(in, S, d) ==
  {e \in S : /\ ControlPlane(in, e) = ControlPlane(in, d)
             /\ Job[e].pull = Job[d].pull /\ Vector(in, e) = Vector(in, d)}
Place(repos, r) == Cardinality({s \in repos : s < r})
Turn(repos, r, cursor) ==
  IF cursor \in repos THEN (Place(repos, r) - Place(repos, cursor) - 1) % Cardinality(repos)
  ELSE Place(repos, r)
Round(in, B, d) == Cardinality({e \in B : Job[e].repo = Job[d].repo /\ Older(in, e, d)})
YoungKey(in, d, v, B) ==
  <<IF ControlPlane(in, d) THEN 0 ELSE 1, -EffectiveTier(in, d),
    IF Job[d].pull THEN 0 ELSE 1, DominantShare(in, v), v.cpu, v.mem, v.slots,
    Round(in, B, d), Turn({Job[e].repo : e \in B}, Job[d].repo, in.prior.cursor)>>
YoungOrder(in, S) == Ranked(S, [d \in S |-> YoungKey(in, d, Vector(in, d), Bucket(in, S, d))])

PriorityOrder(in, S) ==
  AgedQueueOrder(in, {d \in S : Aged(in, d)}) \o YoungOrder(in, {d \in S : ~Aged(in, d)})

----------------------------------------------------------------------------
(* exactSelect: of all admissible subsets of a ranked queue, the best one, *)
(* judged band by band. A band is a scheduling band and, in it, a tier.    *)
SchedulingBand(in, d) == IF Aged(in, d) THEN 0 ELSE IF ControlPlane(in, d) THEN 1 ELSE 2
BandLess(in, d, e) == LexLess(<<SchedulingBand(in, d), -EffectiveTier(in, d)>>,
                              <<SchedulingBand(in, e), -EffectiveTier(in, e)>>)
Admissible(in, S, free, counts) ==
  /\ Cardinality(S) <= Min({free.slots, AdmissionsPerTick})
  /\ CanFit(free, TotalOf(LAMBDA d : Vector(in, d), S))
  /\ \A d \in S : Charged(counts, S)[Job[d].repo] <= Cap(in, Job[d].repo)
\* The first band in which two choices differ: more of it wins, then the
\* earlier places of the queue.
TopOf(in, S) == CHOOSE d \in S : \A e \in S : ~BandLess(in, e, d)
Band(in, S, top) == {d \in S : ~BandLess(in, d, top) /\ ~BandLess(in, top, d)}
FirstOf(q, S) == CHOOSE d \in S : \A e \in S : Index(q, d) <= Index(q, e)
BetterBand(q, C, I) ==
  \/ Cardinality(C) > Cardinality(I)
  \/ Cardinality(C) = Cardinality(I) /\ FirstOf(q, SymDiff(C, I)) \in C
BetterFrom(in, q, C, I, top) == BetterBand(q, Band(in, C, top), Band(in, I, top))
BetterAdmission(in, q, C, I) == C # I /\ BetterFrom(in, q, C, I, TopOf(in, SymDiff(C, I)))
BestOf(in, q, all) ==
  IF all = {} THEN {} ELSE CHOOSE S \in all : \A T \in all : ~BetterAdmission(in, q, T, S)
ExactSelect(in, q, free, counts) ==
  InOrder(q, BestOf(in, q, {S \in SUBSET ToSet(q) : Admissible(in, S, free, counts)}))

----------------------------------------------------------------------------
(* Plans. A spawn names the drains it waits for.                           *)
Spawn(d, deps) == [kind |-> "spawn", demand |-> d, inst |-> NoGuest, deps |-> deps, cause |-> "none"]
Drain(n, cause) == [kind |-> "drain", demand |-> NoDemand, inst |-> n, deps |-> {}, cause |-> cause]
NewPlan(next) == [ops |-> <<>>, next |-> next]
Spawned(ops) == {o.demand : o \in {p \in ToSet(ops) : p.kind = "spawn"}}
ContainsSpawn(ops) == Spawned(ops) # {}
ContainsDrain(ops) == \E o \in ToSet(ops) : o.kind = "drain"
After(plan, n) == SubSeq(plan.ops, n + 1, Len(plan.ops))
AppendSpawns(plan, q, deps) ==
  [plan EXCEPT !.ops = @ \o [k \in DOMAIN q |-> Spawn(q[k], deps)]]
TakeTurn(plan, q) ==
  IF q = <<>> THEN plan ELSE [plan EXCEPT !.next.cursor = Job[Last(q)].repo]
AppendDrains(plan, S) ==
  [plan EXCEPT !.ops = @ \o SetToSeq({Drain(i.id, "none") : i \in S})]
Names(S) == {i.id : i \in S}
Without(in, S) == [in EXCEPT !.inst = @ \ S]

DemandsAwaitingAdmission(q, ops) == SelectSeq(q, LAMBDA d : d \notin Spawned(ops))
PlannedInstance(in, d, charge) ==
  [id |-> <<d, IF charge THEN -1 ELSE 0>>, demand |-> d, repo |-> Job[d].repo, scope |-> Job[d].scope,
   profile |-> Job[d].profile, state |-> "planned", power |-> "running",
   res |-> IF charge THEN Zero ELSE Vector(in, d), charge |-> charge]
AppendPlannedSpawns(in, ops) ==
  in.inst \cup {PlannedInstance(in, d, FALSE) : d \in Spawned(ops)}
\* The reserved head is charged its repository slot and no resources.
ChargeReservedHead(in, head) ==
  IF head = NoDemand THEN in
  ELSE [in EXCEPT !.inst = @ \cup {PlannedInstance(in, head, TRUE)}]

----------------------------------------------------------------------------
(* Who may pass a waiting head.                                            *)
FitsBeside(in, head, free, d) ==
  CanFit(free, Vector(in, head)) /\ CanFit(Sub(free, Vector(in, head)), Vector(in, d))
\* mutant
JumpsNever(in, head, free, d) == FALSE
JumpsTheReservedHead(in, head, free, d) ==
  ~FitsBeside(in, head, free, d) /\ CanFit(Vector(in, d), Vector(in, head))

OutranksReservation(in, d, head) ==
  LexLess(<<-EffectiveTier(in, d), in.since[d]>>, <<-EffectiveTier(in, head), in.since[head]>>)
ReservationStillHeadsQueue(in, q, head) ==
  \A d \in ToSet(q) \ {head} : Aged(in, d) => ~OutranksReservation(in, d, head)

SafeBackfill(in, q, free, counts, head, chosen) ==
  LET candidates == {d \in ToSet(q) \ (chosen \cup {head}) :
                       ~JumpsTheReservedHead(in, head, free, d)}
  IN ExactSelect(in, PriorityOrder(in, candidates), free, Charged(counts, chosen))

ForeignQueue(in, plan, platform) ==
  {d \in in.demands : /\ Profile(in, d).platform = platform
                      /\ \A i \in in.inst : IncarnatesDemand(i) => i.demand # d
                      /\ d \notin Spawned(plan.ops)}
\* rank orders the whole queue and head is the foreign one's.
Passes(in, rank, head, free, d) ==
  /\ Aged(in, head) /\ Index(rank, d) > Index(rank, head)
  /\ JumpsTheReservedHead(in, head, free, d)
NotPassing(in, q, rank, head, free) ==
  SelectSeq(q, LAMBDA d : ~Passes(in, rank, head, free, d))
BesideAgedForeignHead(in, q, foreign) ==
  IF in.cfg.exclusive \/ foreign = {} THEN q
  ELSE NotPassing(in, q, PriorityOrder(in, in.demands), Head(PriorityOrder(in, foreign)),
                  LinuxFreeAged(in))

NotJumping(in, q, head, free) ==
  SelectSeq(q, LAMBDA d : ~JumpsTheReservedHead(in, head, free, d))
ReservedRemainderDemands(in, plan, q) ==
  IF plan.next.res = NoDemand THEN q
  ELSE NotJumping(in, q, plan.next.res, LinuxFreeAged(in))

\* An idle runner of the demand's repository and profile serves it: each one
\* takes the first such demand of the queue out of it.
ConsumeCompatibleIdle(in, q) ==
  LET Same(d, e) == Job[d].repo = Job[e].repo /\ Job[d].profile = Job[e].profile
      Idle(d) == {i \in in.inst : /\ i.state = "online_idle"
                                  /\ i.repo = Job[d].repo /\ i.profile = Job[d].profile}
  IN SelectSeq(q, LAMBDA d :
       Cardinality({k \in 1 .. Index(q, d) - 1 : Same(q[k], d)}) >= Cardinality(Idle(d)))

----------------------------------------------------------------------------
(* planLinux: hold or serve the reservation, else admit aged work in order *)
(* and reserve for the first that does not fit, else select young work.    *)
AdmitAfter(plan, q, deps) == TakeTurn(AppendSpawns(plan, q, deps), q)
Admit(plan, q) == AdmitAfter(plan, q, {})
Reserve(plan, head) == [plan EXCEPT !.next.res = head]

HoldReservation(in, plan, q, free, agedFree, counts, head) ==
  IF Admissible(in, {head}, agedFree, counts)
  THEN AppendSpawns(Reserve(plan, NoDemand), <<head>>, {})
  ELSE Admit(Reserve(plan, head), SafeBackfill(in, q, free, counts, head, {}))

\* How many of the aged are admitted: up to the first that does not fit.
AgedFit(in, aged, agedFree, counts) ==
  Max({0} \cup {n \in 1 .. Min({Len(aged), AdmissionsPerTick}) :
                  \A m \in 1 .. n : Admissible(in, ToSet(SubSeq(aged, 1, m)), agedFree, counts)})
Spend(in, free, q) == FoldLeft(LAMBDA f, d : SubOrZero(f, Vector(in, d)), free, q)
AdmitAged(in, plan, q, first, free, counts, head) ==
  Admit(Reserve(AppendSpawns(plan, first, {}), head),
        SafeBackfill(in, q, Spend(in, free, first), counts, head, ToSet(first)))
PlanAged(in, plan, q, aged, n, free, counts) ==
  IF n = Min({Len(aged), AdmissionsPerTick}) THEN AppendSpawns(plan, SubSeq(aged, 1, n), {})
  ELSE AdmitAged(in, plan, q, SubSeq(aged, 1, n), free, counts, aged[n + 1])

PlanLinuxQueue(in, plan, q, aged, free, agedFree, counts) ==
  IF q = <<>> THEN Reserve(plan, NoDemand)
  ELSE IF in.prior.res \in ToSet(q) /\ ReservationStillHeadsQueue(in, q, in.prior.res)
  THEN HoldReservation(in, plan, q, free, agedFree, counts, in.prior.res)
  ELSE IF aged # <<>>
  THEN PlanAged(in, Reserve(plan, NoDemand), q, aged, AgedFit(in, aged, agedFree, counts), free, counts)
  ELSE Admit(Reserve(plan, NoDemand), ExactSelect(in, YoungOrder(in, ToSet(q)), free, counts))
PlanLinuxDemands(in, plan, q) ==
  PlanLinuxQueue(in, plan, q, AgedQueueOrder(in, {d \in ToSet(q) : Aged(in, d)}),
                 Paced(LinuxFree(in)), Paced(LinuxFreeAged(in)), ActiveRepoCounts(in.inst))
PlanLinux(in, plan, queue) ==
  PlanLinuxDemands(in, plan, BesideAgedForeignHead(in, ConsumeCompatibleIdle(in, queue),
                                                   ForeignQueue(in, plan, "macos")))

----------------------------------------------------------------------------
(* The macOS lane: one profile at a time grows up to its MaxActive.        *)
MacProfileLimit(in, p) == Max({1, in.cfg.profiles[p].max})
DemandEnvelope(in, d, free, agedFree) == IF Aged(in, d) THEN agedFree ELSE free
ChosenMacProfile(in, q) == Job[Head(PriorityOrder(in, ToSet(q)))].profile

\* One pass over the ranked candidates: a full envelope ends it, a capped
\* repository only loses its turn.
PickMac(in, order, vector, available, counts) ==
  LET Step(s, d) ==
        IF s.ended \/ Len(s.picked) >= available THEN s
        ELSE IF ~CanFit(DemandEnvelope(in, d, s.free, s.agedFree), vector)
        THEN [s EXCEPT !.ended = TRUE]
        ELSE IF Charged(counts, ToSet(s.picked))[Job[d].repo] >= Cap(in, Job[d].repo) THEN s
        ELSE [s EXCEPT !.free = SubOrZero(@, vector), !.agedFree = SubOrZero(@, vector),
                       !.picked = Append(@, d)]
  IN FoldLeft(Step, [free |-> LinuxFree(in), agedFree |-> LinuxFreeAged(in),
                     picked |-> <<>>, ended |-> FALSE], order).picked

GrowMac(in, plan, q, p, available, deps) ==
  IF available <= 0 THEN plan
  ELSE AdmitAfter(plan, PickMac(in, PriorityOrder(in, ToSet(q)), in.cfg.profiles[p].res, available,
                             ActiveRepoCounts(AppendPlannedSpawns(in, plan.ops))), deps)
MacSpawns(in, plan, q, p, deps) ==
  GrowMac(in, plan, q, p, MacProfileLimit(in, p) - MacActive(in, p), deps)
AppendMacQueue(in, plan, q, deps) ==
  IF q = <<>> THEN plan ELSE MacSpawns(in, plan, q, Job[Head(q)].profile, deps)
AppendMacSpawns(in, plan, queue, deps) ==
  AppendMacQueue(in, plan, BesideAgedForeignHead(in, queue, ForeignQueue(in, plan, "linux")), deps)

\* Idle instances of S drain; the rest of S are busy.
Idlers(S) == {i \in S : i.state = "online_idle"}
OnMac(in) == {i \in Consuming(in.inst) : PlatformOf(in, i) = "macos"}
OnLinux(in) == {i \in Consuming(in.inst) : PlatformOf(in, i) = "linux"}

DrainIdle(plan, S) == AppendDrains(plan, Idlers(S))
ReplaceForeign(in, plan, q, foreign) ==
  IF foreign # Idlers(foreign) THEN DrainIdle(plan, foreign)
  ELSE AppendMacSpawns(Without(in, foreign), DrainIdle(plan, foreign), q, Names(foreign))
OrReplace(in, plan, beside, q, p) ==
  IF in.cfg.cohorts /\ ContainsSpawn(After(beside, Len(plan.ops))) THEN beside
  ELSE ReplaceForeign(in, plan, q, {i \in OnMac(in) : i.profile # p})
PlanMacProfile(in, plan, q, p) == OrReplace(in, plan, AppendMacSpawns(in, plan, q, {}), q, p)
PlanMacOS(in, plan, q) ==
  LET p == ChosenMacProfile(in, q) IN PlanMacProfile(in, plan, OfProfile(q, p), p)

MacProfileCanGrow(in, p) ==
  /\ in.cfg.cohorts \/ ActiveMacProfiles(in) \subseteq {p}
  /\ MacActive(in, p) < MacProfileLimit(in, p)

HandoffFor(prior, d) == IF prior.demand = d THEN prior ELSE [demand |-> d, backfill |-> FALSE]
StableMacHandoffOrder(prior, q) ==
  IF prior.demand \notin ToSet(q) THEN q
  ELSE <<prior.demand>> \o SelectSeq(q, LAMBDA d : d # prior.demand)

\* The one Linux job that may start while a macOS handoff waits: aged (or
\* control plane) and of the smallest Linux vector.
SmallestLinux(in) ==
  LET linux == {in.cfg.profiles[p].res : p \in {r \in DOMAIN in.cfg.profiles :
                                                  in.cfg.profiles[r].platform = "linux"}}
  IN {v \in linux : \A w \in linux : ~LexLess(<<w.cpu, w.mem, w.slots>>, <<v.cpu, v.mem, v.slots>>)}
BoundedDrainBackfill(in, q) ==
  LET eligible == {d \in ToSet(q) : /\ Aged(in, d) \/ ControlPlane(in, d)
                                    /\ Vector(in, d) \in SmallestLinux(in)}
      free == [LinuxFree(in) EXCEPT !.slots = Min({@, 1})]
      picked == ExactSelect(in, PriorityOrder(in, eligible), free, ActiveRepoCounts(in.inst))
  IN SubSeq(picked, 1, Min({Len(picked), 1}))

\* The handoff waits for busy Linux guests, and lets one small job pass.
AwaitLinux(plan, handoff, fill) ==
  AppendSpawns([plan EXCEPT !.next.mac = [handoff EXCEPT !.backfill = @ \/ fill # <<>>]], fill, {})
MacHandoffPass(in, drained, spawned, idle, handoff, linux) ==
  IF idle = OnLinux(in) /\ ContainsSpawn(spawned.ops) THEN [spawned EXCEPT !.next.mac = NoHandoff]
  ELSE AwaitLinux(drained, handoff, IF handoff.backfill THEN <<>> ELSE BoundedDrainBackfill(in, linux))
MacHandoffFrom(in, drained, q, idle, linux) ==
  MacHandoffPass(in, drained, AppendMacSpawns(Without(in, idle), drained, q, Names(idle)), idle,
                 HandoffFor(in.prior.mac, Head(q)), linux)
PlanMacHandoff(in, plan, linux, macos) ==
  LET idle == Idlers(OnLinux(in))
  IN MacHandoffFrom(in, AppendDrains(plan, idle), StableMacHandoffOrder(in.prior.mac, macos), idle, linux)

OrMacHandoff(in, plan, attempted, linux, macos) ==
  IF ContainsSpawn(attempted.ops) THEN [attempted EXCEPT !.next.mac = NoHandoff]
  ELSE IF \/ Len(attempted.ops) > Len(plan.ops)
          \/ ~MacProfileCanGrow(in, ChosenMacProfile(in, macos))
  THEN attempted
  ELSE PlanMacHandoff(in, attempted, linux, macos)
PlanMacWithCoexistence(in, plan, linux, macos) ==
  OrMacHandoff(in, plan, PlanMacOS(in, plan, macos), linux, macos)

OrOtherMac(in, plan, behind, rest) ==
  IF ContainsSpawn(After(behind, Len(plan.ops))) \/ rest = <<>> THEN behind
  ELSE PlanMacOS(in, behind, rest)
OtherProfiles(q, p) == SelectSeq(q, LAMBDA d : Job[d].profile # p)
PlanBehindInfeasibleMacHead(in, plan, linux, macos) ==
  OrOtherMac(in, plan,
    [PlanLinux(in, plan, linux) EXCEPT
       !.next.mac = HandoffFor(in.prior.mac, Head(PriorityOrder(in, ToSet(macos))))],
    OtherProfiles(macos, ChosenMacProfile(in, macos)))

----------------------------------------------------------------------------
(* The Linux lane beside live macOS guests.                                *)
\* Busy macOS guests: one wave of the same profile may start meanwhile.
MacWave(in, drained, macos, active) ==
  LET wave == AppendMacSpawns(ChargeReservedHead(in, drained.next.res), drained,
                ReservedRemainderDemands(in, drained, OfProfile(macos, CHOOSE p \in active : TRUE)), {})
  IN [wave EXCEPT !.next.lin.backfill = ContainsSpawn(After(wave, Len(drained.ops)))]
AwaitMac(in, drained, macos, active) ==
  IF drained.next.lin.backfill \/ Cardinality(active) # 1 \/ macos = <<>> THEN drained
  ELSE MacWave(in, drained, macos, active)
\* Idle macOS guests: the Linux plan waits for their drains.
BehindDrains(drained, next, names) ==
  [ops |-> drained.ops \o [k \in DOMAIN next.ops |-> [next.ops[k] EXCEPT !.deps = names]],
   next |-> next.next]
LinuxHandoffFrom(in, drained, idle, linux, macos) ==
  IF idle # OnMac(in) THEN AwaitMac(in, drained, macos, ActiveMacProfiles(in))
  ELSE BehindDrains(drained,
         PlanLinux(Without(in, idle), NewPlan([drained.next EXCEPT !.lin = NoHandoff]), linux),
         Names(idle))
PlanLinuxHandoff(in, plan, linux, macos) ==
  LET idle == Idlers(OnMac(in))
  IN LinuxHandoffFrom(in,
       AppendDrains([plan EXCEPT !.next.lin =
         HandoffFor(in.prior.lin, Head(PriorityOrder(in, ToSet(linux))))], idle), idle, linux, macos)

OrLinuxHandoff(in, attempted, linux, macos) ==
  IF ConsumeCompatibleIdle(in, linux) = <<>> \/ ContainsSpawn(attempted.ops)
  THEN [attempted EXCEPT !.next.lin = NoHandoff]
  ELSE PlanLinuxHandoff(in, attempted, linux, macos)
PlanLinuxWithCoexistence(in, plan, linux, macos) ==
  OrLinuxHandoff(in, PlanLinux(in, plan, linux), linux, macos)

----------------------------------------------------------------------------
(* Mixed admission: a second pass fills what the first one left.           *)
\* mutant
RemainderUncharged(in, plan) == in
MixedRemainderInput(in, plan) == [in EXCEPT !.inst = AppendPlannedSpawns(in, plan.ops)]
MayFill(in, plan, q) == q # <<>> /\ in.cfg.mixed /\ ~ContainsDrain(plan.ops)

Merged(plan, sub) ==
  [plan EXCEPT !.ops = @ \o sub.ops, !.next.res = sub.next.res, !.next.cursor = sub.next.cursor]
FillLinux(in, plan, q) ==
  IF ~MayFill(in, plan, q) THEN plan
  ELSE Merged(plan, PlanLinux(MixedRemainderInput(in, plan), NewPlan(plan.next), q))
FillLinuxRemainder(in, plan, linux) ==
  FillLinux(in, plan, DemandsAwaitingAdmission(linux, plan.ops))

RemainderFits(in, d, free, agedFree, counts) ==
  /\ MacProfileCanGrow(in, Job[d].profile)
  /\ CanFit(DemandEnvelope(in, d, free, agedFree), Vector(in, d))
  /\ counts[Job[d].repo] < Cap(in, Job[d].repo)
FittingFirst(in, q, free, agedFree, counts) ==
  SelectSeq(q, LAMBDA d : RemainderFits(in, d, free, agedFree, counts))
HeadProfile(q) == IF q = <<>> THEN {} ELSE {Job[Head(q)].profile}
RemainderMacProfiles(in, macos) ==
  IF ~in.cfg.cohorts /\ Cardinality(ActiveMacProfiles(in)) = 1
  THEN {p \in ActiveMacProfiles(in) : MacProfileCanGrow(in, p)}
  ELSE HeadProfile(FittingFirst(in, PriorityOrder(in, ToSet(macos)), LinuxFree(in),
                                LinuxFreeAged(in), ActiveRepoCounts(in.inst)))

OfProfiles(q, ps) == SelectSeq(q, LAMBDA d : Job[d].profile \in ps)
FillMacFrom(plan, lending, q) ==
  LET sub == AppendMacSpawns(lending, NewPlan(plan.next),
                             OfProfiles(q, RemainderMacProfiles(lending, q)), {})
  IN [plan EXCEPT !.ops = @ \o sub.ops]
FillMac(in, plan, q) ==
  IF ~MayFill(in, plan, q) THEN plan
  ELSE FillMacFrom(plan, ChargeReservedHead(MixedRemainderInput(in, plan), plan.next.res), q)
FillMacRemainder(in, plan, macos) ==
  FillMac(in, plan, ReservedRemainderDemands(in, plan, DemandsAwaitingAdmission(macos, plan.ops)))

----------------------------------------------------------------------------
(* A node whose macOS work takes the whole host.                           *)
\* mutant
ForeignPlatform(in, target) == OnLinux(in)
ForeignTo(in, target) == Consuming(in.inst) \ {i \in OnMac(in) : i.profile = target}
TakeHost(in, plan, q, foreign) ==
  IF foreign # Idlers(foreign)
  THEN [DrainIdle(plan, foreign) EXCEPT !.next.mac = HandoffFor(in.prior.mac, Head(q))]
  ELSE AppendMacSpawns(Without(in, foreign), [DrainIdle(plan, foreign) EXCEPT !.next.mac = NoHandoff],
                       q, Names(foreign))
PlanExclusiveMacHandoff(in, plan, target, macos) ==
  TakeHost(in, plan, StableMacHandoffOrder(in.prior.mac,
                       PriorityOrder(in, ToSet(OfProfile(macos, target)))), ForeignTo(in, target))
PlanExclusiveAdmission(in, plan, linux, macos) ==
  LET active == ActiveMacProfiles(in)
      served == {p \in active : OfProfile(macos, p) # <<>>}
      target == IF served # {} THEN CHOOSE p \in served : TRUE ELSE ChosenMacProfile(in, macos)
      idleMac == [plan EXCEPT !.next.mac = NoHandoff]
  IN IF Cardinality(active) > 1 THEN plan
     ELSE IF macos # <<>>
     THEN PlanExclusiveMacHandoff(in, [plan EXCEPT !.next.lin = NoHandoff], target, macos)
     ELSE IF active # {} THEN PlanLinuxHandoff(in, idleMac, linux, <<>>)
     ELSE PlanLinux(in, [idleMac EXCEPT !.next.lin = NoHandoff], linux)

----------------------------------------------------------------------------
(* Recoveries: what an instance's evidence says must be reclaimed. `late`  *)
(* is the dwell of its state reaching AssignedTimeout, `over` its          *)
(* occupancy budget, `dead` a confirmed silence of its guest.              *)
StalledAssignment(i) ==
  i.state = "assigned" /\ i.power = "running" /\ ~i.ready /\ i.late
\* mutant
StallsUnseen(i) == FALSE
ProvisionStalled(i) == i.state \in {"cloning", "booting", "reachable"} /\ i.late
LingeringRunner(i) ==
  i.state = "running" /\ i.power = "running" /\ ~i.ready /\ i.inactive /\ i.late
OccupancyExceeded(i) == ~ProvenIdle(i.power) /\ i.over
GuestUnresponsive(i) == i.state = "running" /\ ~ProvenIdle(i.power) /\ i.dead
RecoveryCause(i) ==
  IF ProvisionStalled(i) THEN "provision_stalled"
  ELSE IF i.state \notin {"assigned", "running"} THEN "none"
  ELSE IF i.power = "running" /\ i.ready THEN "inactive_recovery"
  ELSE IF StalledAssignment(i) THEN "stalled_assignment"
  ELSE IF LingeringRunner(i) THEN "lingering_runner"
  ELSE IF i.power = "stopped" THEN "stopped_recovery"
  ELSE IF GuestUnresponsive(i) THEN "guest_unresponsive"
  ELSE IF OccupancyExceeded(i) THEN "occupancy_budget"
  ELSE "none"
AssignmentRecoveries(in) ==
  SetToSeq({Drain(i.id, RecoveryCause(i)) : i \in {j \in in.inst : RecoveryCause(j) # "none"}})

----------------------------------------------------------------------------
(* One tick.                                                               *)
OrBehindMac(in, plan, attempted, linux, macos) ==
  IF ContainsSpawn(attempted.ops) THEN FillLinuxRemainder(in, attempted, linux)
  ELSE IF HostMode(in) = {} \/ linux = <<>> \/ in.cfg.mixed
  THEN PlanBehindInfeasibleMacHead(in, plan, linux, macos)
  ELSE PlanMacHandoff(in, plan, linux, macos)
PlanMacBesideMac(in, plan, linux, macos) ==
  OrBehindMac(in, plan, PlanMacOS(in, plan, macos), linux, macos)
PlanMacHead(in, plan, linux, macos) ==
  IF "linux" \in HostMode(in)
  THEN FillLinuxRemainder(in, PlanMacWithCoexistence(in, plan, linux, macos), linux)
  ELSE PlanMacBesideMac(in, [plan EXCEPT !.next.mac = NoHandoff], linux, macos)

PlanLinuxHead(in, plan, linux, macos) ==
  LET kept == IF in.prior.mac.demand \in ToSet(macos) THEN plan
              ELSE [plan EXCEPT !.next.mac = NoHandoff]
  IN FillMacRemainder(in,
       IF "macos" \in HostMode(in) THEN PlanLinuxWithCoexistence(in, kept, linux, macos)
       ELSE PlanLinux(in, [kept EXCEPT !.next.lin = NoHandoff], linux), macos)

OfPlatform(in, q, platform) == SelectSeq(q, LAMBDA d : Profile(in, d).platform = platform)
PlanQueue(in, plan, order, linux, macos) ==
  IF in.cfg.exclusive THEN PlanExclusiveAdmission(in, plan, linux, macos)
  ELSE IF Head(order) \in ToSet(macos)
  THEN PlanMacHead(in, [plan EXCEPT !.next.lin = NoHandoff], linux, macos)
  ELSE PlanLinuxHead(in, plan, linux, macos)
PlanOrder(in, plan, order) ==
  IF order = <<>> THEN NewPlan([NoState EXCEPT !.cursor = in.prior.cursor])
  ELSE PlanQueue(in, plan, order, OfPlatform(in, order, "linux"), OfPlatform(in, order, "macos"))
PlanRecoveries(in, plan, recoveries) ==
  IF recoveries # <<>> THEN [plan EXCEPT !.ops = recoveries]
  ELSE PlanOrder(in, plan, PriorityOrder(in, in.demands))
PlanTick(in) == PlanRecoveries(in, NewPlan(in.prior), AssignmentRecoveries(in))
=============================================================================
