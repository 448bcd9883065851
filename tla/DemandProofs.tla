---------------------------- MODULE DemandProofs ----------------------------
(***************************************************************************)
(* Proofs about Demand: for every set of jobs, requests and bindings, any  *)
(* routing, any statistics, any number of sequence restarts, redeliveries  *)
(* and crashes, and any time.                                              *)
(***************************************************************************)
EXTENDS DemandSteps

-----------------------------------------------------------------------------
(* The REST lane *)

\* Only the commit of a snapshot says that a row was seen.
LEMMA CorroboratedIsClaimed ==
  ASSUME TypeOK, Seen, [Next]_vars, NEW r \in Requests, rows'[r].corroborated > 0
  PROVE  Claimed(LogicalKey(r))
<1>1. rows[r] \in Row
  BY DEF TypeOK
<1>2. CASE rows'[r].corroborated = rows[r].corroborated
  BY <1>2 DEF Seen
<1>3. CASE ~Duplicate(ing.msg) /\ ApplyDemandBatch /\ ApplyDemandEvent(EventFromBase(ing.msg))
  <2>1. ing.msg \in Message
    BY <1>3 DEF ApplyDemandBatch, TypeOK
  <2>2. CASE r = ing.msg.request
    BY <1>2, <1>3, <2>1, <2>2, Applied, Zenon
  <2>3. CASE r # ing.msg.request
    <3>1. rows'[r] = rows[r]
      BY <1>3, <2>1, <2>3, Applied, Zenon
    <3> QED BY <1>2, <3>1
  <2> QED BY <2>2, <2>3
<1>4. CASE ReconcileGitHubJobSnapshot
  <2>1. PICK g \in Group : rows'[r] = ReconcileGitHubJobs(r, g)
    BY <1>4, Reconciled
  <2>2. rows \in [Requests -> Row] /\ rest \in Pass
    BY DEF TypeOK
  <2> DEFINE new == ReconcileGitHubJobs(r, g)
  <2>3. /\ (rows[r].rank = 0 => new = rows[r])
        /\ (LogicalKey(r) \notin rest.kept => new.corroborated = rows[r].corroborated)
    BY <2>2, ReconcileFields, Zenon
  <2> HIDE DEF new
  <2>4. rows[r].rank = 0 \/ LogicalKey(r) \notin rest.kept => rows'[r].corroborated = rows[r].corroborated
    BY <2>1, <2>3 DEF new
  <2>5. LogicalKey(r) \in rest.kept => Claimed(LogicalKey(r))
    BY DEF Seen
  <2> QED BY <1>2, <2>4, <2>5
<1>5. CASE ExpireGhostDemands \/ Tick
  <2>1. ASSUME NEW at \in Nat, rows'[r] = Expire(rows[r], at)
        PROVE  rows'[r].corroborated = rows[r].corroborated
    BY <1>1, <2>1 DEF Expire, Row
  <2> QED BY <1>2, <1>5, <2>1, Expired
<1>6. CASE UNCHANGED demand
  BY <1>2, <1>6 DEF demand
<1> QED BY <1>3, <1>4, <1>5, <1>6, OnlyRowSteps DEF RowStep

\* Between two steps of the reconciler, an absence is only ever taken back.
LEMMA AbsenceStays ==
  ASSUME TypeOK, [Next]_vars, ~ReconcileGitHubJobSnapshot, NEW r \in Requests
  PROVE  \/ Calm(rows'[r])
         \/ rows'[r] = rows[r]
<1>1. rows[r] \in Row
  BY DEF TypeOK
<1>2. CASE ~Duplicate(ing.msg) /\ ApplyDemandBatch /\ ApplyDemandEvent(EventFromBase(ing.msg))
  <2>1. ing.msg \in Message
    BY <1>2 DEF ApplyDemandBatch, TypeOK
  <2>2. CASE r = ing.msg.request
    <3>1. rows'[r].since = 0
      BY <1>2, <2>1, <2>2, Applied, Zenon
    <3> QED BY <3>1 DEF Calm
  <2>3. CASE r # ing.msg.request
    BY <1>2, <2>1, <2>3, Applied, Zenon
  <2> QED BY <2>2, <2>3
<1>3. CASE ExpireGhostDemands \/ Tick
  <2>1. ASSUME NEW at \in Nat, rows'[r] = Expire(rows[r], at)
        PROVE  Calm(rows'[r])
    <3>1. rows'[r].expired
      BY <1>1, <2>1 DEF Expire, Row
    <3> QED BY <3>1 DEF Calm
  <2> QED BY <1>3, <2>1, Expired
<1>4. CASE UNCHANGED demand
  BY <1>4 DEF demand
<1> QED BY <1>2, <1>3, <1>4, OnlyRowSteps DEF RowStep

\* observe and boundToOwnShare: the snapshot vouches for every waiting row
\* whose job it lists, and keeps only jobs that route here.
LEMMA ObserveSees ==
  ASSUME TypeOK, Seen, Observe
  PROVE  /\ \A k \in rest'.kept : Claimed(k)
         /\ rest'.pc = "commit"
         /\ \A r \in Requests : LogicalKey(r) \in DOMAIN rest'.jobs \ rest'.kept => Calm(rows'[r])
<1>1. PICK J \in Listings :
        LET listed == {Job[k] : k \in J}
            claimed == {k \in J : Own \in Matching(Bindings, Job[k])}
        IN rest' = [pc |-> "commit", at |-> now, jobs |-> [k \in J |-> job[k]],
                    kept |-> IF Contended(Bindings, listed, Own)
                               THEN BoundToOwnShare(claimed) ELSE claimed]
  BY Zenon DEF Observe
<1> DEFINE claimed == {k \in J : Claimed(k)}
<1>2. rest'.pc = "commit" /\ DOMAIN rest'.jobs = J
  BY <1>1
<1>3. rest'.kept = BoundToOwnShare(claimed) \/ rest'.kept = claimed
  BY <1>1 DEF Claimed
<1>4. BoundToOwnShare(claimed) \subseteq claimed
  BY DEF BoundToOwnShare, OldestJobs
<1>5. claimed \cap VouchedJobs \subseteq BoundToOwnShare(claimed)
  BY DEF BoundToOwnShare
<1>6. rows' = rows
  BY DEF Observe, demand
<1>7. ASSUME NEW r \in Requests, LogicalKey(r) \in J, LogicalKey(r) \notin rest'.kept, ~Calm(rows[r])
      PROVE  FALSE
  <2>1. rows[r] \in Row /\ rows[r].corroborated \in Nat
    BY DEF TypeOK, Row
  <2>2. rows[r].rank = Available /\ ~rows[r].expired /\ rows[r].corroborated > 0
    BY <1>7, <2>1 DEF Calm
  <2>3. LogicalKey(r) \in claimed
    BY <1>7, <2>2 DEF Seen
  <2>4. r \in ActiveDemands
    BY <2>2 DEF ActiveDemands, Available, Started
  <2>5. LogicalKey(r) \in VouchedJobs
    BY <2>4 DEF VouchedJobs
  <2> QED BY <1>3, <1>5, <1>7, <2>3, <2>5
<1> QED BY <1>2, <1>3, <1>4, <1>6, <1>7

\* The commit starts an absence at the snapshot's own instant at the earliest.
LEMMA CommitSees ==
  ASSUME TypeOK, Seen, ReconcileGitHubJobSnapshot, NEW r \in Requests,
         LogicalKey(r) \in DOMAIN rest.jobs
  PROVE  Calm(rows'[r]) \/ rows'[r].since >= rest.at
<1>1. PICK g \in Group : rows'[r] = ReconcileGitHubJobs(r, g)
  BY Reconciled
<1>2. rows \in [Requests -> Row] /\ rest \in Pass /\ rows[r] \in Row /\ rest.at \in Nat
  BY PassFields DEF TypeOK
<1> DEFINE new == ReconcileGitHubJobs(r, g)
<1>3. /\ (rows[r].rank = 0 => new = rows[r])
      /\ (rows[r].rank > 0 /\ LogicalKey(r) \in rest.kept => new.since = 0)
      /\ (LogicalKey(r) \notin rest.kept =>
             \/ new = rows[r]
             \/ AccruesAbsence(rows[r]) /\ new.since = IF rows[r].since = 0 THEN rest.at ELSE rows[r].since)
  BY <1>2, ReconcileFields, Zenon
<1> HIDE DEF new
<1>4. rows'[r] = new
  BY <1>1 DEF new
<1>5. CASE rows[r].rank = 0
  BY <1>3, <1>4, <1>5 DEF Calm, Available
<1>6. CASE rows[r].rank > 0 /\ LogicalKey(r) \in rest.kept
  BY <1>3, <1>4, <1>6 DEF Calm
<1>7. CASE LogicalKey(r) \notin rest.kept
  <2>1. Calm(rows[r])
    BY <1>7 DEF Seen, ReconcileGitHubJobSnapshot
  <2>2. CASE new = rows[r]
    BY <1>4, <2>1, <2>2
  <2>3. CASE AccruesAbsence(rows[r]) /\ new.since = IF rows[r].since = 0 THEN rest.at ELSE rows[r].since
    <3>1. rows[r].rank = Available /\ ~rows[r].expired /\ rows[r].corroborated # 0
      BY <2>3 DEF AccruesAbsence
    <3>2. rows[r].since = 0
      BY <2>1, <3>1 DEF Calm
    <3> QED BY <1>2, <1>4, <2>3, <3>2
  <2> QED BY <1>3, <1>7, <2>2, <2>3
<1>8. rows[r].rank \in Nat
  BY <1>2 DEF Row
<1> QED BY <1>5, <1>6, <1>7, <1>8

LEMMA SeenStep == ASSUME TypeOK, Seen, [Next]_vars PROVE Seen'
<1>1. \A r \in Requests : rows'[r].corroborated > 0 => Claimed(LogicalKey(r))
  BY CorroboratedIsClaimed
<1>2. CASE Observe
  BY <1>1, <1>2, ObserveSees DEF Seen
<1>3. CASE ReconcileGitHubJobSnapshot
  <2>1. rest' = [rest EXCEPT !.pc = "expire"] /\ rest \in Pass
    BY <1>3 DEF ReconcileGitHubJobSnapshot, TypeOK
  <2>2. rest'.pc = "expire" /\ rest'.kept = rest.kept /\ rest'.jobs = rest.jobs /\ rest'.at = rest.at
    BY <2>1 DEF Pass
  <2>3. \A r \in Requests : LogicalKey(r) \in DOMAIN rest.jobs => Calm(rows'[r]) \/ rows'[r].since >= rest.at
    BY <1>3, CommitSees
  <2> QED BY <1>1, <2>2, <2>3 DEF Seen
<1>4. CASE rest' = NoRest
  BY <1>1, <1>4, NoRestIsPass DEF Seen
<1>5. CASE rest' = rest /\ ~ReconcileGitHubJobSnapshot
  <2>1. \A r \in Requests : Calm(rows'[r]) \/ rows'[r] = rows[r]
    BY <1>5, AbsenceStays
  <2> QED BY <1>1, <1>5, <2>1 DEF Seen
<1> QED
  BY <1>2, <1>3, <1>4, <1>5
  DEF Next, vars, Clock, SequenceRestart, Queue, Advance, CancelSilently, Store, Env, PutDemandStatistics,
      ApplyDemandBatch, Ack, Nack, RestFails, ExpireGhostDemands, Tick, InstanceEnds, Crash

-----------------------------------------------------------------------------
(* The age of the queue *)

\* A group's attempt never falls back, and neither does GitHub's.
LEMMA JobsGrow ==
  ASSUME TypeOK, [Next]_vars, NEW k \in Jobs
  PROVE  /\ job[k].attempt \in Nat /\ job'[k].attempt \in Nat /\ job'[k].attempt >= job[k].attempt
         /\ \/ job'[k].st = "queued" /\ job'[k].since = now
            \/ job'[k].since = job[k].since /\ (job'[k].st # "none" => job[k].st # "none")
         /\ job[k].st # "none" => job'[k].st # "none"
<1>1. job \in [Jobs -> JobRecord] /\ job[k] \in JobRecord /\ job'[k] \in JobRecord
  BY TypeStep DEF TypeOK
<1>2. job[k].attempt \in Nat /\ job'[k].attempt \in Nat
  BY <1>1 DEF JobRecord
<1>3. CASE job' = job
  BY <1>2, <1>3
<1>4. ASSUME NEW j \in Jobs, Queue(j)
      PROVE  /\ job'[k].attempt >= job[k].attempt
             /\ \/ job'[k].st = "queued" /\ job'[k].since = now
                \/ job'[k] = job[k]
  <2>1. job' = [job EXCEPT ![j] = [st |-> "queued", attempt |-> job[j].attempt + 1, since |-> now]]
    BY <1>4 DEF Queue
  <2>2. CASE k = j
    BY <1>1, <1>2, <2>1, <2>2
  <2>3. CASE k # j
    BY <1>1, <1>2, <2>1, <2>3
  <2> QED BY <2>2, <2>3
<1>5. ASSUME NEW j \in Jobs, Advance(j) \/ CancelSilently(j)
      PROVE  job'[k].attempt = job[k].attempt /\ job'[k].since = job[k].since
             /\ (job'[k].st # "none" <=> job[k].st # "none")
  <2>1. job[j].st # "none" /\ \E st \in {"offered", "running", "done"} : job' = [job EXCEPT ![j].st = st]
    BY <1>5 DEF Advance, CancelSilently, Queued, Moves
  <2>2. PICK st \in {"offered", "running", "done"} : job' = [job EXCEPT ![j].st = st]
    BY <2>1, Zenon
  <2>3. CASE k = j
    <3>1. job'[k] = [job[k] EXCEPT !.st = st]
      BY <1>1, <2>2, <2>3
    <3> QED BY <1>1, <2>1, <2>3, <3>1 DEF JobRecord
  <2>4. CASE k # j
    BY <1>1, <2>2, <2>4
  <2> QED BY <2>3, <2>4
<1>6. \/ job' = job
      \/ \E j \in Jobs : Queue(j) \/ Advance(j) \/ CancelSilently(j)
  BY DEF Next, vars, Clock, SequenceRestart, Env, World, PutDemandStatistics, ApplyDemandBatch, Ack, Nack,
         Observe, RestFails, ReconcileGitHubJobSnapshot, ExpireGhostDemands, Tick, InstanceEnds, Crash
<1> QED BY <1>2, <1>3, <1>4, <1>5, <1>6

\* Every message carries the instant its job queued.
LEMMA MessagesAreDated ==
  ASSUME TypeOK, Dated, [Next]_vars
  PROVE  /\ \A k \in Jobs : job'[k].st # "none" => job'[k].since >= 1
         /\ \A i \in 1 .. Len(pipe') : pipe'[i].queue >= 1
         /\ ing'.pc # "idle" => ing'.msg.queue >= 1
<1>1. \A k \in Jobs : job'[k].st # "none" => job'[k].since >= 1
  <2> SUFFICES ASSUME NEW k \in Jobs, job'[k].st # "none" PROVE job'[k].since >= 1
    OBVIOUS
  <2>1. now >= 1
    BY DEF TypeOK
  <2> QED BY <2>1, JobsGrow DEF Dated
<1>2. CASE pipe' = pipe /\ (ing' = ing \/ ing' = Idle)
  BY <1>1, <1>2, IdleIsIngester DEF Dated
<1>3. CASE PutDemandStatistics
  <2>1. pipe # <<>> /\ pipe \in Seq(Message)
    BY <1>3 DEF PutDemandStatistics, NextMessage, TypeOK
  <2>2. Head(pipe) = pipe[1] /\ 1 \in 1 .. Len(pipe)
    BY <2>1
  <2>3. ing'.msg = Head(pipe) /\ pipe' = pipe
    BY <1>3 DEF PutDemandStatistics, broker
  <2> QED BY <1>1, <2>2, <2>3 DEF Dated
<1>4. CASE ApplyDemandBatch
  <2>1. ing'.msg = ing.msg /\ ing.pc # "idle" /\ pipe' = pipe
    BY <1>4 DEF ApplyDemandBatch, TypeOK, Ingester, broker
  <2> QED BY <1>1, <2>1 DEF Dated
<1>5. CASE Ack
  <2>1. pipe # <<>> /\ pipe \in Seq(Message) /\ pipe' = Tail(pipe) /\ ing'.pc = "idle"
    BY <1>5, IdleIsIngester DEF Ack, TypeOK
  <2>2. \A i \in 1 .. Len(pipe') : pipe'[i] = pipe[i + 1] /\ i + 1 \in 1 .. Len(pipe)
    BY <2>1
  <2> QED BY <1>1, <2>1, <2>2 DEF Dated
<1>6. ASSUME NEW k \in Jobs, Advance(k)
      PROVE  \A i \in 1 .. Len(pipe') : pipe'[i].queue >= 1
  <2>1. PICK r \in RequestsOf(k) : \E kind : Send(r, kind)
    BY <1>6 DEF Advance
  <2>2. job[k].st # "none" /\ Request[r].job = k
    BY <1>6 DEF Advance, Moves, RequestsOf
  <2>3. PICK m : pipe' = Append(pipe, m) /\ m.queue = job[k].since
    BY <2>1, <2>2 DEF Send
  <2>4. m.queue >= 1
    BY <2>2, <2>3 DEF Dated
  <2>5. pipe \in Seq(Message)
    BY DEF TypeOK
  <2>6. \A i \in 1 .. Len(pipe') : pipe'[i] = m \/ (i \in 1 .. Len(pipe) /\ pipe'[i] = pipe[i])
    BY <2>3, <2>5
  <2> QED BY <2>4, <2>6 DEF Dated
<1>7. ASSUME NEW k \in Jobs, Advance(k) PROVE ing' = ing
  BY <1>7 DEF Advance, Store
<1> QED
  BY <1>1, <1>2, <1>3, <1>4, <1>5, <1>6, <1>7
  DEF Next, vars, Clock, SequenceRestart, Queue, CancelSilently, Store, broker, World, Dated,
      Nack, Observe, RestFails, ReconcileGitHubJobSnapshot, ExpireGhostDemands, Tick, InstanceEnds, Crash

\* What becomes of one group.
LEMMA GroupsGrow ==
  ASSUME TypeOK, Dated, [Next]_vars, NEW k \in Keys
  PROVE  \/ groups'[k] = groups[k]
         \/ \E q \in Nat \ {0} : groups'[k] = GroupAfterEvent(groups[k], q)
         \/ /\ ReconcileGitHubJobSnapshot /\ k \in rest.kept
            /\ groups'[k] = GroupAfterSighting(groups[k], rest.jobs[k])
<1>1. CASE ~Duplicate(ing.msg) /\ ApplyDemandBatch /\ ApplyDemandEvent(EventFromBase(ing.msg))
  <2>1. ing.msg \in Message /\ ing.pc # "idle"
    BY <1>1 DEF ApplyDemandBatch, TypeOK
  <2>2. ing.msg.queue \in Nat \ {0}
    BY <2>1 DEF Dated, Message
  <2>3. groups' = [groups EXCEPT ![LogicalKey(ing.msg.request)] =
                     GroupAfterEvent(groups[LogicalKey(ing.msg.request)], ing.msg.queue)]
    BY <1>1, <2>1, Applied, Zenon
  <2>4. groups \in [Keys -> Group]
    BY DEF TypeOK
  <2>5. CASE k = LogicalKey(ing.msg.request)
    BY <2>2, <2>3, <2>4, <2>5
  <2>6. CASE k # LogicalKey(ing.msg.request)
    BY <2>3, <2>4, <2>6
  <2> QED BY <2>5, <2>6
<1>2. CASE ReconcileGitHubJobSnapshot
  BY <1>2 DEF ReconcileGitHubJobSnapshot, Keys
<1>3. CASE groups' = groups
  BY <1>3
<1> QED BY <1>1, <1>2, <1>3, OnlyRowSteps DEF RowStep, demand

LEMMA DatedStep == ASSUME TypeOK, Dated, [Next]_vars PROVE Dated'
<1>1. \A k \in Keys : groups'[k].attempt <= job'[k].attempt /\ (groups'[k].attempt > 0 => groups'[k].first >= 1)
  <2> SUFFICES ASSUME NEW k \in Keys
               PROVE  groups'[k].attempt <= job'[k].attempt /\ (groups'[k].attempt > 0 => groups'[k].first >= 1)
    OBVIOUS
  <2>1. /\ k \in Jobs /\ groups[k] \in Group /\ groups[k].attempt \in Nat /\ groups[k].first \in Nat
    BY DEF TypeOK, Keys, Group
  <2>2. /\ job[k].attempt \in Nat /\ job'[k].attempt \in Nat /\ job'[k].attempt >= job[k].attempt
        /\ groups[k].attempt <= job[k].attempt /\ (groups[k].attempt > 0 => groups[k].first >= 1)
    BY <2>1, JobsGrow DEF Dated
  <2>3. CASE groups'[k] = groups[k]
    BY <2>1, <2>2, <2>3
  <2>4. ASSUME NEW q \in Nat \ {0}, groups'[k] = GroupAfterEvent(groups[k], q)
        PROVE  groups'[k].attempt = groups[k].attempt /\ groups'[k].first >= 1
    <3>1. q \in Nat /\ q >= 1
      OBVIOUS
    <3>2. LET new == GroupAfterEvent(groups[k], q)
          IN new.attempt = groups[k].attempt /\ new.first >= 1
      BY <2>1, <2>2, <3>1, GroupAfterEventFacts, Zenon
    <3> QED BY <2>4, <3>2
  <2>5. CASE /\ ReconcileGitHubJobSnapshot /\ k \in rest.kept
             /\ groups'[k] = GroupAfterSighting(groups[k], rest.jobs[k])
    <3>1. k \in DOMAIN rest.jobs /\ rest.jobs[k] \in JobRecord /\ rest.pc = "commit"
      BY <2>5, PassFields DEF TypeOK, ReconcileGitHubJobSnapshot
    <3>2. rest.jobs[k].since >= 1 /\ rest.jobs[k].attempt <= job[k].attempt /\ rest.jobs[k].attempt \in Nat
      BY <3>1 DEF Dated, JobRecord
    <3>3. groups'[k].attempt = rest.jobs[k].attempt /\ groups'[k].first >= 1
      BY <2>1, <2>5, <3>1, <3>2, GroupAfterSightingFacts
    <3> QED BY <2>2, <3>2, <3>3
  <2> QED BY <2>1, <2>2, <2>3, <2>4, <2>5, GroupsGrow
<1>2. rest'.pc = "commit" => \A k \in DOMAIN rest'.jobs :
        /\ rest'.jobs[k].since >= 1 /\ rest'.jobs[k].attempt <= job'[k].attempt
        /\ k \in Keys => groups'[k].attempt <= rest'.jobs[k].attempt
  <2> SUFFICES ASSUME rest'.pc = "commit", NEW k \in DOMAIN rest'.jobs
               PROVE  /\ rest'.jobs[k].since >= 1 /\ rest'.jobs[k].attempt <= job'[k].attempt
                      /\ k \in Keys => groups'[k].attempt <= rest'.jobs[k].attempt
    OBVIOUS
  <2>1. CASE Observe
    <3>1. PICK J \in Listings : rest'.jobs = [j \in J |-> job[j]]
      BY <2>1 DEF Observe
    <3>2. k \in J /\ rest'.jobs[k] = job[k] /\ job' = job /\ groups' = groups
      BY <2>1, <3>1 DEF Observe, World, demand
    <3>3. k \in Jobs /\ job[k].attempt \in Nat
      BY <3>2 DEF Listings, Queued, Others, TypeOK, JobRecord
    <3>4. job[k].st # "none"
      BY <3>2 DEF Listings, Queued, Dated
    <3> QED BY <3>2, <3>3, <3>4 DEF Dated
  <2>2. CASE rest' = rest /\ ~ReconcileGitHubJobSnapshot
    <3>1. k \in Jobs /\ rest.jobs[k].attempt \in Nat
      BY <2>2, PassFields DEF TypeOK, JobRecord
    <3>2. /\ rest.jobs[k].since >= 1 /\ rest.jobs[k].attempt <= job[k].attempt
          /\ (k \in Keys => groups[k].attempt <= rest.jobs[k].attempt)
      BY <2>2 DEF Dated
    <3>3. job[k].attempt \in Nat /\ job'[k].attempt \in Nat /\ job'[k].attempt >= job[k].attempt
      BY <3>1, JobsGrow
    <3>4. k \in Keys => groups'[k].attempt = groups[k].attempt
      <4> SUFFICES ASSUME k \in Keys PROVE groups'[k].attempt = groups[k].attempt
        OBVIOUS
      <4>1. groups[k] \in Group
        BY DEF TypeOK
      <4>2. \A q \in Nat : GroupAfterEvent(groups[k], q).attempt = groups[k].attempt
        BY <4>1, GroupAfterEventFacts
      <4> QED BY <2>2, <4>2, GroupsGrow
    <3> QED BY <2>2, <3>1, <3>2, <3>3, <3>4
  <2>3. rest'.pc = "commit" => Observe \/ (rest' = rest /\ ~ReconcileGitHubJobSnapshot)
    <3>1. CASE ReconcileGitHubJobSnapshot
      BY <3>1 DEF ReconcileGitHubJobSnapshot, TypeOK, Pass
    <3>2. CASE ~ReconcileGitHubJobSnapshot
      BY <3>2, NoRestIsPass
      DEF Next, vars, Clock, SequenceRestart, Queue, Advance, CancelSilently, Store, Env, PutDemandStatistics,
          ApplyDemandBatch, Ack, Nack, RestFails, ExpireGhostDemands, Tick, InstanceEnds, Crash
    <3> QED BY <3>1, <3>2
  <2> QED BY <2>1, <2>2, <2>3
<1>3. \A k \in Others : job'[k].st # "none"
  BY JobsGrow DEF Dated, Others
<1> QED BY <1>1, <1>2, <1>3, MessagesAreDated DEF Dated

\* A row and its group stay in step, and a row grows younger only with its
\* attempt.
LEMMA AgedRow ==
  ASSUME TypeOK, Dated, Aged, [Next]_vars, NEW r \in Requests
  PROVE  /\ rows'[r].rank > 0 => InStep(rows'[r], groups'[LogicalKey(r)])
         /\ rows[r].rank > 0 /\ rows'[r].attempt = rows[r].attempt => rows'[r].first <= rows[r].first
<1> DEFINE k == LogicalKey(r)
           g == groups[k]
           h == groups'[k]
<1>1. /\ k \in Keys /\ g \in Group /\ h \in Group /\ rows[r] \in Row /\ rows'[r] \in Row
  BY KeyOfRequest, TypeStep DEF TypeOK
<1>2. /\ g.first \in Nat /\ g.attempt \in Nat /\ h.first \in Nat /\ h.attempt \in Nat
      /\ rows[r].first \in Nat /\ rows[r].attempt \in Nat /\ rows[r].rank \in Nat
      /\ rows'[r].first \in Nat /\ rows'[r].attempt \in Nat
  BY <1>1 DEF Group, Row
<1>3. rows[r].rank > 0 => InStep(rows[r], g)
  BY DEF Aged
<1>4. g.attempt > 0 => g.first >= 1
  BY <1>1 DEF Dated
<1>5. CASE ~Duplicate(ing.msg) /\ ApplyDemandBatch /\ ApplyDemandEvent(EventFromBase(ing.msg))
  <2>1. ing.msg \in Message /\ ing.msg.queue \in Nat /\ ing.msg.queue >= 1
    BY <1>5 DEF ApplyDemandBatch, TypeOK, Dated, Message
  <2>2. CASE r = ing.msg.request
    <3> DEFINE e == GroupAfterEvent(g, ing.msg.queue)
    <3>1. /\ groups' = [groups EXCEPT ![k] = e]
          /\ rows'[r].first = e.first /\ rows'[r].attempt = e.attempt
      BY <1>5, <2>1, <2>2, Applied, Zenon
    <3>2. h = e
      BY <1>1, <3>1 DEF TypeOK
    <3>3. /\ e.attempt = g.attempt /\ (g.first >= 1 => e.first >= 1 /\ e.first <= g.first) /\ e.first >= 1
      BY <1>1, <1>4, <2>1, GroupAfterEventFacts, Zenon
    <3> HIDE DEF e, g, h, k
    <3> QED BY <1>2, <1>3, <3>1, <3>2, <3>3 DEF InStep, g, h, k
  <2>3. CASE r # ing.msg.request
    <3>1. rows'[r] = rows[r]
      BY <1>5, <2>1, <2>3, Applied, Zenon
    <3>2. h = g \/ h = GroupAfterEvent(g, ing.msg.queue)
      <4>1. PICK x, y : groups' = [groups EXCEPT ![y] = x] /\ x = GroupAfterEvent(groups[y], ing.msg.queue)
        BY <1>5, <2>1, Applied, Zenon
      <4>2. CASE y = k
        BY <1>1, <4>1, <4>2 DEF TypeOK
      <4>3. CASE y # k
        BY <1>1, <4>1, <4>3 DEF TypeOK
      <4> QED BY <4>2, <4>3
    <3>3. h.attempt = g.attempt /\ (g.first >= 1 => h.first >= 1 /\ h.first <= g.first)
      <4>1. LET new == GroupAfterEvent(g, ing.msg.queue)
            IN new.attempt = g.attempt /\ (g.first >= 1 => new.first >= 1 /\ new.first <= g.first)
        BY <1>1, <2>1, GroupAfterEventFacts, Zenon
      <4>2. g.first <= g.first
        BY <1>2
      <4> HIDE DEF g, h, k
      <4> QED BY <3>2, <4>1, <4>2
    <3> HIDE DEF g, h, k
    <3> QED BY <1>2, <1>3, <3>1, <3>3 DEF InStep, g, h, k
  <2> QED BY <2>2, <2>3
<1>6. CASE ReconcileGitHubJobSnapshot
  <2>1. /\ h = IF k \in rest.kept THEN GroupAfterSighting(g, rest.jobs[k]) ELSE g
        /\ rows'[r] = ReconcileGitHubJobs(r, h)
    BY <1>6, Reconciled
  <2>2. rows \in [Requests -> Row] /\ rest \in Pass
    BY DEF TypeOK
  <2> DEFINE new == ReconcileGitHubJobs(r, h)
  <2>3. /\ new.rank = rows[r].rank
        /\ (rows[r].rank > 0 /\ k \in rest.kept => new.first = h.first /\ new.attempt = h.attempt)
        /\ (k \notin rest.kept => new.first = rows[r].first /\ new.attempt = rows[r].attempt)
    BY <1>1, <2>2, ReconcileFields, Zenon
  <2>4. CASE k \in rest.kept
    <3>1. k \in DOMAIN rest.jobs /\ rest.jobs[k] \in JobRecord /\ rest.pc = "commit"
      BY <1>6, <2>4, PassFields DEF TypeOK, ReconcileGitHubJobSnapshot
    <3> DEFINE seen == rest.jobs[k]
    <3>2. seen.since >= 1 /\ g.attempt <= seen.attempt /\ seen.attempt \in Nat /\ seen \in JobRecord
      BY <1>1, <3>1 DEF Dated, JobRecord
    <3>3. h = GroupAfterSighting(g, seen)
      BY <2>1, <2>4
    <3> HIDE DEF seen
    <3>4. /\ h.attempt = seen.attempt /\ (g.first >= 1 /\ g.attempt = seen.attempt => h.first <= g.first)
          /\ h.first >= 1
      BY <1>1, <3>2, <3>3, GroupAfterSightingFacts
    <3> HIDE DEF new, g, h, k
    <3>5. /\ rows'[r].rank = rows[r].rank
          /\ (rows[r].rank > 0 => rows'[r].first = h.first /\ rows'[r].attempt = h.attempt)
      BY <2>1, <2>3, <2>4 DEF new
    <3> QED BY <1>2, <1>3, <3>2, <3>4, <3>5 DEF InStep, g, h, k
  <2>5. CASE k \notin rest.kept
    <3> HIDE DEF new, g, h, k
    <3>1. /\ h = g /\ rows'[r].rank = rows[r].rank
          /\ rows'[r].first = rows[r].first /\ rows'[r].attempt = rows[r].attempt
      BY <2>1, <2>3, <2>5 DEF new
    <3> QED BY <1>2, <1>3, <3>1 DEF InStep, g, h, k
  <2> QED BY <2>4, <2>5
<1>7. CASE (ExpireGhostDemands \/ Tick) /\ UNCHANGED groups
  <2>1. ASSUME NEW at \in Nat, rows'[r] = Expire(rows[r], at)
        PROVE  /\ rows'[r].first = rows[r].first /\ rows'[r].attempt = rows[r].attempt
               /\ rows'[r].rank = rows[r].rank
    BY <1>1, <2>1 DEF Expire, Row
  <2>2. /\ rows'[r].first = rows[r].first /\ rows'[r].attempt = rows[r].attempt
        /\ rows'[r].rank = rows[r].rank /\ h = g
    BY <1>7, <2>1, Expired
  <2> HIDE DEF g, h, k
  <2> QED BY <1>2, <1>3, <2>2 DEF InStep, g, h, k
<1>8. CASE UNCHANGED demand
  BY <1>2, <1>3, <1>8 DEF demand
<1> QED BY <1>5, <1>6, <1>7, <1>8, OnlyRowSteps DEF RowStep

-----------------------------------------------------------------------------
LEMMA Invariance == Spec => []IInv
<1>1. Init => IInv
  <2> SUFFICES ASSUME Init PROVE IInv
    OBVIOUS
  <2>1. TypeOK
    BY TypeInit
  <2>2. /\ ing.pc = "idle" /\ rest.pc = "idle" /\ rest.kept = {} /\ acked = {} /\ ledger = {} /\ pipe = <<>>
    BY IdleIsIngester, NoRestIsPass DEF Init
  <2>3. \A r \in Requests : rows[r] = NoRow
    BY DEF Init
  <2>4. Recovered
    BY <2>2 DEF Recovered
  <2>5. HiddenIsWaiting /\ Seen /\ Aged
    BY <2>2, <2>3 DEF HiddenIsWaiting, Seen, Aged, NoRow
  <2>6. Dated
    <3>1. \A k \in Jobs : job[k].attempt \in Nat /\ (job[k].st # "none" => job[k].since >= 1)
                          /\ (k \in Others => job[k].st # "none")
      BY DEF Init
    <3>2. \A k \in Keys : k \in Jobs /\ groups[k].attempt = 0
      BY DEF Init, Keys
    <3>3. Len(pipe) = 0
      BY <2>2
    <3> QED BY <2>2, <3>1, <3>2, <3>3 DEF Dated, Others
  <2> QED BY <2>1, <2>4, <2>5, <2>6 DEF IInv
<1>2. IInv /\ [Next]_vars => IInv'
  <2> SUFFICES ASSUME IInv, [Next]_vars PROVE IInv'
    OBVIOUS
  <2>1. TypeOK /\ Recovered /\ HiddenIsWaiting /\ Seen /\ Dated /\ Aged
    BY DEF IInv
  <2>2. TypeOK' /\ Recovered' /\ HiddenIsWaiting' /\ Seen' /\ Dated'
    BY <2>1, TypeStep, RecoveredStep, HiddenStep, SeenStep, DatedStep
  <2>3. Aged'
    BY <2>1, AgedRow DEF Aged
  <2> QED BY <2>2, <2>3 DEF IInv
<1> QED BY <1>1, <1>2, PTL DEF Spec

\* Whatever messages are redelivered, sequences restarted and processes ended
\* between the commit and the deletion: an acknowledged message's event is in
\* the rows for good (ScaleSet.Handle, ApplyDemandBatch).
THEOREM AcknowledgedIsDurable == Spec => []AckedIsDurable
<1>1. IInv => AckedIsDurable
  BY DEF IInv, Recovered, Durable, RankOf, AckedIsDurable
<1> QED BY Invariance, <1>1, PTL

\* Whatever REST and the clock conclude, and in whichever order the broker's
\* events arrive: only waiting work is hidden (ExpireGhostDemands,
\* ExpireOverdueDemands).
THEOREM HidingIsForWaiting == Spec => []HiddenIsWaiting
<1>1. IInv => HiddenIsWaiting
  BY DEF IInv
<1> QED BY Invariance, <1>1, PTL

\* However the broker, the clock and the tick move the rows while a snapshot
\* is bounded, committed and concluded from: it hides no job that it lists
\* (boundToOwnShare, ExpireGhostDemands).
THEOREM GhostsAreAbsent == Spec => GhostWasNotListed
<1> DEFINE A == \A r \in Requests : /\ rest.pc = "expire" /\ ~rows[r].expired
                                    /\ rows'[r].expired /\ rest'.pc = "idle"
                                    => Request[r].job \notin DOMAIN rest.jobs
<1>1. IInv /\ [Next]_vars => [A]_vars
  <2> SUFFICES ASSUME IInv, [Next]_vars, NEW r \in Requests, rest.pc = "expire", ~rows[r].expired,
                      rows'[r].expired, rest'.pc = "idle", LogicalKey(r) \in DOMAIN rest.jobs
               PROVE  FALSE
    BY DEF LogicalKey
  <2>1. TypeOK /\ Seen /\ rows[r] \in Row /\ rest \in Pass
    BY DEF IInv, TypeOK
  <2>2. CASE ExpireGhostDemands
    <3>1. Expirable(rows[r]) /\ ProvenAbsent(rows[r])
      BY <2>2 DEF ExpireGhostDemands
    <3>2. Calm(rows[r]) \/ rows[r].since >= rest.at
      BY <2>1 DEF Seen
    <3>3. /\ rows[r].since >= 1 /\ rows[r].since <= rest.at - GhostAbsence /\ rows[r].corroborated # 0
          /\ rows[r].since \in Nat /\ rest.at \in Nat
      BY <2>1, <3>1, PassFields, Bounds DEF ProvenAbsent, Row
    <3>4. ~Calm(rows[r])
      BY <3>1, <3>3 DEF Calm, Expirable
    <3> QED BY <3>2, <3>3, <3>4, Bounds
  <2>3. CASE Tick
    BY <2>3 DEF Tick
  <2>4. CASE ~ExpireGhostDemands /\ ~Tick
    <3>1. ~ReconcileGitHubJobSnapshot
      BY DEF ReconcileGitHubJobSnapshot
    <3>2. CASE ApplyDemandBatch
      BY <3>2 DEF ApplyDemandBatch, Env
    <3>3. CASE UNCHANGED demand
      BY <3>3 DEF demand
    <3> QED BY <2>4, <3>1, <3>2, <3>3, OnlyRowSteps DEF RowStep
  <2> QED BY <2>2, <2>3, <2>4
<1>2. [][A]_vars => GhostWasNotListed
  BY PTL DEF GhostWasNotListed
<1> QED BY Invariance, <1>1, <1>2, PTL DEF Spec

\* Whatever sightings, events and re-runs interleave: a waiting request grows
\* younger only under another run attempt (demand_groups.first_queue_time).
THEOREM AgeIsKept == Spec => QueueAgeIsKept
<1> DEFINE A == \A r \in Requests : /\ Expirable(rows[r]) /\ rows'[r].first > rows[r].first
                                    => rows'[r].attempt # rows[r].attempt
<1>1. IInv /\ [Next]_vars => [A]_vars
  <2> SUFFICES ASSUME IInv, [Next]_vars, NEW r \in Requests, Expirable(rows[r]),
                      rows'[r].first > rows[r].first, rows'[r].attempt = rows[r].attempt
               PROVE  FALSE
    OBVIOUS
  <2>1. TypeOK /\ Dated /\ Aged /\ rows[r].rank > 0
    BY DEF IInv, Expirable, Available
  <2>2. rows[r].first \in Nat /\ rows'[r].first \in Nat
    BY <2>1, TypeStep DEF TypeOK, Row
  <2>3. rows'[r].first <= rows[r].first
    BY <2>1, AgedRow
  <2> QED BY <2>2, <2>3
<1>2. [][A]_vars => QueueAgeIsKept
  BY PTL DEF QueueAgeIsKept
<1> QED BY Invariance, <1>1, <1>2, PTL DEF Spec

=============================================================================
