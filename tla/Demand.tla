------------------------------- MODULE Demand -------------------------------
(***************************************************************************)
(* The durable demand of a node: what GitHub's broker messages and its     *)
(* REST inventory leave in runner_demands, and what the engine may plan    *)
(* from it (internal/adapters/sqlite/inbox.go, internal/app/demand.go, the *)
(* demand half of internal/app/tick.go, and the message source of          *)
(* internal/adapters/githubscaleset).                                      *)
(*                                                                         *)
(* Three goroutines share the rows: the ingester of a message session      *)
(* (statistics, batch and acknowledgement are three separate commits), the *)
(* REST reconciler (list, bound, commit, expire) and the engine tick. Each *)
(* step below is one call that commits or reads on its own, so the three   *)
(* interleave between any two of them, and the process may stop anywhere.  *)
(*                                                                         *)
(* GitHub is the environment: jobs queue, are offered, assigned, start,    *)
(* end, are cancelled without a word and are re-run under a new request of *)
(* the same logical key. A message stays at the broker until it is deleted *)
(* and the broker may restart its message ids.                             *)
(***************************************************************************)
EXTENDS Routing, Integers, Sequences

CONSTANTS Jobs,          \* logical jobs: one owner/repo/run/name/labels each
          Job,           \* [Jobs -> [repo, labels]]
          Bindings,      \* the scope's bindings, as module Routing reads them
          Own,           \* the binding whose session and rows are modelled
          Peers,         \* foreign sets of a fresh audit
          Requests,      \* runner request ids, as numbers
          Request,       \* [Requests -> [job, attempt, preassigned]]
          Shares,        \* statistics a message may carry: [available, held]
          GhostAbsence, MinObservations, OverdueTTL, StatisticsMaxAge,
          FirstId,       \* the id the broker's running sequence has reached
          MaxTime, MaxId, MaxRestarts, MaxGuests    \* bounds of the instance

ASSUME DemandAssumption ==
  /\ Requests \subseteq Nat \ {0} /\ Own \in Bindings
  /\ \A r \in Requests : Request[r].job \in Jobs
  /\ \A r, q \in Requests : Request[r].job = Request[q].job
                            /\ Request[r].attempt = Request[q].attempt => r = q
  /\ {GhostAbsence, MinObservations, OverdueTTL, FirstId, MaxTime, MaxId} \subseteq Nat \ {0}

VARIABLES now,      \* the clock, from 1: zero is the unset instant
          job,      \* GitHub's truth: [Jobs -> [st, attempt, since]]
          pipe,     \* messages the broker has not deleted, oldest first
          nextId, restarts,
          acked,    \* contents the broker deleted on acknowledgement
          ing,      \* the ingester: [pc, msg]
          ledger,   \* scale_set_inbox: a set of [gen, id, digest]
          cursor,   \* scale_set_cursors: [gen, id]
          stats,    \* scale_set_statistics: [id, available, held, at]
          rows,     \* runner_demands: [Requests -> row]
          groups,   \* demand_groups that rows join: [first, attempt] per job
          mark,     \* github_job_snapshots.observed_at
          rest,     \* the REST reconciler: [pc, at, jobs, kept], where
                    \* jobs gives the attempt and queue time of each job listed
          live      \* demand keys of live instances

broker == <<pipe, nextId, restarts, acked>>
inbox == <<ledger, cursor, stats>>
demand == <<rows, groups>>
vars == <<now, job, broker, ing, inbox, demand, mark, rest, live>>

Available == 1
Assigned == 2
Started == 3
Completed == 4

NoMessage == [id |-> 0, request |-> 0, kind |-> 0, queue |-> 0]
NoRow == [rank |-> 0, first |-> 0, attempt |-> 0, updated |-> 0,
          corroborated |-> 0, since |-> 0, observations |-> 0, expired |-> FALSE]
NoRest == [pc |-> "idle", at |-> 0, jobs |-> <<>>, kept |-> {}]
Others == {k \in Jobs : \A r \in Requests : Request[r].job # k}  \* queued for other nodes
Idle == [pc |-> "idle", msg |-> NoMessage]

Init == /\ now = 1
        /\ job = [k \in Jobs |-> IF k \in Others
                     THEN [st |-> "queued", attempt |-> 1, since |-> 1]
                     ELSE [st |-> "none", attempt |-> 0, since |-> 0]]
        /\ pipe = <<>> /\ nextId = FirstId /\ restarts = 0 /\ acked = {}
        /\ ing = Idle
        /\ ledger = {} /\ cursor = [gen |-> 0, id |-> 0]
        /\ stats = [id |-> 0, available |-> 0, held |-> 0, at |-> 0]
        /\ rows = [r \in Requests |-> NoRow]
        /\ groups = [k \in Jobs \ Others |-> [first |-> 0, attempt |-> 0]]
        /\ mark = 0
        /\ rest = NoRest
        /\ live = {}

Clock == /\ now < MaxTime /\ now' = now + 1
         /\ UNCHANGED <<job, broker, ing, inbox, demand, mark, rest, live>>

----------------------------------------------------------------------------
(* GitHub. REST reports a job as queued until it starts.                   *)

Store == <<ing, inbox, demand, mark, rest, live>>
Queued == {k \in Jobs : job[k].st \in {"queued", "offered"}}
RequestsOf(k) == {r \in Requests : /\ Request[r].job = k
                                   /\ Request[r].attempt = job[k].attempt}
Send(r, kind) == /\ nextId <= MaxId
                 /\ pipe' = Append(pipe, [id |-> nextId, request |-> r, kind |-> kind,
                                          queue |-> job[Request[r].job].since])
                 /\ nextId' = nextId + 1
                 /\ UNCHANGED <<restarts, acked>>

Queue(k) == /\ job[k].st \in {"none", "done"}
            /\ \E r \in Requests : Request[r].job = k /\ Request[r].attempt = job[k].attempt + 1
            /\ job' = [job EXCEPT ![k] = [st |-> "queued", attempt |-> @.attempt + 1, since |-> now]]
            /\ UNCHANGED <<now, broker, Store>>

(* The kind of the message and the states it moves the job between.        *)
Moves == {<<"queued", Available, "offered">>, <<"offered", Started, "running">>,
          <<"running", Completed, "done">>}

Advance(k) == \E m \in Moves, r \in RequestsOf(k) :
  /\ job[k].st = m[1]
  /\ Send(r, IF m[2] = Available /\ Request[r].preassigned THEN Assigned ELSE m[2])
  /\ job' = [job EXCEPT ![k].st = m[3]]
  /\ UNCHANGED <<now, Store>>

CancelSilently(k) == /\ k \in Queued \ Others
                     /\ job' = [job EXCEPT ![k].st = "done"]
                     /\ UNCHANGED <<now, broker, Store>>

SequenceRestart == /\ pipe = <<>> /\ nextId > FirstId /\ restarts < MaxRestarts
                   /\ nextId' = 1 /\ restarts' = restarts + 1
                   /\ UNCHANGED <<now, job, pipe, acked, Store>>

----------------------------------------------------------------------------
(* The message session. Handle commits first and deletes the message last; *)
(* any failure in between, a crash included, leaves the message remote.    *)

Env == <<now, job, mark, rest, live>>

(* An assignment without a request id is the capacity signal itself: it is *)
(* filed under a synthetic id as an available job.                         *)
EventFromBase(m) == [request |-> m.request, queue |-> m.queue,
                     kind |-> IF Request[m.request].preassigned /\ m.kind = Assigned
                                THEN Available ELSE m.kind]
Digest(m) == <<m.request, m.kind>>

NextMessage == ing.pc = "idle" /\ pipe # <<>>   \* the oldest undeleted message
AcceptStatistics(m, s) ==
  IF m.id >= stats.id
    THEN [id |-> m.id, available |-> s.available, held |-> s.held, at |-> now]
    ELSE stats

(* The commit callback stores the statistics of the message before         *)
(* anything else, in a commit of their own.                                *)
PutDemandStatistics ==
  /\ NextMessage
  /\ \E s \in Shares : stats' = AcceptStatistics(Head(pipe), s)
  /\ ing' = [pc |-> "apply", msg |-> Head(pipe)]
  /\ UNCHANGED <<Env, broker, ledger, cursor, demand>>

Recorded(m) == {l \in ledger : l.gen = cursor.gen /\ l.id = m.id}
DuplicateById(m) == Recorded(m) # {}                                   \* mutant
Duplicate(m) == \E l \in Recorded(m) : l.digest = Digest(m)
InboxGeneration(m) == IF Recorded(m) = {} \/ Duplicate(m) THEN cursor.gen ELSE cursor.gen + 1

MaxOf(a, b) == IF a >= b THEN a ELSE b
Earliest(a, b) == IF a = 0 THEN b ELSE IF b = 0 \/ a < b THEN a ELSE b

GroupAfterEventLatest(g, queue) == [g EXCEPT !.first = queue]         \* mutant
GroupAfterEvent(g, queue) ==
  [g EXCEPT !.first = IF g.attempt > 0 THEN g.first ELSE Earliest(g.first, queue)]

MergeKeepsExpiry(row, e, g) ==                                        \* mutant
  [row EXCEPT !.rank = MaxOf(row.rank, e.kind), !.updated = now,
              !.first = g.first, !.attempt = g.attempt]
(* mergeDemandEvent and the upsert: status never falls back, and broker    *)
(* evidence retracts every absence REST concluded.                         *)
MergeDemandEvent(row, e, g) ==
  [row EXCEPT !.rank = MaxOf(row.rank, e.kind), !.updated = now,
              !.first = g.first, !.attempt = g.attempt,
              !.since = 0, !.observations = 0, !.expired = FALSE]

LogicalKey(r) == Request[r].job   \* repository, run, display name and labels
ApplyDemandEvent(e) ==
  LET k == LogicalKey(e.request)
      g == GroupAfterEvent(groups[k], e.queue)
  IN /\ groups' = [groups EXCEPT ![k] = g]
     /\ rows' = [rows EXCEPT ![e.request] = MergeDemandEvent(@, e, g)]

ApplyDemandBatch ==
  LET m == ing.msg
      gen == InboxGeneration(m)
      kept == IF gen > cursor.gen THEN {l \in ledger : l.gen >= gen - 1} ELSE ledger
  IN /\ ing.pc = "apply"
     /\ ing' = [ing EXCEPT !.pc = "ack"]
     /\ \/ /\ Duplicate(m)
           /\ UNCHANGED <<ledger, cursor, demand>>
        \/ /\ ~Duplicate(m)
           /\ ApplyDemandEvent(EventFromBase(m))
           /\ ledger' = kept \cup {[gen |-> gen, id |-> m.id, digest |-> Digest(m)]}
           /\ cursor' = [gen |-> gen, id |-> IF gen > cursor.gen THEN m.id
                                             ELSE MaxOf(cursor.id, m.id)]
     /\ UNCHANGED <<Env, broker, stats>>

Ack == /\ ing.pc = "ack"
       /\ pipe' = Tail(pipe) /\ acked' = acked \cup {Digest(ing.msg)}
       /\ ing' = Idle
       /\ UNCHANGED <<Env, nextId, restarts, inbox, demand>>

Nack == /\ ing.pc # "idle" /\ ing' = Idle
        /\ UNCHANGED <<Env, broker, inbox, demand>>

----------------------------------------------------------------------------
(* The REST reconciler: one sequential listing of the scope, bounded to    *)
(* this node's share of a shared label, committed for every binding in one *)
(* transaction, then the ghost expiry that the same snapshot dates.        *)

World == <<now, job, broker, ing, inbox, live>>

RestFails == /\ rest.pc # "idle" /\ rest' = NoRest
             /\ UNCHANGED <<World, demand, mark>>

Fresh == stats.id > 0 /\ now - stats.at <= StatisticsMaxAge
ObservedShare == IF Fresh THEN stats.available + stats.held ELSE 0
ActiveDemands == {r \in Requests : ~rows[r].expired /\ rows[r].rank \in Available..Started}

(* A correlated numeric job id vouches for the same job as its names do.   *)
VouchedNone == {}                                                     \* mutant
VouchedJobs == {LogicalKey(r) : r \in ActiveDemands}

Older(k, l) == \/ job[k].since < job[l].since
               \/ job[k].since = job[l].since /\ Job[k].id < Job[l].id
OldestJobs(S, n) == {k \in S : Cardinality({l \in S : Older(l, k)}) < n}

BoundToOwnShare(J) ==
  LET vouched == J \cap VouchedJobs
  IN IF Cardinality(J) <= ObservedShare THEN J
     ELSE vouched \cup OldestJobs(J \ vouched, MaxOf(ObservedShare - Cardinality(vouched), 0))

(* What one sequential pass over runs and jobs may list: a job whose run   *)
(* changed status meanwhile may be on no page of it.                       *)
Listings == {S \cup Others : S \in SUBSET (Queued \ Others)}

(* One job that cannot be routed fails the whole pass.                     *)
Observe ==
  /\ rest.pc = "idle"
  /\ \E J \in Listings :
       LET listed == {Job[k] : k \in J}
           claimed == {k \in J : Own \in Matching(Bindings, Job[k])}
       IN /\ ~RoutingFails(Bindings, listed, Peers)
          /\ rest' = [pc |-> "commit", at |-> now, jobs |-> [k \in J |-> job[k]],
                      kept |-> IF Contended(Bindings, listed, Own)
                                 THEN BoundToOwnShare(claimed) ELSE claimed]
  /\ UNCHANGED <<World, demand, mark>>

(* A sighting under another run attempt restarts the age of the group.     *)
GroupAfterSighting(g, seen) ==
  [first |-> IF g.attempt > 0 /\ g.attempt # seen.attempt THEN seen.since
             ELSE Earliest(g.first, seen.since),
   attempt |-> seen.attempt]

Corroborate(row, g) == [row EXCEPT !.first = g.first, !.attempt = g.attempt,
                          !.updated = rest.at, !.corroborated = rest.at,
                          !.since = 0, !.observations = 0, !.expired = FALSE]
AccruesAbsence(row) == /\ row.rank = Available /\ ~row.expired
                       /\ row.corroborated \in 1..(rest.at - 1)
AccrueAbsentDemand(row) ==
  IF AccruesAbsence(row)
    THEN [row EXCEPT !.since = IF @ = 0 THEN rest.at ELSE @, !.observations = @ + 1]
    ELSE row

ReconcileGitHubJobs(r, g) ==
  LET row == IF LogicalKey(r) \in rest.kept THEN Corroborate(rows[r], g) ELSE rows[r]
  IN IF rows[r].rank > 0 /\ rest.at > mark THEN AccrueAbsentDemand(row)
     ELSE IF rows[r].rank > 0 THEN row ELSE rows[r]

ReconcileGitHubJobSnapshot ==
  /\ rest.pc = "commit"
  /\ groups' = [k \in Jobs \ Others |-> IF k \in rest.kept
                                 THEN GroupAfterSighting(groups[k], rest.jobs[k])
                                 ELSE groups[k]]
  /\ rows' = [r \in Requests |-> ReconcileGitHubJobs(r, groups'[LogicalKey(r)])]
  /\ mark' = MaxOf(mark, rest.at)
  /\ rest' = [rest EXCEPT !.pc = "expire"]
  /\ UNCHANGED World

Expirable(row) == row.rank = Available /\ ~row.expired
ProvenAbsent(row) == /\ row.corroborated > 0
                     /\ row.since \in 1..(rest.at - GhostAbsence)
                     /\ row.observations >= MinObservations
Expire(row, at) == [row EXCEPT !.expired = TRUE, !.updated = at]

ExpireGhostDemands ==
  /\ rest.pc = "expire"
  /\ rows' = [r \in Requests |-> IF Expirable(rows[r]) /\ ProvenAbsent(rows[r])
                                  THEN Expire(rows[r], rest.at) ELSE rows[r]]
  /\ rest' = NoRest
  /\ UNCHANGED <<World, groups, mark>>

----------------------------------------------------------------------------
(* The engine tick's half: overdue rows leave the queue, the rest is       *)
(* offered oldest first, one request per logical job, within what the      *)
(* statistics say is waiting; without fresh statistics one at a time.      *)

Overdue(row) == Expirable(row) /\ row.first \in 1..(now - OverdueTTL)
AfterOverdue == [r \in Requests |-> IF Overdue(rows[r]) THEN Expire(rows[r], now) ELSE rows[r]]

Newer(table, r, q) == \/ table[r].updated > table[q].updated
                      \/ table[r].updated = table[q].updated /\ r > q
OldestRequests(table, S, n) ==
  {r \in S : Cardinality({q \in S : \/ table[q].first < table[r].first
                                    \/ table[q].first = table[r].first /\ q < r}) < n}

Canonical(table) ==
  LET waiting == {r \in Requests : Expirable(table[r])}
  IN {r \in waiting : \A q \in waiting \ {r} :
        Request[q].job = Request[r].job => Newer(table, r, q)}

QueuedDemands(table) ==
  LET selected == Canonical(table)
      preassigned == {r \in selected : Request[r].preassigned}
  IN IF ~Fresh THEN selected
     ELSE OldestRequests(table, preassigned, stats.held)
          \cup OldestRequests(table, selected \ preassigned, stats.available)

DemandKey(row, r) == <<r, MaxOf(row.attempt, 1)>>
Plannable(table) == {r \in QueuedDemands(table) : DemandKey(table[r], r) \notin live}
Trickle(table, S) == OldestRequests(table, S, 1)
Schedulable(table) == IF Fresh THEN Plannable(table) ELSE Trickle(table, Plannable(table))

(* Which of the schedulable demands get a guest is the scheduler's choice. *)
Tick == /\ rows' = AfterOverdue
        /\ \E S \in SUBSET Schedulable(rows') :
             /\ Cardinality(S) + Cardinality(live) <= MaxGuests
             /\ live' = live \cup {DemandKey(rows'[r], r) : r \in S}
        /\ UNCHANGED <<now, job, broker, ing, inbox, groups, mark, rest>>

(* An instance ends, whatever became of its job (module Lifecycle).        *)
InstanceEnds == /\ \E d \in live : live' = live \ {d}
                /\ UNCHANGED <<now, job, broker, ing, inbox, demand, mark, rest>>

Crash == /\ ing' = Idle /\ rest' = NoRest
         /\ UNCHANGED <<now, job, broker, inbox, demand, mark, live>>

----------------------------------------------------------------------------
Next == \/ Clock \/ SequenceRestart
        \/ \E k \in Jobs : Queue(k) \/ Advance(k) \/ CancelSilently(k)
        \/ PutDemandStatistics \/ ApplyDemandBatch \/ Ack \/ Nack
        \/ Observe \/ RestFails
        \/ ReconcileGitHubJobSnapshot \/ ExpireGhostDemands
        \/ Tick \/ InstanceEnds \/ Crash

Spec == Init /\ [][Next]_vars

----------------------------------------------------------------------------
(* An acknowledged message is durable: the broker deletes it only once its *)
(* event is in the rows, whatever restarts of the message sequence,        *)
(* redeliveries and crashes came in between, and no later event takes it   *)
(* back (ScaleSet.Handle, ApplyDemandBatch).                               *)
AckedIsDurable ==
  \A d \in acked : rows[d[1]].rank >=
     EventFromBase([request |-> d[1], kind |-> d[2], queue |-> 0]).kind

(* Expiry only ever hides work that is still waiting: a request GitHub     *)
(* assigned, started or completed is never left hidden by a conclusion the *)
(* REST lane or the clock reached before (ExpireGhostDemands,              *)
(* ExpireOverdueDemands and the upsert of applyDemandEvent).               *)
HiddenIsWaiting == \A r \in Requests : rows[r].expired => rows[r].rank = Available

(* Ghost expiry never hides a job that the snapshot dating the conclusion  *)
(* contained, although the rows it vouches for were read before the commit *)
(* and the broker and the clock moved in between (boundToOwnShare).        *)
GhostWasNotListed ==
  [][\A r \in Requests : /\ rest.pc = "expire" /\ ~rows[r].expired
                         /\ rows'[r].expired /\ rest'.pc = "idle"
                         => Request[r].job \notin DOMAIN rest.jobs]_vars

(* A waiting request never loses its place in the queue: its age moves     *)
(* only to an earlier instant, unless GitHub itself reports another run    *)
(* attempt of the job (demand_groups.first_queue_time).                    *)
QueueAgeIsKept ==
  [][\A r \in Requests : /\ Expirable(rows[r]) /\ rows'[r].first > rows[r].first
                         => rows'[r].attempt # rows[r].attempt]_vars

(* A job queued less than the overdue bound ago is never hidden as overdue: *)
(* demand.go:829 calls such a row "a job GitHub has already failed".        *)
OverdueIsDead ==
  [][\A r \in Requests : /\ ~rows[r].expired /\ rows'[r].expired
                         /\ UNCHANGED rest /\ r \in RequestsOf(Request[r].job)
                         /\ Request[r].job \in Queued
                         => job[Request[r].job].since <= now - OverdueTTL]_vars

(* One live instance per request: "an instance bound to a demand and the   *)
(* queue entry for that demand must name one key" (demand.go:1096).        *)
OneGuestPerRequest == \A d, e \in live : d[1] = e[1] => d = e
=============================================================================
