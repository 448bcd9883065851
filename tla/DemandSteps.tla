---------------------------- MODULE DemandSteps -----------------------------
(***************************************************************************)
(* The types of Demand, the invariants that make its properties inductive, *)
(* what its operators return, what one step may do to a row, and that      *)
(* every step keeps the types, what was acknowledged and what is hidden.   *)
(* The proofs of DemandProofs rest on these lemmas.                        *)
(***************************************************************************)
EXTENDS Demand, TLAPS

-----------------------------------------------------------------------------
(* Types *)

Kinds == 1 .. 4
JobRecord == [st : {"none", "queued", "offered", "running", "done"}, attempt : Nat, since : Nat]
Message == [id : Nat, request : Requests, kind : Kinds, queue : Nat]
Ingester == [pc : {"idle", "apply", "ack"}, msg : Message \cup {NoMessage}]
Row == [rank : 0 .. 4, first : Nat, attempt : Nat, updated : Nat,
        corroborated : Nat, since : Nat, observations : Nat, expired : BOOLEAN]
Group == [first : Nat, attempt : Nat]
Listing == UNION {[S -> JobRecord] : S \in SUBSET Jobs}
Pass == [pc : {"idle", "commit", "expire"}, at : Nat, jobs : Listing, kept : SUBSET Jobs]
Keys == Jobs \ Others

TypeOK ==
  /\ now \in Nat \ {0}
  /\ job \in [Jobs -> JobRecord]
  /\ pipe \in Seq(Message) /\ nextId \in Nat
  /\ ing \in Ingester /\ (ing.pc # "idle" => ing.msg \in Message /\ pipe # <<>>)
  /\ rows \in [Requests -> Row]
  /\ groups \in [Keys -> Group]
  /\ mark \in Nat
  /\ rest \in Pass /\ rest.kept \subseteq DOMAIN rest.jobs

-----------------------------------------------------------------------------
(* What makes each property inductive *)

\* The rank an event leaves at least, and that a digest stands for.
RankOf(d) == EventFromBase([request |-> d[1], kind |-> d[2], queue |-> 0]).kind
Durable(d) == d \in Requests \X Kinds /\ rows[d[1]].rank >= RankOf(d)

\* Whatever the ledger, the acknowledgements and the ingester remember of a
\* message is in the rows: a redelivery that the ledger calls a duplicate was
\* applied before.
Recovered ==
  /\ \A d \in acked : Durable(d)
  /\ \A l \in ledger : Durable(l.digest)
  /\ ing.pc = "ack" => Durable(Digest(ing.msg))

\* Only a job that routes to this binding was ever seen by it; a row the
\* snapshot in flight lists, and does not corroborate, has no absence behind
\* it; and once the snapshot is committed, no absence older than itself.
Claimed(k) == Own \in Matching(Bindings, Job[k])
Calm(row) == row.since = 0 \/ row.rank # Available \/ row.expired \/ row.corroborated = 0
Seen ==
  /\ \A r \in Requests : rows[r].corroborated > 0 => Claimed(LogicalKey(r))
  /\ \A k \in rest.kept : Claimed(k)
  /\ rest.pc = "commit" => \A r \in Requests :
       LogicalKey(r) \in DOMAIN rest.jobs \ rest.kept => Calm(rows[r])
  /\ rest.pc = "expire" => \A r \in Requests :
       LogicalKey(r) \in DOMAIN rest.jobs => Calm(rows[r]) \/ rows[r].since >= rest.at

\* Attempts only grow: from a row to its group, to the snapshot in flight, to
\* GitHub.  A row of the group's attempt is no older than the group.
Dated ==
  /\ \A k \in Jobs : job[k].st # "none" => job[k].since >= 1
  /\ \A k \in Others : job[k].st # "none"
  /\ \A i \in 1 .. Len(pipe) : pipe[i].queue >= 1
  /\ ing.pc # "idle" => ing.msg.queue >= 1
  /\ \A k \in Keys : groups[k].attempt <= job[k].attempt /\ (groups[k].attempt > 0 => groups[k].first >= 1)
  /\ rest.pc = "commit" => \A k \in DOMAIN rest.jobs :
       /\ rest.jobs[k].since >= 1 /\ rest.jobs[k].attempt <= job[k].attempt
       /\ k \in Keys => groups[k].attempt <= rest.jobs[k].attempt
InStep(row, g) == /\ g.first >= 1 /\ row.attempt <= g.attempt
                  /\ row.attempt = g.attempt => g.first <= row.first
Aged == \A r \in Requests : rows[r].rank > 0 => InStep(rows[r], groups[LogicalKey(r)])

IInv == TypeOK /\ Recovered /\ HiddenIsWaiting /\ Seen /\ Dated /\ Aged

-----------------------------------------------------------------------------
(* The operators *)

LEMMA Bounds ==
  /\ GhostAbsence \in Nat \ {0} /\ OverdueTTL \in Nat \ {0} /\ FirstId \in Nat /\ MaxId \in Nat
  /\ Own \in Bindings
BY DemandAssumption

\* A request's job is one that rows join.
LEMMA KeyOfRequest == ASSUME NEW r \in Requests PROVE LogicalKey(r) \in Keys
BY DemandAssumption DEF LogicalKey, Keys, Others

\* EventFromBase names a kind of its own.
LEMMA EventOfMessage ==
  ASSUME NEW m \in Message
  PROVE  /\ EventFromBase(m).request = m.request /\ EventFromBase(m).queue = m.queue
         /\ m.request \in Requests /\ m.queue \in Nat
         /\ EventFromBase(m).kind \in Kinds
         /\ Digest(m) \in Requests \X Kinds /\ RankOf(Digest(m)) = EventFromBase(m).kind
<1>1. m.request \in Requests /\ m.kind \in Kinds /\ m.queue \in Nat
  BY DEF Message
<1>2. Available \in Kinds /\ Assigned \in Kinds
  BY DEF Kinds, Available, Assigned
<1>3. Digest(m) = <<m.request, m.kind>> /\ Digest(m)[1] = m.request /\ Digest(m)[2] = m.kind
  BY DEF Digest
<1>4. /\ EventFromBase(m).request = m.request /\ EventFromBase(m).queue = m.queue
      /\ EventFromBase(m).kind = IF Request[m.request].preassigned /\ m.kind = Assigned
                                   THEN Available ELSE m.kind
  BY DEF EventFromBase
<1>5. RankOf(Digest(m)) = IF Request[m.request].preassigned /\ m.kind = Assigned
                            THEN Available ELSE m.kind
  BY <1>3 DEF RankOf, EventFromBase
<1> QED BY <1>1, <1>2, <1>3, <1>4, <1>5

\* mergeDemandEvent, field by field.
LEMMA MergeFields ==
  ASSUME NEW row \in Row, NEW e, e.kind \in Kinds, NEW g \in Group, now \in Nat
  PROVE  LET new == MergeDemandEvent(row, e, g)
         IN /\ new \in Row /\ new.rank = MaxOf(row.rank, e.kind) /\ new.rank > 0
            /\ new.first = g.first /\ new.attempt = g.attempt
            /\ new.corroborated = row.corroborated /\ new.since = 0 /\ new.expired = FALSE
<1> DEFINE n == MaxOf(row.rank, e.kind)
<1>1. n \in 0 .. 4 /\ n > 0
  BY DEF MaxOf, Row, Kinds
<1>2. g.first \in Nat /\ g.attempt \in Nat
  BY DEF Group
<1> DEFINE f == g.first
           a == g.attempt
           new == [row EXCEPT !.rank = n, !.updated = now, !.first = f, !.attempt = a,
                              !.since = 0, !.observations = 0, !.expired = FALSE]
<1>3. MergeDemandEvent(row, e, g) = new
  BY Zenon DEF MergeDemandEvent
<1>4. f \in Nat /\ a \in Nat
  BY <1>2
<1> HIDE DEF n, f, a
<1>5. new \in Row
  BY <1>1, <1>4, Zenon DEF Row
<1>6. /\ new.rank = n /\ new.first = f /\ new.attempt = a
      /\ new.corroborated = row.corroborated /\ new.since = 0 /\ new.expired = FALSE
  BY DEF Row
<1> HIDE DEF new
<1> QED BY <1>1, <1>3, <1>5, <1>6 DEF n, f, a

\* The earlier of two instants, of which zero is none.
LEMMA EarliestFacts ==
  ASSUME NEW a \in Nat, NEW b \in Nat
  PROVE  /\ Earliest(a, b) \in Nat
         /\ a >= 1 => Earliest(a, b) <= a
         /\ a >= 1 \/ b >= 1 => Earliest(a, b) >= 1
BY DEF Earliest

LEMMA GroupAfterEventFacts ==
  ASSUME NEW g \in Group, NEW q \in Nat
  PROVE  LET new == GroupAfterEvent(g, q)
         IN /\ new \in Group /\ new.attempt = g.attempt
            /\ g.first >= 1 => new.first >= 1 /\ new.first <= g.first
            /\ q >= 1 /\ (g.attempt > 0 => g.first >= 1) => new.first >= 1
<1> DEFINE f == IF g.attempt > 0 THEN g.first ELSE Earliest(g.first, q)
<1>1. /\ g.first \in Nat /\ g.attempt \in Nat
  BY DEF Group
<1>2. /\ f \in Nat /\ (g.first >= 1 => f >= 1 /\ f <= g.first)
      /\ (q >= 1 /\ (g.attempt > 0 => g.first >= 1) => f >= 1)
  BY <1>1 DEF Earliest
<1> HIDE DEF f
<1>3. GroupAfterEvent(g, q) = [g EXCEPT !.first = f]
  BY DEF GroupAfterEvent, f
<1> QED BY <1>1, <1>2, <1>3 DEF Group

LEMMA GroupAfterSightingFacts ==
  ASSUME NEW g \in Group, NEW seen \in JobRecord
  PROVE  LET new == GroupAfterSighting(g, seen)
         IN /\ new \in Group /\ new.attempt = seen.attempt
            /\ g.first >= 1 /\ g.attempt = seen.attempt => new.first <= g.first
            /\ seen.since >= 1 => new.first >= 1
<1>1. /\ g.first \in Nat /\ g.attempt \in Nat /\ seen.since \in Nat /\ seen.attempt \in Nat
  BY DEF Group, JobRecord
<1>2. Earliest(g.first, seen.since) \in Nat
  BY <1>1, EarliestFacts, Zenon
<1> QED BY <1>1, <1>2, EarliestFacts, Zenon DEF GroupAfterSighting, Group

\* A row REST corroborates, or counts as absent once more.
LEMMA CorroborateFields ==
  ASSUME NEW row \in Row, NEW g \in Group, rest.at \in Nat
  PROVE  LET new == Corroborate(row, g)
         IN /\ new \in Row /\ new.rank = row.rank
            /\ new.first = g.first /\ new.attempt = g.attempt
            /\ new.corroborated = rest.at /\ new.since = 0 /\ new.expired = FALSE
<1>1. g.first \in Nat /\ g.attempt \in Nat
  BY DEF Group
<1> QED BY <1>1, Zenon DEF Corroborate, Row

LEMMA AccrueFields ==
  ASSUME NEW row \in Row, rest.at \in Nat
  PROVE  LET new == AccrueAbsentDemand(row)
         IN /\ new \in Row /\ new.rank = row.rank /\ new.expired = row.expired
            /\ new.first = row.first /\ new.attempt = row.attempt
            /\ new.corroborated = row.corroborated
            /\ \/ new = row
               \/ AccruesAbsence(row) /\ new.since = IF row.since = 0 THEN rest.at ELSE row.since
<1> DEFINE n == IF row.since = 0 THEN rest.at ELSE row.since
           o == row.observations + 1
<1>1. n \in Nat /\ o \in Nat
  BY DEF Row
<1> HIDE DEF n, o
<1>2. CASE AccruesAbsence(row)
  <2>1. AccrueAbsentDemand(row) = [row EXCEPT !.since = n, !.observations = o]
    BY <1>2 DEF AccrueAbsentDemand, n, o
  <2> QED BY <1>1, <1>2, <2>1, Zenon DEF Row, n
<1>3. CASE ~AccruesAbsence(row)
  BY <1>3 DEF AccrueAbsentDemand
<1> QED BY <1>2, <1>3

LEMMA ExpireFields ==
  ASSUME NEW row \in Row, NEW at \in Nat
  PROVE  LET new == Expire(row, at)
         IN /\ new \in Row /\ new.rank = row.rank /\ new.expired = TRUE
            /\ new.first = row.first /\ new.attempt = row.attempt
            /\ new.corroborated = row.corroborated /\ new.since = row.since
BY Zenon DEF Expire, Row

\* reconcileGitHubJobs, for one row: a row of a job the snapshot keeps is
\* corroborated, any other may have its absence counted.
LEMMA ReconcileFields ==
  ASSUME NEW r \in Requests, rows \in [Requests -> Row], rest \in Pass, NEW g \in Group
  PROVE  LET old == rows[r]
             new == ReconcileGitHubJobs(r, g)
         IN /\ new \in Row /\ new.rank = old.rank
            /\ old.rank = 0 => new = old
            /\ old.rank > 0 /\ LogicalKey(r) \in rest.kept =>
                 /\ new.first = g.first /\ new.attempt = g.attempt
                 /\ new.corroborated = rest.at /\ new.since = 0 /\ new.expired = FALSE
            /\ LogicalKey(r) \notin rest.kept =>
                 /\ new.first = old.first /\ new.attempt = old.attempt
                 /\ new.corroborated = old.corroborated /\ new.expired = old.expired
                 /\ \/ new = old
                    \/ AccruesAbsence(old) /\ new.since = IF old.since = 0 THEN rest.at ELSE old.since
<1> DEFINE old == rows[r]
           new == ReconcileGitHubJobs(r, g)
<1>1. old \in Row /\ rest.at \in Nat
  BY DEF Pass
<1>2. CASE ~(old.rank > 0)
  BY <1>1, <1>2 DEF ReconcileGitHubJobs, Row
<1>3. CASE old.rank > 0 /\ LogicalKey(r) \in rest.kept
  <2> DEFINE row == Corroborate(old, g)
  <2>1. /\ row \in Row /\ row.rank = old.rank
        /\ row.first = g.first /\ row.attempt = g.attempt
        /\ row.corroborated = rest.at /\ row.since = 0 /\ row.expired = FALSE
    BY <1>1, CorroborateFields, Zenon
  <2>2. new = row \/ new = AccrueAbsentDemand(row)
    BY <1>3 DEF ReconcileGitHubJobs
  <2> HIDE DEF row
  <2>3. ~AccruesAbsence(row)
    BY <1>1, <2>1 DEF AccruesAbsence
  <2>4. new = row
    BY <2>2, <2>3 DEF AccrueAbsentDemand
  <2> HIDE DEF new, old
  <2> QED BY <1>1, <1>3, <2>1, <2>4 DEF new, old
<1>4. CASE old.rank > 0 /\ LogicalKey(r) \notin rest.kept
  <2>1. new = old \/ new = AccrueAbsentDemand(old)
    BY <1>4 DEF ReconcileGitHubJobs
  <2>2. CASE new = old
    BY <1>1, <1>4, <2>2
  <2>3. CASE new = AccrueAbsentDemand(old)
    BY <1>1, <1>4, <2>3, AccrueFields
  <2> QED BY <2>1, <2>2, <2>3, Zenon
<1> QED BY <1>2, <1>3, <1>4, Zenon

\* A listing, and a pass that is over.
LEMMA PassFields ==
  ASSUME rest \in Pass
  PROVE  /\ rest.pc \in {"idle", "commit", "expire"} /\ rest.at \in Nat
         /\ rest.kept \in SUBSET Jobs /\ DOMAIN rest.jobs \subseteq Jobs
         /\ \A k \in DOMAIN rest.jobs : rest.jobs[k] \in JobRecord
BY DEF Pass, Listing

LEMMA NoRestIsPass == NoRest \in Pass /\ NoRest.pc = "idle" /\ NoRest.kept = {}
<1>1. <<>> \in [{} -> JobRecord]
  OBVIOUS
<1>2. <<>> \in Listing
  BY <1>1 DEF Listing
<1> QED BY <1>2 DEF NoRest, Pass

LEMMA IdleIsIngester == Idle \in Ingester /\ Idle.pc = "idle"
BY DEF Idle, Ingester

-----------------------------------------------------------------------------
(* Types are kept *)

LEMMA TypeInit == Init => TypeOK
<1> SUFFICES ASSUME Init PROVE TypeOK
  OBVIOUS
<1>1. job \in [Jobs -> JobRecord]
  BY DEF Init, JobRecord
<1>2. rows \in [Requests -> Row] /\ groups \in [Keys -> Group]
  BY DEF Init, Row, NoRow, Group, Keys
<1>3. pipe \in Seq(Message) /\ nextId \in Nat /\ now \in Nat \ {0} /\ mark \in Nat
  BY Bounds DEF Init
<1>4. ing \in Ingester /\ ing.pc = "idle" /\ rest \in Pass /\ rest.kept = {}
  BY IdleIsIngester, NoRestIsPass DEF Init
<1> QED BY <1>1, <1>2, <1>3, <1>4 DEF TypeOK

\* GitHub and the broker.
LEMMA TypeWorld ==
  ASSUME TypeOK, NEW k \in Jobs, Queue(k) \/ Advance(k) \/ CancelSilently(k)
  PROVE  TypeOK'
<1>1. job \in [Jobs -> JobRecord] /\ job[k] \in JobRecord /\ now \in Nat /\ nextId \in Nat
  BY DEF TypeOK
<1>2. job[k].attempt \in Nat /\ job[k].since \in Nat
  BY <1>1 DEF JobRecord
<1>3. CASE Queue(k)
  <2>1. [st |-> "queued", attempt |-> job[k].attempt + 1, since |-> now] \in JobRecord
    BY <1>1, <1>2 DEF JobRecord
  <2>2. job' \in [Jobs -> JobRecord]
    BY <1>1, <1>3, <2>1 DEF Queue
  <2> QED BY <1>3, <2>2 DEF TypeOK, Queue, broker, Store, inbox, demand
<1>4. CASE Advance(k)
  <2>1. PICK m \in Moves, r \in RequestsOf(k) :
          /\ Send(r, IF m[2] = Available /\ Request[r].preassigned THEN Assigned ELSE m[2])
          /\ job' = [job EXCEPT ![k].st = m[3]]
          /\ UNCHANGED <<now, Store>>
    BY <1>4, Zenon DEF Advance
  <2>2. m[2] \in Kinds /\ m[3] \in {"offered", "running", "done"} /\ Assigned \in Kinds
    BY DEF Moves, Kinds, Available, Assigned, Started, Completed
  <2>3. job' \in [Jobs -> JobRecord]
    BY <1>1, <2>1, <2>2 DEF JobRecord
  <2>4. PICK kind \in Kinds : Send(r, kind)
    BY <2>1, <2>2
  <2>5. r \in Requests /\ Request[r].job \in Jobs
    BY DemandAssumption DEF RequestsOf
  <2>6. job[Request[r].job].since \in Nat
    BY <1>1, <2>5 DEF JobRecord
  <2>7. [id |-> nextId, request |-> r, kind |-> kind, queue |-> job[Request[r].job].since] \in Message
    BY <1>1, <2>5, <2>6 DEF Message
  <2>8. pipe' \in Seq(Message) /\ pipe' # <<>> /\ nextId' \in Nat
    BY <1>1, <2>4, <2>7 DEF Send, TypeOK
  <2> QED BY <2>1, <2>3, <2>8 DEF TypeOK, Store, inbox, demand
<1>5. CASE CancelSilently(k)
  <2>1. job' \in [Jobs -> JobRecord]
    BY <1>1, <1>5 DEF CancelSilently, JobRecord
  <2> QED BY <1>5, <2>1 DEF TypeOK, CancelSilently, broker, Store, inbox, demand
<1> QED BY <1>3, <1>4, <1>5

\* The message session.
LEMMA TypeIngest ==
  ASSUME TypeOK, PutDemandStatistics \/ ApplyDemandBatch \/ Ack \/ Nack \/ Crash
  PROVE  TypeOK'
<1>1. CASE PutDemandStatistics
  <2>1. Head(pipe) \in Message
    BY <1>1 DEF PutDemandStatistics, NextMessage, TypeOK
  <2>2. ing' \in Ingester /\ ing'.msg \in Message
    BY <1>1, <2>1 DEF PutDemandStatistics, Ingester
  <2> QED BY <1>1, <2>2 DEF TypeOK, PutDemandStatistics, NextMessage, Env, broker, demand
<1>2. CASE ApplyDemandBatch
  <2>1. ing.pc = "apply" /\ ing.msg \in Message /\ ing' \in Ingester /\ ing'.msg = ing.msg
    BY <1>2 DEF ApplyDemandBatch, TypeOK, Ingester
  <2>2. rows' \in [Requests -> Row] /\ groups' \in [Keys -> Group]
    <3>1. CASE UNCHANGED demand
      BY <3>1 DEF TypeOK, demand
    <3>2. CASE ApplyDemandEvent(EventFromBase(ing.msg))
      <4> DEFINE e == EventFromBase(ing.msg)
                 k == LogicalKey(e.request)
                 g == GroupAfterEvent(groups[k], e.queue)
      <4>1. e.request \in Requests /\ e.queue \in Nat /\ e.kind \in Kinds
        BY <2>1, EventOfMessage
      <4>2. groups' = [groups EXCEPT ![k] = g] /\ rows' = [rows EXCEPT ![e.request] = MergeDemandEvent(rows[e.request], e, g)]
        BY <3>2 DEF ApplyDemandEvent
      <4> HIDE DEF e
      <4>3. k \in Keys
        BY <4>1, KeyOfRequest
      <4>4. g \in Group
        BY <4>1, <4>3, GroupAfterEventFacts DEF TypeOK
      <4> HIDE DEF g, k
      <4>5. MergeDemandEvent(rows[e.request], e, g) \in Row
        BY <4>1, <4>4, MergeFields, Zenon DEF TypeOK
      <4> QED BY <4>1, <4>2, <4>3, <4>4, <4>5 DEF TypeOK
    <3> QED BY <1>2, <3>1, <3>2 DEF ApplyDemandBatch
  <2> QED BY <1>2, <2>1, <2>2 DEF TypeOK, ApplyDemandBatch, Env, broker
<1>3. CASE Ack
  <2>1. pipe' \in Seq(Message)
    BY <1>3 DEF Ack, TypeOK
  <2> QED BY <1>3, <2>1, IdleIsIngester DEF TypeOK, Ack, Env, inbox, demand
<1>4. CASE Nack
  BY <1>4, IdleIsIngester DEF TypeOK, Nack, Env, broker, inbox, demand
<1>5. CASE Crash
  BY <1>5, IdleIsIngester, NoRestIsPass DEF TypeOK, Crash, broker, inbox, demand
<1> QED BY <1>1, <1>2, <1>3, <1>4, <1>5

\* The REST reconciler.
LEMMA TypeRest ==
  ASSUME TypeOK, Observe \/ RestFails \/ ReconcileGitHubJobSnapshot \/ ExpireGhostDemands
  PROVE  TypeOK'
<1>1. CASE Observe
  <2>1. PICK J \in Listings : \E K \in SUBSET J :
          rest' = [pc |-> "commit", at |-> now, jobs |-> [k \in J |-> job[k]], kept |-> K]
    <3>1. PICK J \in Listings :
            LET listed == {Job[k] : k \in J}
                claimed == {k \in J : Own \in Matching(Bindings, Job[k])}
            IN rest' = [pc |-> "commit", at |-> now, jobs |-> [k \in J |-> job[k]],
                        kept |-> IF Contended(Bindings, listed, Own)
                                   THEN BoundToOwnShare(claimed) ELSE claimed]
      BY <1>1, Zenon DEF Observe
    <3>2. \A S : BoundToOwnShare(S) \subseteq S
      BY DEF BoundToOwnShare, OldestJobs
    <3> QED BY <3>1, <3>2, Zenon
  <2>2. PICK K \in SUBSET J :
          rest' = [pc |-> "commit", at |-> now, jobs |-> [k \in J |-> job[k]], kept |-> K]
    BY <2>1, Zenon
  <2>3. J \subseteq Jobs
    BY DEF Listings, Queued, Others
  <2>4. [k \in J |-> job[k]] \in [J -> JobRecord]
    BY <2>3 DEF TypeOK
  <2>5. [k \in J |-> job[k]] \in Listing
    BY <2>3, <2>4 DEF Listing
  <2>6. rest' \in Pass /\ rest'.kept \subseteq DOMAIN rest'.jobs
    BY <2>2, <2>3, <2>5 DEF Pass, TypeOK
  <2> QED BY <1>1, <2>6 DEF TypeOK, Observe, World, broker, inbox, demand
<1>2. CASE RestFails
  BY <1>2, NoRestIsPass DEF TypeOK, RestFails, World, broker, inbox, demand
<1>3. CASE ReconcileGitHubJobSnapshot
  <2>1. rest' \in Pass /\ rest'.kept \subseteq DOMAIN rest'.jobs
    BY <1>3, SMTT(30) DEF ReconcileGitHubJobSnapshot, TypeOK, Pass
  <2>2. groups' \in [Keys -> Group]
    <3>1. ASSUME NEW k \in Keys
          PROVE  (IF k \in rest.kept THEN GroupAfterSighting(groups[k], rest.jobs[k])
                  ELSE groups[k]) \in Group
      <4>1. groups[k] \in Group
        BY DEF TypeOK
      <4>2. k \in rest.kept => rest.jobs[k] \in JobRecord
        BY PassFields DEF TypeOK
      <4> QED BY <4>1, <4>2, GroupAfterSightingFacts
    <3> QED BY <1>3, <3>1 DEF ReconcileGitHubJobSnapshot, Keys
  <2>3. rows' \in [Requests -> Row]
    <3>1. ASSUME NEW r \in Requests PROVE ReconcileGitHubJobs(r, groups'[LogicalKey(r)]) \in Row
      <4>1. groups'[LogicalKey(r)] \in Group
        BY <2>2, KeyOfRequest
      <4> QED BY <4>1, ReconcileFields, Zenon DEF TypeOK
    <3> QED BY <1>3, <3>1 DEF ReconcileGitHubJobSnapshot
  <2>4. mark' \in Nat
    BY <1>3, PassFields DEF ReconcileGitHubJobSnapshot, MaxOf, TypeOK
  <2> QED BY <1>3, <2>1, <2>2, <2>3, <2>4, Zenon DEF TypeOK, ReconcileGitHubJobSnapshot, World, broker, inbox
<1>4. CASE ExpireGhostDemands
  <2>1. rows' \in [Requests -> Row]
    BY <1>4, PassFields, ExpireFields, Zenon DEF ExpireGhostDemands, TypeOK
  <2> QED BY <1>4, <2>1, NoRestIsPass DEF TypeOK, ExpireGhostDemands, World, broker, inbox
<1> QED BY <1>1, <1>2, <1>3, <1>4

LEMMA TypeStep == TypeOK /\ [Next]_vars => TypeOK'
<1> SUFFICES ASSUME TypeOK, [Next]_vars PROVE TypeOK'
  OBVIOUS
<1>1. CASE Clock
  BY <1>1 DEF TypeOK, Clock, broker, inbox, demand
<1>2. CASE SequenceRestart
  BY <1>2 DEF TypeOK, SequenceRestart, Store, inbox, demand
<1>3. CASE Tick
  <2>1. rows' \in [Requests -> Row]
    BY <1>3, ExpireFields, Zenon DEF Tick, AfterOverdue, TypeOK
  <2> QED BY <1>3, <2>1 DEF TypeOK, Tick, broker, inbox
<1>4. CASE InstanceEnds
  BY <1>4 DEF TypeOK, InstanceEnds, broker, inbox, demand
<1>5. CASE UNCHANGED vars
  BY <1>5 DEF TypeOK, vars, broker, inbox, demand
<1> QED BY <1>1, <1>2, <1>3, <1>4, <1>5, TypeWorld, TypeIngest, TypeRest DEF Next

-----------------------------------------------------------------------------
(* What a step does to the rows *)

\* applyDemandEvent, row by row.
LEMMA Applied ==
  ASSUME TypeOK, NEW m \in Message, ApplyDemandEvent(EventFromBase(m))
  PROVE  LET k == LogicalKey(m.request)
             g == GroupAfterEvent(groups[k], m.queue)
             new == rows'[m.request]
         IN /\ m.request \in Requests /\ k \in Keys /\ g \in Group
            /\ groups' = [groups EXCEPT ![k] = g]
            /\ \A r \in Requests \ {m.request} : rows'[r] = rows[r]
            /\ new.rank = MaxOf(rows[m.request].rank, EventFromBase(m).kind) /\ new.rank > 0
            /\ new.first = g.first /\ new.attempt = g.attempt
            /\ new.corroborated = rows[m.request].corroborated
            /\ new.since = 0 /\ new.expired = FALSE
<1> DEFINE e == EventFromBase(m)
           k == LogicalKey(m.request)
           g == GroupAfterEvent(groups[k], m.queue)
<1>1. /\ e.request = m.request /\ e.queue = m.queue /\ m.request \in Requests /\ m.queue \in Nat
      /\ e.kind \in Kinds
  BY EventOfMessage
<1>2. groups' = [groups EXCEPT ![k] = g]
  BY <1>1 DEF ApplyDemandEvent
<1>3. rows' = [rows EXCEPT ![m.request] = MergeDemandEvent(rows[m.request], e, g)]
  BY <1>1 DEF ApplyDemandEvent
<1>4. k \in Keys
  BY <1>1, KeyOfRequest
<1>5. g \in Group
  BY <1>1, <1>4, GroupAfterEventFacts DEF TypeOK
<1> HIDE DEF e, g, k
<1>6. rows'[m.request] = MergeDemandEvent(rows[m.request], e, g)
  BY <1>1, <1>3 DEF TypeOK
<1>7. \A r \in Requests \ {m.request} : rows'[r] = rows[r]
  BY <1>3 DEF TypeOK
<1>8. rows[m.request] \in Row /\ now \in Nat
  BY <1>1 DEF TypeOK
<1>9. LET new == MergeDemandEvent(rows[m.request], e, g)
      IN /\ new.rank = MaxOf(rows[m.request].rank, e.kind) /\ new.rank > 0
         /\ new.first = g.first /\ new.attempt = g.attempt
         /\ new.corroborated = rows[m.request].corroborated /\ new.since = 0 /\ new.expired = FALSE
  BY <1>1, <1>5, <1>8, MergeFields, Zenon
<1> QED BY <1>1, <1>2, <1>4, <1>5, <1>6, <1>7, <1>9 DEF e, g, k

\* The commit of a snapshot, row by row and group by group.
LEMMA Reconciled ==
  ASSUME TypeOK, ReconcileGitHubJobSnapshot, NEW r \in Requests
  PROVE  LET k == LogicalKey(r)
         IN /\ k \in Keys /\ groups'[k] \in Group
            /\ groups'[k] = IF k \in rest.kept THEN GroupAfterSighting(groups[k], rest.jobs[k]) ELSE groups[k]
            /\ rows'[r] = ReconcileGitHubJobs(r, groups'[k])
<1>1. LogicalKey(r) \in Keys
  BY KeyOfRequest
<1>2. groups' \in [Keys -> Group]
  BY TypeRest DEF TypeOK
<1> QED BY <1>1, <1>2 DEF ReconcileGitHubJobSnapshot, Keys

\* A row expires only from waiting, by the snapshot or by the clock.
LEMMA Expired ==
  ASSUME TypeOK, ExpireGhostDemands \/ Tick, NEW r \in Requests
  PROVE  \/ rows'[r] = rows[r]
         \/ \E at \in Nat : Expirable(rows[r]) /\ rows'[r] = Expire(rows[r], at)
<1>1. now \in Nat /\ rest.at \in Nat
  BY PassFields DEF TypeOK
<1> QED BY <1>1 DEF ExpireGhostDemands, Tick, AfterOverdue, Overdue

\* The only steps that touch rows or groups.
RowStep == \/ ~Duplicate(ing.msg) /\ ApplyDemandBatch /\ ApplyDemandEvent(EventFromBase(ing.msg))
           \/ ReconcileGitHubJobSnapshot
           \/ ExpireGhostDemands /\ UNCHANGED groups
           \/ Tick /\ UNCHANGED groups
           \/ UNCHANGED demand

LEMMA OnlyRowSteps == [Next]_vars => RowStep
<1> SUFFICES ASSUME [Next]_vars PROVE RowStep
  OBVIOUS
<1>1. CASE ApplyDemandBatch
  BY <1>1 DEF ApplyDemandBatch, RowStep
<1>2. CASE ~ApplyDemandBatch
  BY <1>2 DEF RowStep, Next, vars, Clock, SequenceRestart, Queue, Advance, CancelSilently, Store,
     PutDemandStatistics, Ack, Nack, Observe, RestFails, ExpireGhostDemands, Tick, InstanceEnds, Crash
<1> QED BY <1>1, <1>2

\* A status never falls back, and only waiting work is hidden.
LEMMA RowsGrow ==
  ASSUME TypeOK, [Next]_vars, NEW r \in Requests
  PROVE  /\ rows[r].rank \in Nat /\ rows'[r].rank \in Nat /\ rows'[r].rank >= rows[r].rank
         /\ rows'[r].expired => /\ rows'[r].rank = rows[r].rank
                                /\ rows[r].expired \/ rows[r].rank = Available
<1>1. rows[r] \in Row /\ rows'[r] \in Row
  BY TypeStep DEF TypeOK
<1>2. rows[r].rank \in Nat /\ rows'[r].rank \in Nat
  BY <1>1 DEF Row
<1>3. CASE ~Duplicate(ing.msg) /\ ApplyDemandBatch /\ ApplyDemandEvent(EventFromBase(ing.msg))
  <2>1. ing.msg \in Message
    BY <1>3 DEF ApplyDemandBatch, TypeOK
  <2>2. CASE r = ing.msg.request
    <3>1. rows'[r].rank = MaxOf(rows[r].rank, EventFromBase(ing.msg).kind) /\ rows'[r].expired = FALSE
      BY <1>3, <2>1, <2>2, Applied, Zenon
    <3>2. EventFromBase(ing.msg).kind \in Nat
      BY <2>1, EventOfMessage DEF Kinds
    <3> QED BY <1>2, <3>1, <3>2 DEF MaxOf
  <2>3. CASE r # ing.msg.request
    <3>1. rows'[r] = rows[r]
      BY <1>3, <2>1, <2>3, Applied, Zenon
    <3> QED BY <1>2, <3>1
  <2> QED BY <2>2, <2>3
<1>4. CASE ReconcileGitHubJobSnapshot
  <2>1. PICK g \in Group : rows'[r] = ReconcileGitHubJobs(r, g)
    BY <1>4, Reconciled
  <2>2. rows \in [Requests -> Row] /\ rest \in Pass
    BY DEF TypeOK
  <2> DEFINE new == ReconcileGitHubJobs(r, g)
  <2>3. /\ new.rank = rows[r].rank /\ (rows[r].rank = 0 => new = rows[r])
        /\ (rows[r].rank > 0 /\ LogicalKey(r) \in rest.kept => new.expired = FALSE)
        /\ (LogicalKey(r) \notin rest.kept => new.expired = rows[r].expired)
    BY <2>2, ReconcileFields, Zenon
  <2> HIDE DEF new
  <2> QED BY <1>2, <2>1, <2>3 DEF new
<1>5. CASE ExpireGhostDemands \/ Tick
  <2>1. CASE rows'[r] = rows[r]
    BY <1>2, <2>1
  <2>2. ASSUME NEW at \in Nat, Expirable(rows[r]), rows'[r] = Expire(rows[r], at)
        PROVE  rows'[r].rank = rows[r].rank /\ rows[r].rank = Available
    <3>1. Expire(rows[r], at).rank = rows[r].rank
      BY <1>1 DEF Expire, Row
    <3> QED BY <2>2, <3>1 DEF Expirable
  <2> QED BY <1>2, <1>5, <2>1, <2>2, Expired
<1>6. CASE UNCHANGED demand
  BY <1>2, <1>6 DEF demand
<1> QED BY <1>3, <1>4, <1>5, <1>6, OnlyRowSteps DEF RowStep

-----------------------------------------------------------------------------
(* The inbox *)

\* What is durable stays so: a status never falls back.
LEMMA DurableStays == ASSUME TypeOK, [Next]_vars, NEW d, Durable(d) PROVE Durable(d)'
<1>1. d \in Requests \X Kinds /\ d[1] \in Requests /\ d[2] \in Kinds
  BY DEF Durable
<1>2. RankOf(d) \in Nat
  BY <1>1 DEF RankOf, EventFromBase, Kinds, Available
<1>3. rows'[d[1]].rank >= rows[d[1]].rank /\ rows[d[1]].rank \in Nat /\ rows'[d[1]].rank \in Nat
  BY <1>1, RowsGrow
<1> QED BY <1>1, <1>2, <1>3 DEF Durable

LEMMA RecoveredStep == ASSUME TypeOK, Recovered, [Next]_vars PROVE Recovered'
<1>1. CASE PutDemandStatistics
  BY <1>1, DurableStays DEF PutDemandStatistics, broker, Recovered
<1>2. CASE ApplyDemandBatch
  <2>1. ing.msg \in Message /\ ing'.pc = "ack" /\ ing'.msg = ing.msg /\ acked' = acked
    BY <1>2 DEF ApplyDemandBatch, TypeOK, Ingester, broker
  <2>2. Durable(Digest(ing.msg))'
    <3>1. CASE Duplicate(ing.msg)
      <4>1. Durable(Digest(ing.msg))
        BY <3>1 DEF Duplicate, Recorded, Recovered
      <4> QED BY <4>1, DurableStays, <2>1 DEF Digest
    <3>2. CASE ~Duplicate(ing.msg)
      <4> DEFINE m == ing.msg
      <4>1. ApplyDemandEvent(EventFromBase(m)) /\ m \in Message
        BY <1>2, <2>1, <3>2 DEF ApplyDemandBatch
      <4>2. /\ m.request \in Requests /\ EventFromBase(m).kind \in Kinds
            /\ Digest(m) \in Requests \X Kinds /\ RankOf(Digest(m)) = EventFromBase(m).kind
            /\ Digest(m)[1] = m.request
        BY <4>1, EventOfMessage DEF Digest
      <4>3. rows'[m.request].rank = MaxOf(rows[m.request].rank, EventFromBase(m).kind)
        BY <4>1, Applied, Zenon
      <4>4. rows[m.request].rank \in Nat /\ EventFromBase(m).kind \in Nat
        BY <4>2, RowsGrow DEF Kinds
      <4>5. rows'[m.request].rank >= EventFromBase(m).kind
        BY <4>3, <4>4 DEF MaxOf
      <4> QED BY <2>1, <4>2, <4>5 DEF Durable, Digest
    <3> QED BY <3>1, <3>2
  <2>3. \A l \in ledger' : l \in ledger \/ l.digest = Digest(ing.msg)
    BY <1>2 DEF ApplyDemandBatch
  <2>4. \A l \in ledger' : Durable(l.digest)'
    <3> SUFFICES ASSUME NEW l \in ledger' PROVE Durable(l.digest)'
      OBVIOUS
    <3>1. CASE l \in ledger
      BY <3>1, DurableStays DEF Recovered
    <3>2. CASE l.digest = Digest(ing.msg)
      BY <2>1, <2>2, <3>2 DEF Digest
    <3> QED BY <2>3, <3>1, <3>2
  <2>5. \A d \in acked' : Durable(d)'
    BY <2>1, DurableStays DEF Recovered
  <2> QED BY <2>1, <2>2, <2>4, <2>5 DEF Recovered
<1>3. CASE Ack
  <2>1. \A d \in acked' : Durable(d)'
    <3> SUFFICES ASSUME NEW d \in acked' PROVE Durable(d)'
      OBVIOUS
    <3>1. d \in acked \/ d = Digest(ing.msg)
      BY <1>3 DEF Ack
    <3>2. Durable(d)
      BY <1>3, <3>1 DEF Ack, Recovered
    <3> QED BY <3>2, DurableStays
  <2>2. ledger' = ledger /\ ing'.pc = "idle"
    BY <1>3, IdleIsIngester DEF Ack, inbox
  <2>3. \A l \in ledger' : Durable(l.digest)'
    BY <2>2, DurableStays DEF Recovered
  <2> QED BY <2>1, <2>2, <2>3 DEF Recovered
<1>4. CASE UNCHANGED <<acked, ledger>> /\ (ing' = ing \/ ing' = Idle)
  <2>1. (\A d \in acked' : Durable(d)') /\ (\A l \in ledger' : Durable(l.digest)')
    BY <1>4, DurableStays DEF Recovered
  <2>2. ing'.pc = "ack" => Durable(Digest(ing.msg))'
    <3> SUFFICES ASSUME ing'.pc = "ack" PROVE Durable(Digest(ing.msg))'
      OBVIOUS
    <3>1. ing' = ing
      BY <1>4, IdleIsIngester
    <3>2. Durable(Digest(ing.msg))
      BY <3>1 DEF Recovered
    <3> QED BY <3>1, <3>2, DurableStays DEF Digest
  <2> QED BY <2>1, <2>2 DEF Recovered
<1> QED
  BY <1>1, <1>2, <1>3, <1>4, Zenon
  DEF Next, vars, Clock, SequenceRestart, Queue, Advance, Send, CancelSilently, Store, broker, inbox, World,
      Nack, Observe, RestFails, ReconcileGitHubJobSnapshot, ExpireGhostDemands, Tick, InstanceEnds, Crash

LEMMA HiddenStep == ASSUME TypeOK, HiddenIsWaiting, [Next]_vars PROVE HiddenIsWaiting'
<1> SUFFICES ASSUME NEW r \in Requests, rows'[r].expired PROVE rows'[r].rank = Available
  BY DEF HiddenIsWaiting
<1>1. rows'[r].rank = rows[r].rank /\ (rows[r].expired \/ rows[r].rank = Available)
  BY RowsGrow
<1> QED BY <1>1 DEF HiddenIsWaiting
=============================================================================
