------------------------------- MODULE Outbox -------------------------------
(***************************************************************************)
(* The durable operation outbox: the SQLite tables `operations`,           *)
(* `operation_dependencies`, `operation_effects` and the state column of   *)
(* `instances`, the workers that claim rows under a lease, and every       *)
(* transaction that creates, settles, parks, discharges or resumes a row.  *)
(*                                                                         *)
(* Several controller processes may be up at once: the authority lease     *)
(* (module AuthorityLease) makes that rare, never impossible, because a    *)
(* process that lost authority still finishes what its workers started.    *)
(*                                                                         *)
(* Time is abstracted to the moments that matter: a row's lease lapses     *)
(* (lease_until <= now), a row's backoff ends (available_at <= now).       *)
(* Instance states are grouped by what these transactions tell apart:      *)
(*   provisioning = planned .. reachable, registering, idle = online_idle, *)
(*   serving = assigned, running, draining,                                *)
(*   stalled (draining in the provision-stalled phase),                    *)
(*   cleaning = deregistering, stopping.                                   *)
(***************************************************************************)
EXTENDS Naturals, FiniteSets

CONSTANTS Procs,          \* lease owners: one string per controller process
          NoOwner,        \* the empty lease_owner
          Insts,          \* instance identities
          NoInst,         \* resource of a row that does not exist yet
          MaxOps,         \* bound on rows ever inserted
          Limit,          \* Worker.MaxConcurrent
          MaxAttempts,    \* DurableCleanupMaxAttempts; a provision has no ceiling
          MaxResumptions, \* operations.MaxCleanupResumptions
          MaxCrashes      \* bound on process crashes

ASSUME OutboxAssumption == /\ NoOwner \notin Procs /\ NoInst \notin Insts
                           /\ MaxOps \in Nat /\ Limit \in Nat \ {0}
                           /\ MaxAttempts \in Nat \ {0}
                           /\ MaxResumptions \in Nat /\ MaxCrashes \in Nat

Ops == 1 .. MaxOps          \* a row's number is its (created_at, id) order
Kinds == {"clone", "deregister"}
InstStates == {"none", "provisioning", "registering", "idle", "serving",
               "draining", "stalled", "cleaning", "deleted"}
TearingDown == {"draining", "stalled", "cleaning"}
Live == {"provisioning", "registering", "idle", "serving"}
Unready == {"provisioning", "registering", "idle"}  \* a provision still has work to do

VARIABLES op,       \* [Ops -> row of `operations`]
          dep,      \* [Ops -> SUBSET Ops], `operation_dependencies`
          created,  \* number of rows inserted so far
          effects,  \* `operation_effects`, a set of <<kind, instance>>
          inst,     \* [Insts -> [state, ver]]
          run,      \* [Procs -> [Ops -> what the process is doing with the row]]
          up,       \* [Procs -> BOOLEAN]
          crashes

vars == <<op, dep, created, effects, inst, run, up, crashes>>

Statuses == {"absent", "pending", "claimed", "completed", "dead", "discharged"}
Codes == {"", "cleanup", "other"}   \* last_error: stop or delete, or anything else
Row == [status : Statuses, kind : Kinds, res : Insts \cup {NoInst},
        attempts : Nat, owner : Procs \cup {NoOwner}, lapsed : BOOLEAN,
        due : BOOLEAN, code : Codes]
InstRow == [state : InstStates, ver : Nat]

\* What a worker goroutine holds for one row. pc: idle; exec; ok, failed,
\* spent (the executor returned nil, an error, ErrExhausted). seen is the
\* executor's copy of the instance, attempts its copy of Operation.Attempts.
\* current is a history variable: no later claim of the row has been made.
RunPcs == {"idle", "exec", "ok", "failed", "spent"}
Run == [pc : RunPcs, seen : InstRow, attempts : Nat, code : Codes,
        current : BOOLEAN]

Unseen == [state |-> "none", ver |-> 0]
IdleRun == [pc |-> "idle", seen |-> Unseen, attempts |-> 0, code |-> "",
            current |-> FALSE]
AbsentRow == [status |-> "absent", kind |-> "clone", res |-> NoInst,
              attempts |-> 0, owner |-> NoOwner, lapsed |-> FALSE,
              due |-> TRUE, code |-> ""]

\* insertOperation: every new row starts pending, unowned and available now.
NewRow(k, i) == [AbsentRow EXCEPT !.status = "pending", !.kind = k, !.res = i]

TypeOK == /\ op \in [Ops -> Row]
          /\ dep \in [Ops -> SUBSET Ops]
          /\ created \in 0 .. MaxOps
          /\ effects \in SUBSET (Kinds \X Insts)
          /\ inst \in [Insts -> InstRow]
          /\ run \in [Procs -> [Ops -> Run]]
          /\ up \in [Procs -> BOOLEAN]
          /\ crashes \in 0 .. MaxCrashes

Init == /\ op = [o \in Ops |-> AbsentRow]
        /\ dep = [o \in Ops |-> {}]
        /\ created = 0
        /\ effects = {}
        /\ inst = [i \in Insts |-> Unseen]
        /\ run = [p \in Procs |-> [o \in Ops |-> IdleRun]]
        /\ up = [p \in Procs |-> FALSE]
        /\ crashes = 0

-----------------------------------------------------------------------------
(* Rows of one resource *)

Open(row) == row.status \in {"pending", "claimed"}
Progressing(i) == \E o \in Ops : op[o].res = i /\ Open(op[o])
ProvisionOf(i) == {o \in Ops : op[o].res = i /\ op[o].kind = "clone"}

\* Every write of an instance row is version + 1.
SetInstBack(i, s) == [inst EXCEPT ![i] = [state |-> s, ver |-> @.ver - 1]]  \* mutant
SetInst(i, s) == [inst EXCEPT ![i] = [state |-> s, ver |-> @.ver + 1]]

-----------------------------------------------------------------------------
(* Transactions that enqueue work *)

\* ApplyPlan of a plan with one spawn.
PlanSpawn(i) ==
  /\ created < MaxOps
  /\ inst[i].state = "none"
  /\ op' = [op EXCEPT ![created + 1] = NewRow("clone", i)]
  /\ inst' = SetInst(i, "provisioning")
  /\ created' = created + 1
  /\ UNCHANGED <<dep, effects, run, up, crashes>>

\* ApplyPlan of a plan with one drain. The row's identity is salted with the
\* number of terminal drains of the instance, so it never collides while
\* LiveInstanceHasNoOpenDrain holds.
PlanDrain(i) ==
  /\ created < MaxOps
  /\ inst[i].state \in {"provisioning", "idle", "serving"}
  /\ op' = [op EXCEPT ![created + 1] = NewRow("deregister", i)]
  /\ inst' = SetInst(i, IF inst[i].state = "provisioning" THEN "stalled" ELSE "draining")
  /\ created' = created + 1
  /\ UNCHANGED <<dep, effects, run, up, crashes>>

\* ApplyPlan of a handoff: an idle instance is drained and, in the same
\* transaction, a spawn is enqueued that depends on the drain.
PlanHandoff(i, j) ==
  /\ created + 1 < MaxOps
  /\ inst[i].state = "idle" /\ inst[j].state = "none"
  /\ op' = [op EXCEPT ![created + 1] = NewRow("deregister", i),
                      ![created + 2] = NewRow("clone", j)]
  /\ dep' = [dep EXCEPT ![created + 2] = {created + 1}]
  /\ inst' = [inst EXCEPT ![i] = [state |-> "draining", ver |-> @.ver + 1],
                          ![j] = [state |-> "provisioning", ver |-> @.ver + 1]]
  /\ created' = created + 2
  /\ UNCHANGED <<effects, run, up, crashes>>

\* enqueueDemandDrain: a job completion drains its runner; one that has not
\* registered yet is drained only after its provision operation completed.
EventDrain(i) ==
  /\ created < MaxOps
  /\ inst[i].state \in Live
  /\ op' = [op EXCEPT ![created + 1] = NewRow("deregister", i)]
  /\ dep' = [dep EXCEPT ![created + 1] =
               IF inst[i].state = "provisioning" THEN ProvisionOf(i) ELSE {}]
  /\ inst' = SetInst(i, "draining")
  /\ created' = created + 1
  /\ UNCHANGED <<effects, run, up, crashes>>

\* projectDemandRank: a job assignment or start moves a registering instance on,
\* through idle and in two transactions, ahead of the executor that is still
\* waiting for its registration.
JobEvent(i) ==
  /\ inst[i].state \in {"registering", "idle"}
  /\ inst' = SetInst(i, IF inst[i].state = "registering" THEN "idle" ELSE "serving")
  /\ UNCHANGED <<op, dep, created, effects, run, up, crashes>>

-----------------------------------------------------------------------------
(* Claim, renewal and settlement *)

\* The recursive query of Claim: everything that depends, directly or not, on a
\* dead row.
Doomed == {o \in Ops : \A S \in SUBSET Ops :
             (\A x \in Ops : (\E d \in dep[x] : op[d].status = "dead" \/ d \in S)
                             => x \in S) => o \in S}
Bury(row) == [row EXCEPT !.status = "dead", !.code = "other"]
Propagated == [o \in Ops |-> IF op[o].status = "pending" /\ o \in Doomed
                             THEN Bury(op[o]) ELSE op[o]]

\* Claim's availability clause: pending and due, or claimed under a lapsed lease.
AvailablePending(row) == row.status = "pending" /\ row.due  \* mutant
Available(row) == \/ row.status = "pending" /\ row.due
                  \/ row.status = "claimed" /\ row.lapsed

\* Claim's prerequisite clause: only completed counts.
SatisfiedByDischarge(row) == row.status \in {"completed", "discharged"}  \* mutant
Satisfied(row) == row.status = "completed"

Claimable == {o \in Ops : /\ Available(Propagated[o])
                          /\ \A d \in dep[o] : Satisfied(Propagated[d])}
Taken == {o \in Claimable : Cardinality({e \in Claimable : e < o}) < Limit}

\* Worker.RunOnce waits for every goroutine of a batch before it claims again.
BatchRoom(p) == Cardinality({o \in Ops : run[p][o].pc # "idle"}) < Limit  \* mutant
BatchDone(p) == \A o \in Ops : run[p][o].pc = "idle"

Begun(seen, attempts) == [pc |-> "exec", seen |-> seen, attempts |-> attempts,
                          code |-> "", current |-> TRUE]
ClaimRow(row, p) == [row EXCEPT !.status = "claimed", !.owner = p, !.lapsed = FALSE]

\* Store.Claim, called by Worker.RunOnce. The executor's first step, loading the instance,
\* is part of the claim: no other step observes the gap between the two.
Claim(p) ==
  /\ up[p]
  /\ BatchDone(p)
  /\ op' = [o \in Ops |-> IF o \in Taken
                          THEN ClaimRow(op[o], p) ELSE Propagated[o]]
  /\ run' = [q \in Procs |-> [o \in Ops |->
               IF o \notin Taken THEN run[q][o]
               ELSE IF q = p THEN Begun(inst[op[o].res], op[o].attempts)
               ELSE [run[q][o] EXCEPT !.current = FALSE]]]
  /\ UNCHANGED <<dep, created, effects, inst, up, crashes>>

\* The lease clause of RenewOperation, Complete, Retry and Advance with Settles.
HoldsAnyOwner(p, o) == op[o].status = "claimed"  \* mutant
Holds(p, o) == op[o].status = "claimed" /\ op[o].owner = p

SetRun(p, o, r) == [run EXCEPT ![p][o] = r]
Returned(r, pc, code) == [r EXCEPT !.pc = pc, !.code = code]

\* renewLease fails, because the lease is gone or the store did not answer: the
\* execution is cancelled and settles nothing.
RenewalLost(p, o) ==
  /\ run[p][o].pc = "exec"
  /\ run' = SetRun(p, o, IdleRun)
  /\ UNCHANGED <<op, dep, created, effects, inst, up, crashes>>

\* Advance: compare-and-set on the state and version the executor last read.
Advance(p, o) ==
  LET i == op[o].res
      next == IF op[o].kind = "clone"
              THEN IF inst[i].state = "provisioning" THEN {"registering"}
                   ELSE IF inst[i].state \in Unready THEN {"serving"} ELSE {}
              ELSE IF inst[i].state \in {"draining", "stalled"} THEN {"cleaning"}
              ELSE IF inst[i].state = "cleaning" THEN {"deleted"} ELSE {}
  IN /\ run[p][o].pc = "exec"
     /\ inst[i] = run[p][o].seen
     /\ \E s \in next :
          /\ inst' = SetInst(i, s)
          /\ run' = SetRun(p, o, [run[p][o] EXCEPT !.seen = inst'[i]])
     /\ UNCHANGED <<op, dep, created, effects, up, crashes>>

\* The settled row: completed, and its lease cleared.
SettleAsPending(row) == [row EXCEPT !.status = "pending", !.owner = NoOwner,
                                    !.lapsed = FALSE]  \* mutant
Settle(row) == [row EXCEPT !.status = "completed", !.owner = NoOwner,
                           !.lapsed = FALSE]

\* DrainExecutor.abort: the instance returns to running and its drain is
\* completed in one transaction, without recording the effect.
Abort(p, o) ==
  LET i == op[o].res
  IN /\ run[p][o].pc = "exec" /\ op[o].kind = "deregister"
     /\ inst[i] = run[p][o].seen /\ inst[i].state = "draining"
     /\ Holds(p, o)
     /\ inst' = SetInst(i, "serving")
     /\ op' = [op EXCEPT ![o] = Settle(@)]
     /\ run' = SetRun(p, o, Returned(run[p][o], "ok", ""))
     /\ UNCHANGED <<dep, created, effects, up, crashes>>

\* The states in which an executor has nothing left to do.
NothingLeftEarly(kind, state) ==  \* mutant
  state \notin IF kind = "clone" THEN {"provisioning"} ELSE TearingDown \ {"cleaning"}
NothingLeft(kind, state) ==
  state \notin IF kind = "clone" THEN Unready ELSE TearingDown

\* The executor returns nil.
ReturnOk(p, o) ==
  /\ run[p][o].pc = "exec"
  /\ NothingLeft(op[o].kind, run[p][o].seen.state)
  /\ run' = SetRun(p, o, Returned(run[p][o], "ok", ""))
  /\ UNCHANGED <<op, dep, created, effects, inst, up, crashes>>

\* The executor returns an error. Only a drain can fail at its stop or delete
\* stage, and only its stop can be exhausted.
ReturnError(p, o, code, pc) ==
  /\ run[p][o].pc = "exec"
  /\ code = "cleanup" => /\ op[o].kind = "deregister"
                         /\ run[p][o].seen.state \in {"draining", "cleaning"}
  /\ pc = "spent" => code = "cleanup"
  /\ run' = SetRun(p, o, Returned(run[p][o], pc, code))
  /\ UNCHANGED <<op, dep, created, effects, inst, up, crashes>>

\* Store.Complete: a completed row is left alone, a row another process holds
\* is ErrLeaseLost.
Complete(p, o) ==
  /\ run[p][o].pc = "ok"
  /\ IF Holds(p, o)
     THEN /\ op' = [op EXCEPT ![o] = Settle(@)]
          /\ effects' = effects \cup {<<op[o].kind, op[o].res>>}
     ELSE UNCHANGED <<op, effects>>
  /\ run' = SetRun(p, o, IdleRun)
  /\ UNCHANGED <<dep, created, inst, up, crashes>>

\* RetryPolicy.Next of the row's kind, on the attempt count the worker read when it
\* claimed. Only a drain has ceilings; aged: its elapsed budget is spent.
ExhaustedLate(p, o, aged) ==  \* mutant
  /\ op[o].kind = "deregister"
  /\ run[p][o].pc = "spent" \/ aged \/ run[p][o].attempts >= MaxAttempts
Exhausted(p, o, aged) ==
  /\ op[o].kind = "deregister"
  /\ run[p][o].pc = "spent" \/ aged \/ run[p][o].attempts + 1 >= MaxAttempts

\* Store.Retry: back to pending behind a backoff, or dead. The attempts of a provision
\* decide nothing and are not counted.
Fail(row, dead, code) ==
  [status |-> IF dead THEN "dead" ELSE "pending", kind |-> row.kind, res |-> row.res,
   attempts |-> IF row.kind = "deregister" THEN row.attempts + 1 ELSE row.attempts,
   owner |-> NoOwner, lapsed |-> FALSE, due |-> dead, code |-> code]
Retry(p, o, aged) ==
  /\ run[p][o].pc \in {"failed", "spent"}
  /\ IF Holds(p, o)
     THEN op' = [op EXCEPT ![o] = Fail(@, Exhausted(p, o, aged), run[p][o].code)]
     ELSE UNCHANGED op
  /\ run' = SetRun(p, o, IdleRun)
  /\ UNCHANGED <<dep, created, effects, inst, up, crashes>>

-----------------------------------------------------------------------------
(* Time, crashes and restarts *)

LeaseLapses(o) ==
  /\ op[o].status = "claimed" /\ ~op[o].lapsed
  /\ op' = [op EXCEPT ![o].lapsed = TRUE]
  /\ UNCHANGED <<dep, created, effects, inst, run, up, crashes>>

BackoffEnds(o) ==
  /\ op[o].status = "pending" /\ ~op[o].due
  /\ op' = [op EXCEPT ![o].due = TRUE]
  /\ UNCHANGED <<dep, created, effects, inst, run, up, crashes>>

Crash(p) ==
  /\ up[p] /\ crashes < MaxCrashes
  /\ up' = [up EXCEPT ![p] = FALSE]
  /\ run' = [run EXCEPT ![p] = [o \in Ops |-> IdleRun]]
  /\ crashes' = crashes + 1
  /\ UNCHANGED <<op, dep, created, effects, inst>>

\* startAuthorityLease runs RecoverExpired before the workers start.
Requeue(row) == [row EXCEPT !.status = "pending", !.owner = NoOwner, !.lapsed = FALSE]
Start(p) ==
  /\ ~up[p]
  /\ up' = [up EXCEPT ![p] = TRUE]
  /\ op' = [o \in Ops |-> IF op[o].status = "claimed" /\ op[o].lapsed
                          THEN Requeue(op[o]) ELSE op[o]]
  /\ UNCHANGED <<dep, created, effects, inst, run, crashes>>

-----------------------------------------------------------------------------
(* Dead letters *)

\* Rows an operator may discharge; a discharged one is an idempotent repeat.
DischargeableAny(row) == row.status \in {"dead", "discharged", "completed"}  \* mutant
Dischargeable(row) == row.status \in {"dead", "discharged"}

\* Store.DischargeDeadLetter, the operator's closure of a dead row; reap also
\* retires the instance row, from a cleanup state only.
DischargeDeadLetter(o, reap) ==
  LET i == op[o].res
  IN /\ Dischargeable(op[o])
     /\ ~Progressing(i)
     /\ op' = [op EXCEPT ![o].status = "discharged"]
     /\ IF reap /\ inst[i].state # "deleted"
        THEN inst[i].state \in TearingDown /\ inst' = SetInst(i, "deleted")
        ELSE UNCHANGED inst
     /\ UNCHANGED <<dep, created, effects, run, up, crashes>>

Resumptions(o) == Cardinality({d \in Ops : /\ op[d].status = "discharged"
                                           /\ op[d].res = op[o].res
                                           /\ op[d].kind = op[o].kind})

\* Store.ResumeCleanup: a dead stop or delete is superseded by a fresh row, and
\* pending successors follow it. stopped: the VM was proved powered off.
ResumeCleanup(o, stopped) ==
  LET i == op[o].res
      n == created + 1
  IN /\ created < MaxOps
     /\ op[o].status = "dead" /\ op[o].kind = "deregister"
     /\ op[o].code = "cleanup"
     /\ inst[i].state \in TearingDown
     /\ ~Progressing(i)
     /\ Resumptions(o) < MaxResumptions
     /\ op' = [op EXCEPT ![o].status = "discharged",
                         ![n] = NewRow("deregister", i)]
     /\ dep' = [x \in Ops |-> IF op[x].status = "pending" /\ o \in dep[x]
                              THEN (dep[x] \ {o}) \cup {n} ELSE dep[x]]
     /\ created' = n
     /\ IF stopped /\ inst[i].state \in {"draining", "stalled"}
        THEN inst' = SetInst(i, "draining") ELSE UNCHANGED inst
     /\ UNCHANGED <<effects, run, up, crashes>>

-----------------------------------------------------------------------------
Enqueue == \/ \E i \in Insts : PlanSpawn(i) \/ PlanDrain(i) \/ EventDrain(i) \/ JobEvent(i)
           \/ \E i, j \in Insts : PlanHandoff(i, j)

Work(p, o) == \/ RenewalLost(p, o) \/ Advance(p, o)
              \/ Abort(p, o) \/ ReturnOk(p, o)
              \/ \E code \in {"cleanup", "other"}, pc \in {"failed", "spent"} :
                    ReturnError(p, o, code, pc)
              \/ Complete(p, o)
              \/ \E aged \in BOOLEAN : Retry(p, o, aged)

Next == \/ Enqueue
        \/ \E p \in Procs : Claim(p) \/ Crash(p) \/ Start(p)
        \/ \E p \in Procs, o \in Ops : Work(p, o)
        \/ \E o \in Ops : LeaseLapses(o) \/ BackoffEnds(o)
        \/ \E o \in Ops, b \in BOOLEAN : DischargeDeadLetter(o, b) \/ ResumeCleanup(o, b)

Spec == Init /\ [][Next]_vars

-----------------------------------------------------------------------------
(* Fairness. A worker renews a claim every third of its lease and writes the  *)
(* result at once, so a lease lapses only when its holder stopped working on  *)
(* the row; goroutines, the claim loop, timers and the supervisor that        *)
(* restarts a process all make progress. An executor with nothing left to do  *)
(* fails only when the store does not answer, which is not for ever.          *)
(* Operators and new demand owe nothing.                                      *)

Abandoned(o) == op[o].owner \in Procs => run[op[o].owner][o].pc = "idle"
NextTimely == /\ Next
              /\ \A o \in Ops : LeaseLapses(o) => Abandoned(o)
              /\ \A p \in Procs, o \in Ops :
                    RenewalLost(p, o) => ~Holds(p, o) \/ op[o].lapsed
Fairness == /\ \A p \in Procs : WF_vars(Claim(p)) /\ WF_vars(Start(p))
            /\ \A p \in Procs, o \in Ops : WF_vars(Work(p, o)) /\ SF_vars(ReturnOk(p, o))
            /\ \A o \in Ops : /\ WF_vars(LeaseLapses(o) /\ Abandoned(o))
                             /\ WF_vars(BackoffEnds(o))
FairSpec == Init /\ [][NextTimely]_vars /\ Fairness

-----------------------------------------------------------------------------
(* Properties *)

\* A row is claimed or completed only while every row it depends on is
\* completed: neither a discharge nor a resumption of a prerequisite ever
\* releases a dependent (Claim, ResumeCleanup).
DependenciesHonoured ==
  \A o \in Ops : op[o].status \in {"claimed", "completed"} =>
     \A d \in dep[o] : op[d].status = "completed"

\* A live instance has no pending or claimed drain: an abort ends its drain in
\* the transaction that returns the instance to running (#447), so the next
\* drain's generation-scoped identity is always fresh.
LiveInstanceHasNoOpenDrain ==
  \A i \in Insts : inst[i].state \in Live =>
     ~\E o \in Ops : op[o].res = i /\ op[o].kind = "deregister" /\ Open(op[o])

\* An instance in a cleanup state is never orphaned: some drain of it is still
\* open, dead for an operator or the recovery tick to see, or discharged.
TeardownHasCleanup ==
  \A i \in Insts : inst[i].state \in TearingDown =>
     \E o \in Ops : /\ op[o].res = i /\ op[o].kind = "deregister"
                    /\ op[o].status \in {"pending", "claimed", "dead", "discharged"}

\* operation_effects never lies: a recorded deregistration means the instance is
\* deleted, a recorded clone that it finished provisioning. Stale executions, aborts
\* and no-op completions never record an effect that did not happen.
EffectsTruthful ==
  \A i \in Insts :
     /\ <<"deregister", i>> \in effects => inst[i].state = "deleted"
     /\ <<"clone", i>> \in effects => inst[i].state \notin Unready

\* Within one process, no drain of an instance runs beside a provision that still
\* takes the instance for its own: a row is drained only after the batch that
\* provisioned it returned, and a provision that starts later finds it draining
\* (Worker.RunOnce). Module Lifecycle relies on it.
DrainRunsAlone ==
  \A p \in Procs, c, d \in Ops :
     /\ run[p][c].pc = "exec" /\ op[c].kind = "clone" /\ run[p][c].seen.state \in Unready
     /\ run[p][d].pc = "exec" /\ op[d].kind = "deregister"
     => op[c].res # op[d].res

\* A drain that may still be executed has attempts left, although the worker
\* counts from the number it read when it claimed the row (RetryPolicy.Next); the
\* attempts of a provision, which no ceiling bounds, are not counted.
RetryBudget ==
  \A o \in Ops : Open(op[o]) => op[o].attempts < MaxAttempts

\* completed and discharged are final, and dead only becomes discharged.
TerminalIsFinal ==
  [][\A o \in Ops :
       /\ op[o].status \in {"completed", "discharged"} => op'[o].status = op[o].status
       /\ op[o].status = "dead" => op'[o].status \in {"dead", "discharged"}]_vars

\* Only the execution started by the latest claim of a row may settle it: the
\* lease owner alone fences a stale worker, with no token (Complete, Retry,
\* Advance with Settles).
OnlyLatestClaimSettles ==
  [][\A p \in Procs, o \in Ops :
       (Complete(p, o) \/ Abort(p, o) \/ \E aged \in BOOLEAN : Retry(p, o, aged))
         => (op'[o] # op[o] => run[p][o].current)]_vars

\* The outbox implements OutboxPromise: seen through the phase of each row, every
\* step of every worker, crash, restart and operator is a step of the promise or
\* invisible.
Phase(row) == CASE row.status = "absent" -> "absent"
                [] row.status \in {"pending", "claimed"} -> "open"
                [] row.status = "completed" -> "done"
                [] row.status = "dead" -> "parked"
                [] row.status = "discharged" -> "closed"
Promise == INSTANCE OutboxPromise
           WITH phase <- [o \in Ops |-> Phase(op[o])], needs <- dep
KeepsPromise == Promise!PromiseSpec

\* Every open drain, and every open provision of an instance that is past provisioning,
\* is eventually completed, dead or discharged, whatever crashed, failed or was handed
\* from one process to another, unless an operator discharged a row it depends on
\* (Worker.RunOnce, Claim, Retry). A provision that keeps failing is retried for ever.
OpenRowSettles ==
  \A o \in Ops :
     Open(op[o]) /\ (op[o].kind = "clone" => inst[op[o].res].state \notin Unready)
       ~> (~Open(op[o]) \/ \E d \in dep[o] : op[d].status = "discharged")

\* What DeadLetter.ResourceProgressing promises: a resource that still has a
\* pending or claimed row is one on which "work can still advance without an
\* operator", so a pending row is attempted again or closed.
ProgressingAdvances ==
  \A o \in Ops : op[o].status = "pending" ~> op[o].status # "pending"

\* What DrainExecutor promises to the spawns that depend on a drain: a spawn does
\* not start "while the old VM still exists".
SpawnWaitsForDeletion ==
  \A o \in Ops : op[o].kind = "clone" /\ op[o].status \in {"claimed", "completed"} =>
     \A d \in dep[o] : inst[op[d].res].state = "deleted"
=============================================================================
