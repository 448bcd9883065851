---------------------------- MODULE OutboxProofs ----------------------------
(***************************************************************************)
(* Proofs about Outbox, for every number of processes, instances, rows,    *)
(* attempts, resumptions and crashes.                                      *)
(***************************************************************************)
EXTENDS OutboxSteps

-----------------------------------------------------------------------------
(* A worker that still holds its row is the one the latest claim started *)

Fenced ==
  \A p \in Procs, o \in Ops :
    run[p][o].pc # "idle" /\ op[o].status = "claimed" /\ op[o].owner = p =>
      run[p][o].current /\ run[p][o].attempts = op[o].attempts

\* Every step keeps Fenced: a claim that overtakes a run also takes the row's owner
\* away from it, and a process claims only when it runs nothing (Worker.RunOnce).
LEMMA FencedStep == TypeOK /\ Shape /\ Fenced /\ [Next]_vars => Fenced'
<1> SUFFICES ASSUME TypeOK, Shape, Fenced, [Next]_vars, NEW p \in Procs, NEW x \in Ops,
                    run'[p][x].pc # "idle", op'[x].status = "claimed", op'[x].owner = p
             PROVE  run'[p][x].current /\ run'[p][x].attempts = op'[x].attempts
  BY DEF Fenced
<1>t. op[x] \in Row /\ run[p][x] \in Run
  BY DEF TypeOK
<1>1. ASSUME NEW q \in Procs, Claim(q), x \in Taken
      PROVE  run'[p][x].current /\ run'[p][x].attempts = op'[x].attempts
  <2>1. op'[x] = ClaimRow(op[x], q)
    BY <1>1 DEF Claim
  <2>2. q = p /\ op'[x].attempts = op[x].attempts
    BY <1>t, <2>1, ClaimFacts
  <2>3. run'[p][x] = Begun(inst[op[x].res], op[x].attempts)
    BY <1>1, <2>2 DEF Claim
  <2> QED
    BY <2>2, <2>3, BegunFacts
<1>2. ASSUME op[x].status = "claimed", op'[x].owner = op[x].owner,
             op'[x].attempts = op[x].attempts
      PROVE  run'[p][x].current /\ run'[p][x].attempts = op'[x].attempts
  <2>1. run[p][x].pc # "idle" => run[p][x].current /\ run[p][x].attempts = op'[x].attempts
    BY <1>2 DEF Fenced
  <2>2. CASE run'[p][x] = run[p][x]
    BY <2>1, <2>2
  <2>3. CASE Work(p, x) /\ run[p][x].pc = "exec"
    <3>1. PICK r \in Run : /\ run' = SetRun(p, x, r)
                           /\ \/ r = IdleRun
                              \/ /\ run[p][x].current => r.current
                                 /\ r.attempts = run[p][x].attempts
      BY <2>3, WorkRun
    <3>2. run'[p][x] = r
      BY <3>1, SetRunFacts
    <3> QED
      BY <2>1, <2>3, <3>1, <3>2, IdleFacts
  <2>4. CASE \E q \in Procs : Claim(q) /\ x \in Taken
    BY <1>1, <2>4
  <2> QED
    BY Zenon, <2>2, <2>3, <2>4, RunStep
<1> QED
  BY <1>1, <1>2, ClaimedStep

\* Only the execution started by the latest claim settles a row (Complete, Retry,
\* Advance with Settles), whichever process holds the lease.
LEMMA FencedSettles ==
  ASSUME TypeOK, Shape, Fenced, NEW p \in Procs, NEW o \in Ops,
         Complete(p, o) \/ Abort(p, o) \/ (\E aged \in BOOLEAN : Retry(p, o, aged)),
         op'[o] # op[o]
  PROVE  run[p][o].current
<1>1. run[p][o].pc # "idle"
  BY Zenon DEF Complete, Abort, Retry
<1>2. Holds(p, o)
  BY Zenon DEF Complete, Abort, Retry
<1> QED
  BY <1>1, <1>2 DEF Fenced, Holds

-----------------------------------------------------------------------------
(* Prerequisites *)

\* The prerequisites of a claimed or completed row never change (ResumeCleanup moves
\* pending rows only).
LEMMA DepStep ==
  ASSUME TypeOK, Shape, [Next]_vars, NEW x \in Ops, op[x].status \in {"claimed", "completed"}
  PROVE  dep'[x] = dep[x]
<1>n. x # created + 1 /\ x # created + 2
  BY OutboxAssumption DEF Shape, TypeOK, Ops
<1>1. CASE dep' = dep
  BY <1>1
<1>2. ASSUME NEW i \in Insts, EventDrain(i) PROVE dep'[x] = dep[x]
  BY <1>2, <1>n DEF EventDrain, TypeOK
<1>3. ASSUME NEW i \in Insts, NEW j \in Insts, PlanHandoff(i, j) PROVE dep'[x] = dep[x]
  BY <1>3, <1>n DEF PlanHandoff, TypeOK
<1>4. ASSUME NEW o \in Ops, NEW b \in BOOLEAN, ResumeCleanup(o, b) PROVE dep'[x] = dep[x]
  BY <1>4 DEF ResumeCleanup
<1>5. ASSUME NEW p \in Procs, NEW o \in Ops, Work(p, o) PROVE dep' = dep
  BY Zenon, <1>5 DEF Work, RenewalLost, Advance, Abort, ReturnOk, ReturnError, Complete, Retry
<1> QED
  BY <1>1, <1>2, <1>3, <1>4, <1>5 DEF Next, Enqueue, PlanSpawn, PlanDrain, JobEvent, Claim,
     Crash, Start, LeaseLapses, BackoffEnds, DischargeDeadLetter, vars

\* Every step keeps DependenciesHonoured.
LEMMA DependenciesStep ==
  TypeOK /\ Shape /\ DependenciesHonoured /\ [Next]_vars => DependenciesHonoured'
<1> SUFFICES ASSUME TypeOK, Shape, DependenciesHonoured, [Next]_vars, NEW x \in Ops,
                    op'[x].status \in {"claimed", "completed"}, NEW d \in dep'[x]
             PROVE  op'[d].status = "completed"
  BY DEF DependenciesHonoured
<1>1. CASE op[x].status \in {"claimed", "completed"}
  <2>1. d \in dep[x] /\ d \in Ops
    BY <1>1, DepStep DEF TypeOK
  <2>2. op[d].status = "completed"
    BY <1>1, <2>1 DEF DependenciesHonoured
  <2> QED
    BY <2>1, <2>2, RowStep DEF KeptRow
<1>2. ASSUME NEW p \in Procs, Claim(p), x \in Taken PROVE op'[d].status = "completed"
  <2>1. d \in dep[x] /\ d \in Ops
    BY <1>2 DEF Claim, TypeOK
  <2>2. Propagated[d].status = "completed"
    BY <1>2, <2>1 DEF Taken, Claimable, Satisfied
  <2>3. op[d].status = "completed"
    BY <2>1, <2>2, BuryFacts, SMTT(20) DEF Propagated, TypeOK
  <2> QED
    BY <2>1, <2>3, RowStep DEF KeptRow
<1> QED
  BY <1>1, <1>2, ClaimedStep

-----------------------------------------------------------------------------
(* Attempts *)

\* Only Retry counts an attempt, on the row its process holds and has not exhausted.
LEMMA AttemptStep ==
  ASSUME TypeOK, Shape, [Next]_vars, NEW x \in Ops, Open(op'[x])
  PROVE  \/ op'[x].attempts = 0
         \/ Open(op[x]) /\ op'[x].attempts = op[x].attempts
         \/ \E p \in Procs, aged \in BOOLEAN :
               /\ Retry(p, x, aged) /\ Holds(p, x) /\ ~Exhausted(p, x, aged)
               /\ op[x].kind = "deregister" /\ op'[x].attempts = op[x].attempts + 1
<1> DEFINE Good == \/ op'[x].attempts = 0
                   \/ Open(op[x]) /\ op'[x].attempts = op[x].attempts
                   \/ \E p \in Procs, aged \in BOOLEAN :
                         /\ Retry(p, x, aged) /\ Holds(p, x) /\ ~Exhausted(p, x, aged)
                         /\ op[x].kind = "deregister" /\ op'[x].attempts = op[x].attempts + 1
<1> SUFFICES Good
  OBVIOUS
<1>k. "clone" \in Kinds /\ "deregister" \in Kinds
  BY DEF Kinds
<1>t. op[x] \in Row /\ op \in [Ops -> Row]
  BY DEF TypeOK
<1>o. op[x].status # "absent" => Open(op[x])
  BY RowStep DEF KeptRow
<1>1. CASE op'[x] = op[x]
  BY <1>1
<1>2. ASSUME NEW i \in Insts, NEW k \in Kinds, op'[x] = NewRow(k, i) PROVE Good
  BY <1>2, NewRowFacts
<1>3. ASSUME NEW i \in Insts, PlanSpawn(i) \/ PlanDrain(i) \/ EventDrain(i) \/ JobEvent(i)
      PROVE  Good
  BY <1>1, <1>2, <1>3, <1>k, <1>t DEF PlanSpawn, PlanDrain, EventDrain, JobEvent
<1>4. ASSUME NEW i \in Insts, NEW j \in Insts, PlanHandoff(i, j) PROVE Good
  <2>1. op'[x] \in {op[x], NewRow("clone", j), NewRow("deregister", i)}
    BY <1>4, <1>t DEF PlanHandoff
  <2> QED
    BY <1>1, <1>2, <1>k, <2>1
<1>5. ASSUME NEW p \in Procs, Claim(p) PROVE Good
  <2>1. CASE x \in Taken
    <3>1. op'[x] = ClaimRow(op[x], p)
      BY <1>5, <2>1 DEF Claim
    <3>2. op[x].status # "absent"
      BY <1>t, <2>1, BuryFacts DEF Taken, Claimable, Available, Propagated
    <3> QED
      BY <1>t, <1>o, <3>1, <3>2, ClaimFacts
  <2>2. CASE x \notin Taken
    BY <1>5, <1>t, <2>2, BuryFacts DEF Claim, Propagated, Open
  <2> QED
    BY <2>1, <2>2
<1>6. ASSUME NEW p \in Procs, Start(p) PROVE Good
  BY <1>6, <1>t, RequeueFacts DEF Start, Open
<1>7. ASSUME NEW p \in Procs, NEW o \in Ops, Work(p, o) PROVE Good
  <2>1. CASE op' = [op EXCEPT ![o] = Settle(op[o])]
    BY <1>t, <2>1, SettleFacts DEF Open
  <2>2. ASSUME NEW aged \in BOOLEAN, Retry(p, o, aged) PROVE Good
    <3>1. \/ op'[x] = op[x]
          \/ /\ x = o /\ Holds(p, x)
             /\ op'[x] = Fail(op[x], Exhausted(p, x, aged), run[p][x].code)
      BY <1>t, <2>2 DEF Retry
    <3>2. Exhausted(p, x, aged) \in BOOLEAN
      BY Zenon DEF Exhausted
    <3>3. run[p][x].code \in Codes
      BY DEF TypeOK, Run
    <3>4. CASE x = o /\ Holds(p, x) /\ op'[x] = Fail(op[x], Exhausted(p, x, aged), run[p][x].code)
      <4>1. /\ ~Exhausted(p, x, aged)
            /\ op'[x].attempts = IF op[x].kind = "deregister" THEN op[x].attempts + 1
                                 ELSE op[x].attempts
        BY <1>t, <3>2, <3>3, <3>4, FailFacts DEF Open
      <4>2. Open(op[x])
        BY <3>4 DEF Holds, Open
      <4> QED
        BY <2>2, <3>4, <4>1, <4>2
    <3> QED
      BY <1>1, <3>1, <3>4
  <2> QED
    BY Zenon, <1>1, <1>7, <2>1, <2>2 DEF Work, RenewalLost, Advance, Abort, ReturnOk, ReturnError,
       Complete
<1>8. ASSUME NEW o \in Ops, LeaseLapses(o) \/ BackoffEnds(o) PROVE Good
  <2>1. op'[x] \in {op[x], [op[x] EXCEPT !.lapsed = TRUE], [op[x] EXCEPT !.due = TRUE]}
    BY <1>8, <1>t DEF LeaseLapses, BackoffEnds
  <2> QED
    BY <1>t, <2>1, TimedFacts, Zenon DEF Open
<1>9. ASSUME NEW o \in Ops, NEW b \in BOOLEAN,
             DischargeDeadLetter(o, b) \/ ResumeCleanup(o, b)
      PROVE  Good
  <2>1. \/ op'[x] \in {op[x], [op[x] EXCEPT !.status = "discharged"]}
        \/ op[o].status = "dead" /\ op'[x] = NewRow("deregister", op[o].res)
    BY <1>9, <1>t DEF DischargeDeadLetter, ResumeCleanup
  <2>2. op[o].status = "dead" => op[o].res \in Insts
    BY DEF Shape
  <2>3. [op[x] EXCEPT !.status = "discharged"].status = "discharged"
    BY <1>t, DischargedFacts
  <2> QED
    BY Zenon, <1>1, <1>2, <1>k, <2>1, <2>2, <2>3 DEF Open
<1> QED
  BY <1>1, <1>3, <1>4, <1>5, <1>6, <1>7, <1>8, <1>9 DEF Next, Enqueue, Crash, vars

\* Every step keeps RetryBudget: the count the worker read is the row's own while it
\* holds the row.
LEMMA BudgetStep == TypeOK /\ Shape /\ Fenced /\ RetryBudget /\ [Next]_vars => RetryBudget'
<1> SUFFICES ASSUME TypeOK, Shape, Fenced, RetryBudget, [Next]_vars, NEW x \in Ops, Open(op'[x])
             PROVE  op'[x].attempts < MaxAttempts
  BY DEF RetryBudget, Open
<1>1. ASSUME NEW p \in Procs, NEW aged \in BOOLEAN, op[x].kind = "deregister",
             Retry(p, x, aged), Holds(p, x), ~Exhausted(p, x, aged)
      PROVE  op[x].attempts + 1 < MaxAttempts
  <2>1. run[p][x].attempts = op[x].attempts
    BY <1>1 DEF Fenced, Holds, Retry
  <2>2. ~(run[p][x].attempts + 1 >= MaxAttempts)
    BY <1>1 DEF Exhausted
  <2> QED
    BY <2>1, <2>2, OutboxAssumption DEF TypeOK, Row
<1> QED
  BY <1>1, AttemptStep, OutboxAssumption DEF RetryBudget

-----------------------------------------------------------------------------
(* Drains of one instance. OneDrain strengthens LiveInstanceHasNoOpenDrain: an *)
(* abort settles its own drain, so no other may be open on the same instance. *)

OpenDrain(o) == op[o].kind = "deregister" /\ Open(op[o])
OneDrain ==
  \A o \in Ops : OpenDrain(o) =>
    /\ inst[op[o].res].state \in TearingDown \cup {"deleted"}
    /\ \A x \in Ops : OpenDrain(x) /\ op[x].res = op[o].res => x = o

\* A step inserts at most one drain, on an instance that has none in progress, and
\* moves the instance into teardown with it.
LEMMA DrainInserted ==
  ASSUME TypeOK, Shape, [Next]_vars, NEW x \in Ops, op[x].status = "absent",
         op'[x].status # "absent", op'[x].kind = "deregister"
  PROVE  /\ op'[x].res \in Insts
         /\ inst'[op'[x].res].state \in TearingDown
         /\ inst[op'[x].res].state \in Live \/ ~Progressing(op'[x].res)
         /\ \A y \in Ops : op[y].status = "absent" /\ op'[y].status # "absent"
                           /\ op'[y].kind = "deregister" => y = x
<1> DEFINE Good(i) == /\ op'[x].res = i
                      /\ inst'[i].state \in TearingDown
                      /\ inst[i].state \in Live \/ ~Progressing(i)
                      /\ \A y \in Ops : op[y].status = "absent" /\ op'[y].status # "absent"
                                         /\ op'[y].kind = "deregister" => y = x
<1> SUFFICES \E i \in Insts : Good(i)
  OBVIOUS
<1>t. op \in [Ops -> Row] /\ inst \in [Insts -> InstRow] /\ created \in Nat /\ MaxOps \in Nat
  BY OutboxAssumption DEF TypeOK
<1>k. "clone" \in Kinds /\ "deregister" \in Kinds
  BY DEF Kinds
<1>n. created' # created
  <2>1. x > created /\ ~(x > created')
    BY InsertStep DEF Shape
  <2> QED
    BY <2>1
<1>1. ASSUME NEW i \in Insts, created < MaxOps, op' = [op EXCEPT ![created + 1] = NewRow("deregister", i)]
      PROVE  /\ op'[x].res = i
             /\ \A y \in Ops : op[y].status = "absent" /\ op'[y].status # "absent"
                               /\ op'[y].kind = "deregister" => y = x
  BY <1>1, <1>t, <1>k, NewRowFacts DEF Ops
<1>2. ASSUME NEW i \in Insts, PlanSpawn(i) PROVE FALSE
  BY <1>2, <1>t, <1>k, NewRowFacts DEF PlanSpawn
<1>3. ASSUME NEW i \in Insts, PlanDrain(i) PROVE Good(i)
  <2>1. PICK s \in {"stalled", "draining"} : inst' = SetInst(i, s)
    BY <1>3 DEF PlanDrain
  <2>2. s \in InstStates
    BY DEF InstStates
  <2>3. inst'[i].state \in TearingDown
    BY <2>1, <2>2, SetInstFacts DEF TearingDown
  <2> QED
    BY Zenon, <1>1, <1>3, <2>3 DEF PlanDrain, Live
<1>4. ASSUME NEW i \in Insts, EventDrain(i) PROVE Good(i)
  <2>1. "draining" \in InstStates
    BY DEF InstStates
  <2>2. inst'[i].state \in TearingDown
    BY <1>4, <2>1, SetInstFacts DEF EventDrain, TearingDown
  <2> QED
    BY Zenon, <1>1, <1>4, <2>2 DEF EventDrain
<1>5. ASSUME NEW i \in Insts, NEW j \in Insts, PlanHandoff(i, j) PROVE Good(i)
  <2>1. inst'[i].state \in TearingDown /\ inst[i].state \in Live
    BY <1>5, <1>t DEF PlanHandoff, TearingDown, Live
  <2>2. ASSUME NEW y \in Ops, op[y].status = "absent", op'[y].status # "absent",
               op'[y].kind = "deregister"
        PROVE  y = created + 1 /\ op'[y].res = i
    <3>1. \/ op'[y] = op[y]
          \/ y = created + 1 /\ op'[y] = NewRow("deregister", i)
          \/ op'[y] = NewRow("clone", j)
      BY <1>5, <1>t, <2>2 DEF PlanHandoff
    <3> QED
      BY <1>k, <2>2, <3>1, NewRowFacts
  <2> QED
    BY <2>1, <2>2
<1>6. ASSUME NEW o \in Ops, NEW b \in BOOLEAN, ResumeCleanup(o, b) PROVE Good(op[o].res)
  <2>1. op[o].res \in Insts /\ "draining" \in InstStates
    BY <1>6 DEF ResumeCleanup, Shape, InstStates
  <2>2. inst'[op[o].res].state \in TearingDown
    BY <1>6, <2>1, SetInstFacts DEF ResumeCleanup, TearingDown
  <2>3. ASSUME NEW y \in Ops, op[y].status = "absent", op'[y].status # "absent"
        PROVE  y = created + 1 /\ op'[y].res = op[o].res
    <3>1. op' = [op EXCEPT ![o] = [op[o] EXCEPT !.status = "discharged"],
                           ![created + 1] = NewRow("deregister", op[o].res)]
      BY <1>6 DEF ResumeCleanup
    <3>2. o # y
      BY <1>6, <2>3 DEF ResumeCleanup
    <3>3. y = created + 1 /\ op'[y] = NewRow("deregister", op[o].res)
      BY <1>t, <2>3, <3>1, <3>2
    <3> QED
      BY <1>k, <2>1, <3>3, NewRowFacts
  <2> QED
    BY Zenon, <1>6, <2>2, <2>3 DEF ResumeCleanup
<1>7. ASSUME NEW o \in Ops, NEW b \in BOOLEAN, ResumeCleanup(o, b) PROVE op[o].res \in Insts
  BY <1>7 DEF ResumeCleanup, Shape
<1>8. ASSUME NEW p \in Procs, NEW o \in Ops, Work(p, o) PROVE created' = created
  BY Zenon, <1>8 DEF Work, RenewalLost, Advance, Abort, ReturnOk, ReturnError, Complete, Retry
<1> HIDE DEF Good
<1> QED
  BY <1>n, <1>2, <1>3, <1>4, <1>5, <1>6, <1>7, <1>8 DEF Next, Enqueue, JobEvent, Claim,
     Crash, Start, LeaseLapses, BackoffEnds, DischargeDeadLetter, vars

\* Only an abort takes an instance out of teardown.
LEMMA TeardownStep ==
  ASSUME TypeOK, Shape, [Next]_vars, NEW i \in Insts,
         inst[i].state \in TearingDown \cup {"deleted"},
         inst'[i].state \notin TearingDown \cup {"deleted"}
  PROVE  \E p \in Procs, o \in Ops : Abort(p, o) /\ op[o].res = i
<1>s. {"provisioning", "stalled", "draining", "idle", "serving", "registering", "cleaning",
       "deleted"} \subseteq InstStates
  BY DEF InstStates
<1> USE DEF TearingDown
<1>2. ASSUME NEW j \in Insts, PlanSpawn(j) \/ PlanDrain(j) \/ EventDrain(j) \/ JobEvent(j)
      PROVE  FALSE
  BY <1>2, <1>s, SetInstFacts DEF PlanSpawn, PlanDrain, EventDrain, JobEvent, Live
<1>3. ASSUME NEW j \in Insts, NEW k \in Insts, PlanHandoff(j, k) PROVE FALSE
  BY <1>3 DEF PlanHandoff, TypeOK
<1>4. ASSUME NEW p \in Procs, NEW o \in Ops, Advance(p, o) PROVE FALSE
  <2>1. PICK s \in {"registering", "serving", "cleaning", "deleted"} :
          /\ inst' = SetInst(op[o].res, s)
          /\ s \in {"registering", "serving"} => inst[op[o].res].state \in Unready
    BY <1>4 DEF Advance, Unready
  <2>2. s \in InstStates
    BY DEF InstStates
  <2> QED
    BY <2>1, <2>2, SetInstFacts DEF Unready
<1>5. ASSUME NEW p \in Procs, NEW o \in Ops, Abort(p, o) PROVE op[o].res = i
  <2>1. inst' = SetInst(op[o].res, "serving")
    BY Zenon, <1>5 DEF Abort
  <2> QED
    BY <1>s, <2>1, SetInstFacts
<1>6. ASSUME NEW o \in Ops, NEW b \in BOOLEAN,
             DischargeDeadLetter(o, b) \/ ResumeCleanup(o, b)
      PROVE  FALSE
  BY <1>6, <1>s, SetInstFacts DEF DischargeDeadLetter, ResumeCleanup
<1>7. ASSUME NEW p \in Procs, NEW o \in Ops, Work(p, o) PROVE Abort(p, o)
  BY Zenon, <1>4, <1>7 DEF Work, RenewalLost, ReturnOk, ReturnError, Complete, Retry
<1> QED
  BY <1>2, <1>3, <1>5, <1>6, <1>7
     DEF Next, Enqueue, Claim, Crash, Start, LeaseLapses, BackoffEnds, vars

\* Every step keeps OneDrain.
LEMMA OneDrainStep == TypeOK /\ Shape /\ OneDrain /\ [Next]_vars => OneDrain'
<1> SUFFICES ASSUME TypeOK, Shape, OneDrain, [Next]_vars, NEW o \in Ops, OpenDrain(o)'
             PROVE  /\ inst'[op'[o].res].state \in TearingDown \cup {"deleted"}
                    /\ \A x \in Ops : OpenDrain(x)' /\ op'[x].res = op'[o].res => x = o
  BY DEF OneDrain
<1>1. ASSUME NEW x \in Ops, OpenDrain(x)'
      PROVE  \/ op[x].status = "absent" /\ op'[x].status # "absent" /\ op'[x].kind = "deregister"
             \/ OpenDrain(x) /\ op'[x].res = op[x].res /\ op[x].status # "absent"
  BY <1>1, RowStep DEF KeptRow, OpenDrain, Open
<1>2. ASSUME NEW x \in Ops, op[x].status = "absent", op'[x].status # "absent",
             op'[x].kind = "deregister", NEW y \in Ops, OpenDrain(y)', op'[y].res = op'[x].res
      PROVE  y = x
  <2>1. CASE OpenDrain(y) /\ op'[y].res = op[y].res
    <3>1. op[y].res = op'[x].res /\ Open(op[y])
      BY <1>2, <2>1 DEF OpenDrain
    <3>2. Progressing(op'[x].res)
      BY <3>1 DEF Progressing
    <3>3. inst[op'[x].res].state \in Live
      BY <1>2, <3>2, DrainInserted
    <3>4. inst[op'[x].res].state \in TearingDown \cup {"deleted"}
      BY <2>1, <3>1 DEF OneDrain
    <3> QED
      BY <3>3, <3>4 DEF Live, TearingDown
  <2>2. CASE op[y].status = "absent" /\ op'[y].status # "absent" /\ op'[y].kind = "deregister"
    BY <1>2, <2>2, DrainInserted
  <2> QED
    BY <1>1, <1>2, <2>1, <2>2
<1>3. inst'[op'[o].res].state \in TearingDown \cup {"deleted"}
  <2>1. CASE op[o].status = "absent" /\ op'[o].status # "absent" /\ op'[o].kind = "deregister"
    BY <2>1, DrainInserted
  <2>2. CASE OpenDrain(o) /\ op'[o].res = op[o].res /\ op[o].status # "absent"
    <3>1. op[o].res \in Insts /\ inst[op[o].res].state \in TearingDown \cup {"deleted"}
      BY <2>2 DEF OneDrain, Shape
    <3>2. ASSUME NEW p \in Procs, NEW a \in Ops, Abort(p, a), op[a].res = op[o].res PROVE FALSE
      <4>1. OpenDrain(a)
        BY Zenon, <3>2 DEF Abort, Holds, OpenDrain, Open
      <4>2. a = o
        BY <2>2, <3>2, <4>1 DEF OneDrain
      <4>3. op'[o] = Settle(op[o])
        BY Zenon, <3>2, <4>2 DEF Abort, TypeOK
      <4> QED
        BY <4>3, SettleFacts DEF TypeOK, OpenDrain, Open
    <3> QED
      BY <2>2, <3>1, <3>2, TeardownStep
  <2> QED
    BY <1>1, <2>1, <2>2
<1>4. ASSUME NEW x \in Ops, OpenDrain(x)', op'[x].res = op'[o].res PROVE x = o
  BY <1>1, <1>2, <1>4 DEF OneDrain
<1> QED
  BY <1>3, <1>4

-----------------------------------------------------------------------------
(* What an executor last read of its instance, and what still holds of it *)

Reached(o) == IF op[o].kind = "clone"
              THEN inst[op[o].res].state \notin Unready \cup {"none"}
              ELSE inst[op[o].res].state = "deleted"
Snapshots ==
  \A p \in Procs, o \in Ops :
    /\ run[p][o].pc = "exec" =>
         /\ op[o].kind = "deregister" => run[p][o].seen.state \in TearingDown \cup {"deleted"}
         /\ NothingLeft(op[o].kind, run[p][o].seen.state) => Reached(o)
    /\ run[p][o].pc = "ok" /\ Holds(p, o) => Reached(o)

\* What an operation has reached, no later step undoes.
LEMMA ReachedStep ==
  ASSUME TypeOK, Shape, [Next]_vars, NEW o \in Ops, op[o].status # "absent", Reached(o)
  PROVE  Reached(o)'
<1>1. op'[o].kind = op[o].kind /\ op'[o].res = op[o].res /\ op[o].res \in Insts
  BY RowStep DEF KeptRow, Shape
<1>2. KeptInst(op[o].res)
  BY <1>1, InstStep
<1> QED
  BY <1>1, <1>2 DEF Reached, KeptInst, Unready

\* What SetRun writes is what one reads.
LEMMA SetRunAt == ASSUME TypeOK, NEW p \in Procs, NEW o \in Ops, NEW r \in Run PROVE SetRun(p, o, r)[p][o] = r
  BY SetRunFacts

\* A run that goes on after its worker's step advanced the instance, or returned.
LEMMA WorkSeen ==
  ASSUME TypeOK, Shape, NEW p \in Procs, NEW o \in Ops, Work(p, o), run'[p][o].pc # "idle"
  PROVE  \/ /\ Advance(p, o) /\ run'[p][o].pc = "exec"
            /\ run'[p][o].seen = inst'[op[o].res] /\ run[p][o].seen = inst[op[o].res]
         \/ ReturnOk(p, o) /\ run'[p][o].pc = "ok"
         \/ Abort(p, o) /\ run'[p][o].pc = "ok"
         \/ run'[p][o].pc \in {"failed", "spent"}
<1>t. run[p][o] \in Run /\ "ok" \in RunPcs /\ "" \in Codes /\ IdleRun \in Run
  BY IdleFacts DEF TypeOK, RunPcs, Codes
<1>1. CASE RenewalLost(p, o) \/ Complete(p, o) \/ \E aged \in BOOLEAN : Retry(p, o, aged)
  <2>1. run' = SetRun(p, o, IdleRun)
    BY <1>1 DEF RenewalLost, Complete, Retry
  <2>2. run'[p][o] = IdleRun
    BY Zenon, <2>1, IdleFacts, SetRunAt
  <2> QED
    BY <2>2, IdleFacts, SMTT(20)
<1>2. CASE Advance(p, o)
  <2>1. inst'[op[o].res] \in InstRow
    <3>1. op[o].res \in Insts
      BY SMTT(30), <1>2 DEF Advance, Shape
    <3>2. TypeOK'
      BY WorkType
    <3> QED
      BY <3>1, <3>2 DEF TypeOK
  <2>2. /\ run' = SetRun(p, o, [run[p][o] EXCEPT !.seen = inst'[op[o].res]])
        /\ run[p][o].pc = "exec" /\ inst[op[o].res] = run[p][o].seen
    BY <1>2 DEF Advance
  <2>3. /\ [run[p][o] EXCEPT !.seen = inst'[op[o].res]] \in Run
        /\ [run[p][o] EXCEPT !.seen = inst'[op[o].res]].seen = inst'[op[o].res]
        /\ [run[p][o] EXCEPT !.seen = inst'[op[o].res]].pc = run[p][o].pc
    BY Zenon, <1>t, <2>1, SeenFacts
  <2>4. run'[p][o] = [run[p][o] EXCEPT !.seen = inst'[op[o].res]]
    BY <2>2, <2>3, SetRunAt
  <2>5. run'[p][o].pc = "exec" /\ run'[p][o].seen = inst'[op[o].res]
    BY Zenon, <2>2, <2>3, <2>4
  <2> QED
    BY <1>2, <2>2, <2>5
<1>3. CASE ReturnOk(p, o) \/ Abort(p, o)
  <2>1. run' = SetRun(p, o, Returned(run[p][o], "ok", ""))
    BY Zenon, <1>3 DEF ReturnOk, Abort
  <2>2. Returned(run[p][o], "ok", "") \in Run /\ Returned(run[p][o], "ok", "").pc = "ok"
    BY Zenon, <1>t, ReturnedFacts
  <2>3. run'[p][o] = Returned(run[p][o], "ok", "")
    BY <2>1, <2>2, SetRunAt, Zenon
  <2>4. run'[p][o].pc = "ok"
    BY Zenon, <2>2, <2>3
  <2> QED
    BY <1>3, <2>4
<1>4. ASSUME NEW code \in {"cleanup", "other"}, NEW pc \in {"failed", "spent"},
             ReturnError(p, o, code, pc)
      PROVE  run'[p][o].pc \in {"failed", "spent"}
  <2>0. run[p][o] \in Run /\ pc \in RunPcs /\ code \in Codes
    BY <1>t, Zenon DEF RunPcs, Codes
  <2>1. run' = SetRun(p, o, Returned(run[p][o], pc, code))
    BY Zenon, <1>4 DEF ReturnError
  <2>2. Returned(run[p][o], pc, code) \in Run /\ Returned(run[p][o], pc, code).pc = pc
    BY Zenon, <2>0, ReturnedFacts
  <2>3. run'[p][o] = Returned(run[p][o], pc, code)
    BY <2>1, <2>2, SetRunAt
  <2> QED
    BY <2>2, <2>3
<1> QED
  BY SMTT(30), <1>1, <1>2, <1>3, <1>4 DEF Work

\* Advance writes a state of its own operation's path.
LEMMA AdvanceStep ==
  ASSUME TypeOK, Shape, NEW p \in Procs, NEW o \in Ops, Advance(p, o)
  PROVE  /\ op' = op /\ op[o].res \in Insts
         /\ op[o].kind = "clone" =>
              /\ inst[op[o].res].state \in Unready
              /\ inst'[op[o].res].state \in {"registering", "serving"}
         /\ op[o].kind = "deregister" => inst'[op[o].res].state \in {"cleaning", "deleted"}
<1>1. op' = op /\ op[o].res \in Insts
  BY DEF Advance, Shape
<1>2. PICK s \in {"registering", "serving", "cleaning", "deleted"} :
        /\ inst' = SetInst(op[o].res, s)
        /\ op[o].kind = "clone" =>
             inst[op[o].res].state \in Unready /\ s \in {"registering", "serving"}
        /\ op[o].kind = "deregister" => s \in {"cleaning", "deleted"}
  BY DEF Advance, Unready
<1>3. s \in InstStates
  BY DEF InstStates
<1>4. inst'[op[o].res].state = s
  BY <1>1, <1>2, <1>3, SetInstFacts
<1> QED
  BY <1>1, <1>2, <1>4

\* Every step keeps Snapshots.
LEMMA SnapshotStep ==
  TypeOK /\ Shape /\ OneDrain /\ Snapshots /\ [Next]_vars => Snapshots'
<1> SUFFICES ASSUME TypeOK, Shape, OneDrain, Snapshots, [Next]_vars, NEW p \in Procs, NEW o \in Ops,
                    run'[p][o].pc # "idle"
             PROVE  /\ run'[p][o].pc = "exec" =>
                         /\ op'[o].kind = "deregister" =>
                              run'[p][o].seen.state \in TearingDown \cup {"deleted"}
                         /\ NothingLeft(op'[o].kind, run'[p][o].seen.state) => Reached(o)'
                    /\ run'[p][o].pc = "ok" /\ Holds(p, o)' => Reached(o)'
  BY DEF Snapshots
<1> DEFINE Good == /\ run'[p][o].pc = "exec" =>
                        /\ op'[o].kind = "deregister" =>
                             run'[p][o].seen.state \in TearingDown \cup {"deleted"}
                        /\ NothingLeft(op'[o].kind, run'[p][o].seen.state) => Reached(o)'
                   /\ run'[p][o].pc = "ok" /\ Holds(p, o)' => Reached(o)'
<1>t. op[o] \in Row /\ run[p][o] \in Run
  BY DEF TypeOK
<1>a. op[o].status # "absent"
  <2>1. run[p][o].pc # "idle" \/ o \in Taken
    BY Zenon, RunStep
  <2> QED
    BY <2>1, TakenOpen DEF Shape, Open
<1>k. /\ op'[o].kind = op[o].kind /\ op'[o].res = op[o].res /\ op[o].res \in Insts
      /\ inst[op[o].res].state # "none" /\ op[o].kind \in {"clone", "deregister"}
  BY <1>a, RowStep DEF KeptRow, Shape, TypeOK, Row, Kinds
<1>1. ASSUME run'[p][o].pc = run[p][o].pc, run'[p][o].seen = run[p][o].seen,
             ~(Claim(p) /\ o \in Taken)
      PROVE  Good
  <2>1. run'[p][o].pc = "ok" /\ Holds(p, o)' => Holds(p, o)
    <3>1. ASSUME NEW q \in Procs, Claim(q), o \in Taken, op'[o].owner = p PROVE FALSE
      BY SMTT(30), <1>1, <1>t, <3>1, ClaimFacts DEF Claim
    <3> QED
      BY <3>1, ClaimedStep DEF Holds
  <2> QED
    BY <1>1, <1>a, <1>k, <2>1, ReachedStep DEF Snapshots
<1>2. CASE Claim(p) /\ o \in Taken /\ run'[p][o] = Begun(inst[op[o].res], op[o].attempts)
  <2>1. run'[p][o].pc = "exec" /\ run'[p][o].seen = inst[op[o].res]
    BY <1>2, <1>k, <1>t, BegunFacts DEF TypeOK, Row
  <2>2. Open(op[o])
    BY <1>2, TakenOpen
  <2>3. op[o].kind = "deregister" => inst[op[o].res].state \in TearingDown \cup {"deleted"}
    BY <2>2 DEF OneDrain, OpenDrain
  <2>4. NothingLeft(op[o].kind, inst[op[o].res].state) => Reached(o)
    BY <1>k, <2>3 DEF NothingLeft, Reached
  <2> QED
    BY <1>a, <1>k, <2>1, <2>3, <2>4, ReachedStep
<1>3. ASSUME NEW q \in Procs \ {p}, Claim(q), o \in Taken,
             run'[p][o] = [run[p][o] EXCEPT !.current = FALSE]
      PROVE  Good
  <2>1. ~(Claim(p) /\ o \in Taken)
    <3>1. op'[o] = ClaimRow(op[o], q)
      BY <1>3 DEF Claim
    <3>2. Claim(p) => op'[o] = ClaimRow(op[o], p)
      BY <1>3, SMTT(20) DEF Claim
    <3> QED
      BY <1>t, <3>1, <3>2, ClaimFacts
  <2> QED
    BY <1>1, <1>3, <1>t, <2>1, OvertakenFacts
<1>4. CASE Work(p, o) /\ run[p][o].pc = "exec"
  <2>1. CASE /\ Advance(p, o) /\ run'[p][o].pc = "exec"
             /\ run'[p][o].seen = inst'[op[o].res]
    BY <1>k, <2>1, AdvanceStep DEF NothingLeft, Reached, TearingDown, Unready
  <2>2. CASE ReturnOk(p, o) /\ run'[p][o].pc = "ok"
    BY Zenon, <1>a, <2>2, ReachedStep DEF ReturnOk, Snapshots
  <2>3. CASE Abort(p, o) /\ run'[p][o].pc = "ok"
    <3>1. op'[o] = Settle(op[o])
      BY Zenon, <2>3 DEF Abort, TypeOK
    <3> QED
      BY <1>t, <2>3, <3>1, SettleFacts DEF Holds
  <2> QED
    BY <1>4, <2>1, <2>2, <2>3, WorkSeen
<1>5. CASE run'[p][o] = run[p][o] /\ Claim(p) /\ o \in Taken
  BY <1>2, <1>5 DEF Claim
<1>6. CASE run'[p][o] = run[p][o]
  BY <1>1, <1>5, <1>6
<1>7. \/ run'[p][o] = run[p][o]
      \/ Claim(p) /\ o \in Taken /\ run'[p][o] = Begun(inst[op[o].res], op[o].attempts)
      \/ \E q \in Procs \ {p} : /\ Claim(q) /\ o \in Taken
                               /\ run'[p][o] = [run[p][o] EXCEPT !.current = FALSE]
      \/ Work(p, o) /\ run[p][o].pc = "exec"
  BY RunStep
<1> QED
  BY Zenon, <1>2, <1>3, <1>4, <1>6, <1>7

-----------------------------------------------------------------------------
(* Effects, orphans and executions side by side *)

\* EffectsTruthful, and a recorded clone's instance was planned.
Recorded ==
  \A i \in Insts :
    /\ <<"deregister", i>> \in effects => inst[i].state = "deleted"
    /\ <<"clone", i>> \in effects => inst[i].state \notin Unready \cup {"none"}

\* Only Complete records an effect, on a row its worker holds.
LEMMA EffectStep ==
  ASSUME TypeOK, Shape, Snapshots, [Next]_vars, NEW e \in effects', e \notin effects
  PROVE  \E o \in Ops : /\ op[o].status # "absent" /\ Reached(o) /\ inst' = inst
                        /\ e = <<op[o].kind, op[o].res>>
<1>1. ASSUME NEW p \in Procs, NEW o \in Ops, Complete(p, o)
      PROVE  /\ op[o].status # "absent" /\ Reached(o) /\ inst' = inst
             /\ e = <<op[o].kind, op[o].res>>
  <2>1. Holds(p, o) /\ run[p][o].pc = "ok" /\ inst' = inst /\ e = <<op[o].kind, op[o].res>>
    BY <1>1 DEF Complete
  <2> QED
    BY <2>1 DEF Snapshots, Holds
<1>2. ASSUME NEW p \in Procs, NEW o \in Ops, Work(p, o) PROVE Complete(p, o)
  BY Zenon, <1>2 DEF Work, RenewalLost, Advance, Abort, ReturnOk, ReturnError, Retry
<1> QED
  BY <1>1, <1>2, Zenon DEF Next, Enqueue, PlanSpawn, PlanDrain, EventDrain, JobEvent, PlanHandoff,
     Claim, Crash, Start, LeaseLapses, BackoffEnds, DischargeDeadLetter, ResumeCleanup, vars

\* Every step keeps Recorded.
LEMMA RecordedStep == TypeOK /\ Shape /\ Snapshots /\ Recorded /\ [Next]_vars => Recorded'
<1> SUFFICES ASSUME TypeOK, Shape, Snapshots, Recorded, [Next]_vars, NEW i \in Insts
             PROVE  /\ <<"deregister", i>> \in effects' => inst'[i].state = "deleted"
                    /\ <<"clone", i>> \in effects' => inst'[i].state \notin Unready \cup {"none"}
  BY Zenon DEF Recorded
<1>i. KeptInst(i)
  BY InstStep
<1>1. ASSUME <<"deregister", i>> \in effects' PROVE inst'[i].state = "deleted"
  <2>1. CASE <<"deregister", i>> \in effects
    BY Zenon, <1>i, <2>1 DEF Recorded, KeptInst
  <2>2. CASE <<"deregister", i>> \notin effects
    <3>1. PICK o \in Ops : /\ Reached(o) /\ inst' = inst
                           /\ <<"deregister", i>> = <<op[o].kind, op[o].res>>
      BY <1>1, <2>2, EffectStep
    <3> QED
      BY <3>1 DEF Reached
  <2> QED
    BY <2>1, <2>2
<1>2. ASSUME <<"clone", i>> \in effects' PROVE inst'[i].state \notin Unready \cup {"none"}
  <2>1. CASE <<"clone", i>> \in effects
    BY Zenon, <1>i, <2>1 DEF Recorded, KeptInst, Unready
  <2>2. CASE <<"clone", i>> \notin effects
    <3>1. PICK o \in Ops : /\ Reached(o) /\ inst' = inst
                           /\ <<"clone", i>> = <<op[o].kind, op[o].res>>
      BY <1>2, <2>2, EffectStep, SMTT(20)
    <3> QED
      BY <3>1 DEF Reached
  <2> QED
    BY <2>1, <2>2
<1> QED
  BY <1>1, <1>2

\* A row is completed by the worker that holds it, which found the work done or
\* abandoned it (Complete, DrainExecutor.abort).
LEMMA CompletedStep ==
  ASSUME TypeOK, Shape, [Next]_vars, NEW x \in Ops,
         op'[x].status = "completed", op[x].status # "completed"
  PROVE  \E p \in Procs : (Complete(p, x) /\ Holds(p, x)) \/ Abort(p, x)
<1>c. op[x].status = "claimed"
  BY ClaimedStep
<1>t. op[x] \in Row /\ op \in [Ops -> Row]
  BY DEF TypeOK
<1>n. x # created + 1 /\ x # created + 2
  BY <1>c, OutboxAssumption DEF Shape, TypeOK, Ops
<1>1. ASSUME op'[x] = op[x] PROVE FALSE
  BY <1>1
<1>2. ASSUME NEW i \in Insts, PlanSpawn(i) \/ PlanDrain(i) \/ EventDrain(i) \/ JobEvent(i)
      PROVE  FALSE
  BY <1>1, <1>2, <1>n, <1>t DEF PlanSpawn, PlanDrain, EventDrain, JobEvent
<1>3. ASSUME NEW i \in Insts, NEW j \in Insts, PlanHandoff(i, j) PROVE FALSE
  BY <1>1, <1>3, <1>n, <1>t DEF PlanHandoff
<1>4. ASSUME NEW p \in Procs, Claim(p) PROVE FALSE
  <2>1. op'[x] \in {ClaimRow(op[x], p), op[x]}
    BY <1>4, <1>c DEF Claim, Propagated
  <2> QED
    BY <1>1, <1>4, <1>t, <2>1, ClaimFacts
<1>5. ASSUME NEW p \in Procs, Start(p) PROVE FALSE
  BY <1>1, <1>5, <1>t, RequeueFacts DEF Start
<1>6. ASSUME NEW p \in Procs, NEW o \in Ops, Work(p, o)
      PROVE  o = x /\ ((Complete(p, x) /\ Holds(p, x)) \/ Abort(p, x))
  <2>1. CASE op' = op
    BY <1>1, <2>1
  <2>2. ASSUME NEW aged \in BOOLEAN, Retry(p, o, aged) PROVE FALSE
    <3>1. op'[x] = op[x] \/ op'[x] = Fail(op[x], Exhausted(p, x, aged), run[p][x].code)
      BY <1>t, <2>2 DEF Retry
    <3>2. Exhausted(p, x, aged) \in BOOLEAN
      BY Zenon DEF Exhausted
    <3>3. run[p][x].code \in Codes
      BY DEF TypeOK, Run
    <3> QED
      BY <1>1, <1>t, <3>1, <3>2, <3>3, FailFacts, SMTT(20)
  <2>3. CASE Complete(p, o)
    BY <1>1, <1>t, <2>3 DEF Complete
  <2>4. CASE Abort(p, o)
    BY Zenon, <1>1, <1>t, <2>4 DEF Abort
  <2> QED
    BY Zenon, <1>6, <2>1, <2>2, <2>3, <2>4 DEF Work, RenewalLost, Advance, ReturnOk, ReturnError
<1>7. ASSUME NEW o \in Ops, LeaseLapses(o) \/ BackoffEnds(o) PROVE FALSE
  <2>1. op'[x] \in {op[x], [op[x] EXCEPT !.lapsed = TRUE], [op[x] EXCEPT !.due = TRUE]}
    BY <1>7, <1>t DEF LeaseLapses, BackoffEnds
  <2> QED
    BY <1>t, <2>1, TimedFacts, Zenon
<1>8. ASSUME NEW o \in Ops, NEW b \in BOOLEAN,
             DischargeDeadLetter(o, b) \/ ResumeCleanup(o, b)
      PROVE  FALSE
  <2>1. op'[x] \in {op[x], [op[x] EXCEPT !.status = "discharged"]}
    BY <1>8, <1>n, <1>t DEF DischargeDeadLetter, ResumeCleanup
  <2>2. [op[x] EXCEPT !.status = "discharged"].status = "discharged"
    BY <1>t, DischargedFacts
  <2> QED
    BY Zenon, <2>1, <2>2
<1> QED
  BY <1>1, <1>2, <1>3, <1>4, <1>5, <1>6, <1>7, <1>8 DEF Next, Enqueue, Crash, vars

\* Every step keeps TeardownHasCleanup: an instance enters teardown with a fresh
\* drain, and a drain completes only as its instance leaves teardown.
LEMMA CleanupStep ==
  TypeOK /\ Shape /\ Snapshots /\ TeardownHasCleanup /\ [Next]_vars => TeardownHasCleanup'
<1> SUFFICES ASSUME TypeOK, Shape, Snapshots, TeardownHasCleanup, [Next]_vars,
                    NEW i \in Insts, inst'[i].state \in TearingDown
             PROVE  \E o \in Ops : /\ op'[o].res = i /\ op'[o].kind = "deregister"
                                   /\ op'[o].status \in {"pending", "claimed", "dead", "discharged"}
  BY DEF TeardownHasCleanup
<1>t. op \in [Ops -> Row] /\ inst \in [Insts -> InstRow] /\ created \in Nat /\ MaxOps \in Nat
  BY OutboxAssumption DEF TypeOK
<1>k. "deregister" \in Kinds
  BY DEF Kinds
<1>1. CASE inst[i].state \in TearingDown
  <2>1. PICK o \in Ops : /\ op[o].res = i /\ op[o].kind = "deregister"
                         /\ op[o].status \in {"pending", "claimed", "dead", "discharged"}
    BY <1>1 DEF TeardownHasCleanup
  <2>2. op'[o].res = i /\ op'[o].kind = "deregister" /\ op'[o].status # "absent"
    BY <2>1, RowStep DEF KeptRow
  <2>3. op'[o].status # "completed"
    <3>1. ASSUME NEW p \in Procs, Complete(p, o), Holds(p, o) PROVE FALSE
      BY <2>1, <3>1 DEF Complete, Snapshots, Reached, TearingDown
    <3>2. ASSUME NEW p \in Procs, Abort(p, o) PROVE FALSE
      <4>1. "serving" \in InstStates
        BY DEF InstStates
      <4> QED
        BY Zenon, <2>1, <3>2, <4>1, SetInstFacts DEF Abort, TearingDown
    <3> QED
      BY <2>1, <3>1, <3>2, CompletedStep, SMTT(20)
  <2>4. op'[o].status \in Statuses
    BY TypeStep DEF TypeOK, Row
  <2> QED
    BY <2>2, <2>3, <2>4 DEF Statuses
<1>2. CASE inst[i].state \notin TearingDown
  <2>1. \E o \in Ops : op'[o] = NewRow("deregister", i)
    <3>s. {"provisioning", "stalled", "draining", "idle", "serving", "registering", "cleaning",
           "deleted"} \subseteq InstStates
      BY DEF InstStates
    <3>1. ASSUME NEW j \in Insts, PlanSpawn(j) \/ JobEvent(j) PROVE FALSE
      <4>1. PICK s \in {"provisioning", "idle", "serving"} : inst' = SetInst(j, s)
        <5>1. CASE PlanSpawn(j)
          BY <5>1 DEF PlanSpawn
        <5>2. CASE JobEvent(j)
          BY <5>2 DEF JobEvent
        <5> QED
          BY Zenon, <3>1, <5>1, <5>2
      <4>2. s \in InstStates
        BY <3>s
      <4>3. inst'[i].state = s \/ inst'[i] = inst[i]
        BY <4>1, <4>2, SetInstFacts
      <4> QED
        BY <1>2, <4>1, <4>3 DEF TearingDown
    <3>2. ASSUME NEW j \in Insts, PlanDrain(j) \/ EventDrain(j)
          PROVE  \E o \in Ops : op'[o] = NewRow("deregister", i)
      <4>1. j = i
        BY <1>2, <3>2, <3>s, SetInstFacts DEF PlanDrain, EventDrain
      <4>2. created + 1 \in Ops
        BY <1>t, <3>2 DEF PlanDrain, EventDrain, Ops
      <4>3. op'[created + 1] = NewRow("deregister", i)
        BY <1>t, <3>2, <4>1, <4>2 DEF PlanDrain, EventDrain
      <4> QED
        BY <4>2, <4>3
    <3>3. ASSUME NEW j \in Insts, NEW k \in Insts, PlanHandoff(j, k)
          PROVE  \E o \in Ops : op'[o] = NewRow("deregister", i)
      <4>1. j = i
        BY <1>2, <1>t, <3>3 DEF PlanHandoff, TearingDown
      <4>2. created + 1 \in Ops
        BY <1>t, <3>3 DEF PlanHandoff, Ops
      <4>3. op'[created + 1] = NewRow("deregister", i)
        BY <1>t, <3>3, <4>1, <4>2 DEF PlanHandoff
      <4> QED
        BY <4>2, <4>3
    <3>4. ASSUME NEW p \in Procs, NEW o \in Ops, Work(p, o) PROVE FALSE
      <4>1. CASE Advance(p, o)
        <5>1. PICK s \in {"registering", "serving", "cleaning", "deleted"} :
                /\ inst' = SetInst(op[o].res, s)
                /\ s = "cleaning" => inst[op[o].res].state \in TearingDown
          BY <4>1 DEF Advance, TearingDown
        <5>2. s \in InstStates
          BY DEF InstStates
        <5> QED
          BY <1>2, <5>1, <5>2, SetInstFacts DEF TearingDown
      <4>2. CASE Abort(p, o)
        <5>1. inst' = SetInst(op[o].res, "serving")
          BY Zenon, <4>2 DEF Abort
        <5> QED
          BY <1>2, <3>s, <5>1, SetInstFacts DEF TearingDown
      <4> QED
        BY Zenon, <1>2, <3>4, <4>1, <4>2 DEF Work, RenewalLost, ReturnOk, ReturnError, Complete, Retry
    <3>5. ASSUME NEW o \in Ops, NEW b \in BOOLEAN,
                 DischargeDeadLetter(o, b) \/ ResumeCleanup(o, b)
          PROVE  FALSE
      BY <1>2, <3>5, <3>s, SetInstFacts DEF DischargeDeadLetter, ResumeCleanup, TearingDown
    <3> QED
      BY <1>2, <3>1, <3>2, <3>3, <3>4, <3>5, SMTT(20)
         DEF Next, Enqueue, Claim, Crash, Start, LeaseLapses, BackoffEnds, vars
  <2> QED
    BY <1>k, <2>1, NewRowFacts
<1> QED
  BY <1>1, <1>2

\* Every step keeps DrainRunsAlone: a process claims a batch only when it runs
\* nothing, and the batch reads an instance once its drain is open.
LEMMA AloneStep ==
  TypeOK /\ Shape /\ OneDrain /\ Snapshots /\ DrainRunsAlone /\ [Next]_vars => DrainRunsAlone'
<1> SUFFICES ASSUME TypeOK, Shape, OneDrain, DrainRunsAlone, [Next]_vars,
                    NEW p \in Procs, NEW c \in Ops, NEW d \in Ops,
                    run'[p][c].pc = "exec", op'[c].kind = "clone",
                    run'[p][c].seen.state \in Unready,
                    run'[p][d].pc = "exec", op'[d].kind = "deregister",
                    op'[c].res = op'[d].res
             PROVE  FALSE
  BY SMTT(30) DEF DrainRunsAlone
<1>a. ASSUME NEW x \in {c, d}
      PROVE  /\ op[x].status # "absent" /\ op'[x].kind = op[x].kind /\ op'[x].res = op[x].res
             /\ op[x].res \in Insts
  <2>1. run[p][x].pc # "idle" \/ x \in Taken
    BY Zenon, RunStep
  <2>2. op[x].status # "absent"
    BY <2>1, TakenOpen DEF Shape, Open
  <2> QED
    BY <2>2, RowStep DEF KeptRow, Shape
<1>1. CASE Claim(p)
  <2>1. ASSUME NEW x \in {c, d}
        PROVE  x \in Taken /\ run'[p][x] = Begun(inst[op[x].res], op[x].attempts)
    BY <1>1 DEF Claim, BatchDone
  <2>2. inst[op[c].res].state \in Unready
    BY <2>1, BegunFacts
  <2>3. OpenDrain(d)
    BY <1>a, <2>1, TakenOpen DEF OpenDrain
  <2>4. inst[op[d].res].state \in TearingDown \cup {"deleted"}
    BY <2>3 DEF OneDrain
  <2> QED
    BY <1>a, <2>2, <2>4 DEF Unready, TearingDown
<1>2. CASE ~Claim(p)
  <2>1. ASSUME NEW x \in {c, d}
        PROVE  /\ run[p][x].pc = "exec"
               /\ \/ run'[p][x].seen = run[p][x].seen
                  \/ op[x].kind = "clone" => run[p][x].seen.state \in Unready
    <3>1. CASE run'[p][x] = run[p][x]
      BY <3>1
    <3>2. CASE run'[p][x] = [run[p][x] EXCEPT !.current = FALSE]
      <4>1. run[p][x] \in Run /\ run'[p][x].pc = "exec"
        BY DEF TypeOK
      <4>2. run'[p][x].pc = run[p][x].pc /\ run'[p][x].seen = run[p][x].seen
        BY <3>2, <4>1, OvertakenFacts, SMTT(20)
      <4> QED
        BY <4>1, <4>2
    <3>3. CASE Work(p, x) /\ run[p][x].pc = "exec"
      <4>1. Advance(p, x) /\ run[p][x].seen = inst[op[x].res]
        BY <3>3, WorkSeen
      <4> QED
        BY <3>3, <4>1, AdvanceStep
    <3> QED
      BY <1>2, <3>1, <3>2, <3>3, RunStep
  <2> QED
    BY <1>a, <2>1 DEF DrainRunsAlone
<1> QED
  BY <1>1, <1>2

-----------------------------------------------------------------------------
(* The inductive invariant and what follows from it *)

IInv == /\ TypeOK /\ Shape /\ Fenced /\ DependenciesHonoured /\ RetryBudget
        /\ OneDrain /\ Snapshots /\ Recorded /\ TeardownHasCleanup /\ DrainRunsAlone

\* The initial state, an empty database and no process, satisfies it.
LEMMA InitIInv == Init => IInv
<1> SUFFICES ASSUME Init PROVE IInv
  OBVIOUS
<1>1. TypeOK
  BY InitType
<1>2. \A o \in Ops : op[o].status = "absent" /\ ~Open(op[o])
  BY Zenon DEF Init, AbsentRow, Open
<1>3. \A p \in Procs, o \in Ops : run[p][o].pc = "idle"
  BY IdleFacts DEF Init
<1>4. \A i \in Insts : inst[i].state = "none"
  BY DEF Init, Unseen
<1>5. Shape
  <2>1. \A o \in Ops : o > created
    BY OutboxAssumption DEF Init, Ops
  <2> QED
    BY <1>2, <1>3, <2>1 DEF Shape
<1>6. Fenced /\ Snapshots /\ DrainRunsAlone
  BY <1>3 DEF Fenced, Snapshots, DrainRunsAlone
<1>7. DependenciesHonoured /\ RetryBudget /\ OneDrain
  BY <1>2 DEF DependenciesHonoured, RetryBudget, OneDrain, OpenDrain
<1>8. Recorded /\ TeardownHasCleanup
  BY <1>4 DEF Init, Recorded, TeardownHasCleanup, TearingDown
<1> QED
  BY <1>1, <1>5, <1>6, <1>7, <1>8 DEF IInv

\* Every step keeps it.
LEMMA StepIInv == IInv /\ [Next]_vars => IInv'
<1> SUFFICES ASSUME IInv, [Next]_vars PROVE IInv'
  OBVIOUS
<1>1. /\ TypeOK /\ Shape /\ Fenced /\ DependenciesHonoured /\ RetryBudget
      /\ OneDrain /\ Snapshots /\ Recorded /\ TeardownHasCleanup /\ DrainRunsAlone
  BY DEF IInv
<1>2. TypeOK' /\ Shape' /\ Fenced' /\ DependenciesHonoured' /\ RetryBudget'
  BY <1>1, TypeStep, ShapeStep, FencedStep, DependenciesStep, BudgetStep
<1>3. OneDrain' /\ Snapshots' /\ Recorded' /\ TeardownHasCleanup' /\ DrainRunsAlone'
  BY <1>1, OneDrainStep, SnapshotStep, RecordedStep, CleanupStep, AloneStep
<1> QED
  BY <1>2, <1>3 DEF IInv

\* So it always holds.
LEMMA Inductive == Spec => []IInv
  BY InitIInv, StepIInv, PTL DEF Spec

\* Every reachable state of the outbox is well typed.
THEOREM TypeCorrect == Spec => []TypeOK
<1>1. IInv => TypeOK
  BY DEF IInv
<1> QED
  BY <1>1, Inductive, PTL

\* No row is claimed or completed before every row it depends on is completed, however
\* many processes, crashes, discharges and resumptions there are (Claim).
THEOREM PrerequisitesFirst == Spec => []DependenciesHonoured
<1>1. IInv => DependenciesHonoured
  BY DEF IInv
<1> QED
  BY <1>1, Inductive, PTL

\* No live instance has an open drain (Advance with Settles, enqueueDemandDrain).
THEOREM LiveHasNoDrain == Spec => []LiveInstanceHasNoOpenDrain
<1>1. IInv => LiveInstanceHasNoOpenDrain
  BY DEF IInv, OneDrain, OpenDrain, LiveInstanceHasNoOpenDrain, Live, TearingDown
<1> QED
  BY <1>1, Inductive, PTL

\* No instance is left in teardown without a drain row that accounts for it.
THEOREM TeardownIsOwned == Spec => []TeardownHasCleanup
<1>1. IInv => TeardownHasCleanup
  BY DEF IInv
<1> QED
  BY <1>1, Inductive, PTL

\* operation_effects records only what happened (Complete).
THEOREM EffectsAreTrue == Spec => []EffectsTruthful
<1>1. IInv => EffectsTruthful
  BY Zenon DEF IInv, Recorded, EffectsTruthful
<1> QED
  BY <1>1, Inductive, PTL

\* A process never runs a drain beside a live provision of its instance (RunOnce).
THEOREM DrainIsAlone == Spec => []DrainRunsAlone
<1>1. IInv => DrainRunsAlone
  BY DEF IInv
<1> QED
  BY <1>1, Inductive, PTL

\* A row that may still be executed has attempts left (RetryPolicy.Next, Retry).
THEOREM BudgetHolds == Spec => []RetryBudget
<1>1. IInv => RetryBudget
  BY DEF IInv
<1> QED
  BY <1>1, Inductive, PTL

\* No step reopens a completed, discharged or dead row.
THEOREM TerminalStays == Spec => TerminalIsFinal
<1>1. IInv /\ [Next]_vars =>
        [\A o \in Ops :
           /\ op[o].status \in {"completed", "discharged"} => op'[o].status = op[o].status
           /\ op[o].status = "dead" => op'[o].status \in {"dead", "discharged"}]_vars
  BY RowStep DEF IInv, KeptRow
<1> QED
  BY <1>1, Inductive, PTL DEF Spec, TerminalIsFinal

\* No execution but the one the latest claim started settles a row.
THEOREM LatestClaimSettles == Spec => OnlyLatestClaimSettles
<1>1. IInv /\ [Next]_vars =>
        [\A p \in Procs, o \in Ops :
           (Complete(p, o) \/ Abort(p, o) \/ \E aged \in BOOLEAN : Retry(p, o, aged))
             => (op'[o] # op[o] => run[p][o].current)]_vars
  BY FencedSettles DEF IInv
<1> QED
  BY <1>1, Inductive, PTL DEF Spec, OnlyLatestClaimSettles

\* The outbox implements its promise: whatever workers, leases, crashes, restarts
\* and operators do, each row is settled once, after the rows it needs, and is given
\* up only on its own account or behind a row that was.
THEOREM PromiseIsKept == Spec => KeepsPromise
<1>1. Init => Promise!PromiseInit /\ Wired
  <2> SUFFICES ASSUME Init PROVE Promise!PromiseInit /\ Wired
    OBVIOUS
  <2>1. \A o \in Ops : op[o].status = "absent"
    BY Zenon DEF Init, AbsentRow
  <2>2. \A o \in Ops : Phase(op[o]) = "absent" /\ dep[o] = {}
    BY <2>1 DEF Init, Phase
  <2> QED
    BY <2>2 DEF Init, Promise!PromiseInit, Wired
<1>2. IInv /\ Wired /\ [Next]_vars => Wired'
  BY WiredStep DEF IInv
<1>3. IInv /\ IInv' /\ Wired /\ [Next]_vars => [Promise!PromiseNext]_(Promise!promiseVars)
  <2>1. UNCHANGED vars => UNCHANGED Promise!promiseVars
    BY Invisible DEF vars
  <2> QED
    BY <2>1, PromiseStep DEF IInv
<1> QED
  BY <1>1, <1>2, <1>3, Inductive, PTL DEF Spec, KeepsPromise, Promise!PromiseSpec
=============================================================================
