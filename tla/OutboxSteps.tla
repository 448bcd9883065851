---------------------------- MODULE OutboxSteps -----------------------------
(***************************************************************************)
(* What one step of Outbox may do to a row, an instance and an execution,  *)
(* that every step keeps the types and the shape of the outbox, and that   *)
(* it is a step of OutboxPromise or invisible to it. The proofs of         *)
(* OutboxProofs rest on these lemmas.                                      *)
(***************************************************************************)
EXTENDS Outbox, TLAPS

-----------------------------------------------------------------------------
(* What becomes of a row under each update. The proofs about actions cite    *)
(* these and never look inside a record.                                     *)

\* A fresh row is pending, unowned and untried (insertOperation).
LEMMA NewRowFacts ==
  ASSUME NEW k \in Kinds, NEW i \in Insts
  PROVE  /\ NewRow(k, i) \in Row /\ NewRow(k, i).status = "pending"
         /\ NewRow(k, i).kind = k /\ NewRow(k, i).res = i
         /\ NewRow(k, i).attempts = 0 /\ NewRow(k, i).owner = NoOwner
  BY Zenon DEF NewRow, AbsentRow, Row, Kinds, Statuses, Codes

\* Settling a row completes it; the kind and the resource stay (Complete, Advance).
LEMMA SettleFacts ==
  ASSUME NEW r \in Row
  PROVE  /\ Settle(r) \in Row /\ Settle(r).status = "completed"
         /\ Settle(r).kind = r.kind /\ Settle(r).res = r.res
         /\ Settle(r).attempts = r.attempts /\ Settle(r).owner = NoOwner
  BY Zenon DEF Settle, Row, Statuses

\* RecoverExpired makes a row pending and unowned again.
LEMMA RequeueFacts ==
  ASSUME NEW r \in Row
  PROVE  /\ Requeue(r) \in Row /\ Requeue(r).status = "pending"
         /\ Requeue(r).kind = r.kind /\ Requeue(r).res = r.res
         /\ Requeue(r).attempts = r.attempts /\ Requeue(r).owner = NoOwner
  BY Zenon DEF Requeue, Row, Statuses

\* Claim gives the row to the claiming process.
LEMMA ClaimFacts ==
  ASSUME NEW r \in Row, NEW p \in Procs
  PROVE  /\ ClaimRow(r, p) \in Row /\ ClaimRow(r, p).status = "claimed"
         /\ ClaimRow(r, p).kind = r.kind /\ ClaimRow(r, p).res = r.res
         /\ ClaimRow(r, p).attempts = r.attempts /\ ClaimRow(r, p).owner = p
  BY Zenon DEF ClaimRow, Row, Statuses

\* Claim buries a row whose prerequisite is dead.
LEMMA BuryFacts ==
  ASSUME NEW r \in Row
  PROVE  /\ Bury(r) \in Row /\ Bury(r).status = "dead"
         /\ Bury(r).kind = r.kind /\ Bury(r).res = r.res
         /\ Bury(r).attempts = r.attempts /\ Bury(r).owner = r.owner
  BY Zenon DEF Bury, Row, Statuses, Codes

\* Retry counts a drain's attempt and makes the row pending or dead.
LEMMA FailFacts ==
  ASSUME NEW r \in Row, NEW dead \in BOOLEAN, NEW c \in Codes
  PROVE  /\ Fail(r, dead, c) \in Row
         /\ Fail(r, dead, c).status = IF dead THEN "dead" ELSE "pending"
         /\ Fail(r, dead, c).kind = r.kind /\ Fail(r, dead, c).res = r.res
         /\ Fail(r, dead, c).attempts =
              IF r.kind = "deregister" THEN r.attempts + 1 ELSE r.attempts
         /\ Fail(r, dead, c).owner = NoOwner
  BY DEF Fail, Row, Statuses

\* A discharge changes the status alone.
LEMMA DischargedFacts ==
  ASSUME NEW r \in Row
  PROVE  LET x == [r EXCEPT !.status = "discharged"]
         IN  /\ x \in Row /\ x.status = "discharged" /\ x.kind = r.kind
             /\ x.res = r.res /\ x.attempts = r.attempts /\ x.owner = r.owner
  BY DEF Row, Statuses

\* A lapse and the end of a backoff leave every other field alone.
LEMMA TimedFacts ==
  ASSUME NEW r \in Row, NEW x \in {r, [r EXCEPT !.lapsed = TRUE], [r EXCEPT !.due = TRUE]}
  PROVE  /\ x \in Row /\ x.status = r.status /\ x.kind = r.kind
         /\ x.res = r.res /\ x.attempts = r.attempts /\ x.owner = r.owner
<1>1. CASE x = r
  BY <1>1
<1>2. CASE x = [r EXCEPT !.lapsed = TRUE]
  BY <1>2, Zenon DEF Row
<1>3. CASE x = [r EXCEPT !.due = TRUE]
  BY <1>3, Zenon DEF Row
<1> QED
  BY <1>1, <1>2, <1>3

\* An idle run is a run.
LEMMA IdleFacts == IdleRun \in Run /\ IdleRun.pc = "idle"
  BY DEF Run, IdleRun, RunPcs, Codes, Unseen, InstRow, InstStates

\* A claim starts a run as the current one, on what it read.
LEMMA BegunFacts ==
  ASSUME NEW i, NEW n
  PROVE  /\ Begun(i, n).pc = "exec" /\ Begun(i, n).seen = i /\ Begun(i, n).attempts = n
         /\ Begun(i, n).current
         /\ i \in InstRow /\ n \in Nat => Begun(i, n) \in Run
  BY DEF Begun, Run, RunPcs, Codes

\* An executor that returns keeps what its run was claimed with.
LEMMA ReturnedFacts ==
  ASSUME NEW r \in Run, NEW s \in RunPcs, NEW c \in Codes
  PROVE  /\ Returned(r, s, c) \in Run /\ Returned(r, s, c).pc = s
         /\ Returned(r, s, c).seen = r.seen /\ Returned(r, s, c).attempts = r.attempts
         /\ r.current => Returned(r, s, c).current
  BY Zenon DEF Returned, Run

\* So does one that reads its instance again.
LEMMA SeenFacts ==
  ASSUME NEW r \in Run, NEW x \in InstRow
  PROVE  LET y == [r EXCEPT !.seen = x]
         IN  /\ y \in Run /\ y.pc = r.pc /\ y.seen = x
             /\ y.attempts = r.attempts /\ (r.current => y.current)
  BY DEF Run

\* And one that is overtaken by a later claim.
LEMMA OvertakenFacts ==
  ASSUME NEW r \in Run
  PROVE  LET y == [r EXCEPT !.current = FALSE]
         IN  y \in Run /\ y.pc = r.pc /\ y.seen = r.seen /\ y.attempts = r.attempts
  BY Zenon DEF Run

\* Writing one run leaves every other one alone.
LEMMA SetRunFacts ==
  ASSUME TypeOK, NEW p \in Procs, NEW o \in Ops, NEW r \in Run
  PROVE  /\ SetRun(p, o, r) \in [Procs -> [Ops -> Run]]
         /\ SetRun(p, o, r)[p][o] = r
         /\ \A q \in Procs, x \in Ops : q # p \/ x # o => SetRun(p, o, r)[q][x] = run[q][x]
  BY DEF TypeOK, SetRun

\* Writing one instance leaves every other one alone.
LEMMA SetInstFacts ==
  ASSUME TypeOK, NEW i, NEW s \in InstStates
  PROVE  /\ SetInst(i, s) \in [Insts -> InstRow]
         /\ i \in Insts => SetInst(i, s)[i].state = s
         /\ \A j \in Insts : j # i => SetInst(i, s)[j] = inst[j]
<1>1. CASE i \in Insts
  BY <1>1 DEF SetInst, TypeOK, InstRow
<1>2. CASE i \notin Insts
  BY Zenon, <1>2 DEF SetInst, TypeOK
<1> QED
  BY <1>1, <1>2

-----------------------------------------------------------------------------
(* Type correctness. It rests on Shape: rows are numbered in the order they  *)
(* were inserted, name an instance that was planned, and only they are run.  *)

Shape ==
  \A o \in Ops :
    /\ op[o].status = "absent" <=> o > created
    /\ op[o].status # "absent" => op[o].res \in Insts /\ inst[op[o].res].state # "none"
    /\ \A p \in Procs : run[p][o].pc # "idle" => op[o].status # "absent"

\* The initial state is well typed.
LEMMA InitType == Init => TypeOK
<1>1. AbsentRow \in Row /\ IdleRun \in Run /\ Unseen \in InstRow
  BY DEF Row, Run, InstRow, Statuses, Codes, Kinds, RunPcs, IdleRun, AbsentRow, Unseen, InstStates
<1>2. 0 \in 0 .. MaxOps /\ 0 \in 0 .. MaxCrashes
  BY OutboxAssumption
<1> QED
  BY <1>1, <1>2 DEF Init, TypeOK

\* A worker's step on a row keeps the types.
LEMMA WorkType ==
  ASSUME TypeOK, Shape, NEW p \in Procs, NEW o \in Ops, Work(p, o) PROVE TypeOK'
<1>o. op[o] \in Row /\ op[o].kind \in Kinds /\ run[p][o] \in Run /\ run[p][o].code \in Codes
  BY DEF TypeOK, Row, Run
<1>r. /\ {"ok", "failed", "spent"} \subseteq RunPcs /\ {"", "cleanup", "other"} \subseteq Codes
      /\ {"registering", "serving", "cleaning", "deleted"} \subseteq InstStates
  BY DEF RunPcs, Codes, InstStates
<1>1. CASE RenewalLost(p, o)
  BY <1>1, <1>o, IdleFacts, SetRunFacts DEF TypeOK, RenewalLost
<1>2. CASE Advance(p, o)
  <2>1. PICK s \in InstStates : /\ inst' = SetInst(op[o].res, s)
                               /\ run' = SetRun(p, o, [run[p][o] EXCEPT !.seen = inst'[op[o].res]])
    BY Zenon, <1>2, <1>r DEF Advance
  <2>2. inst' \in [Insts -> InstRow]
    BY <2>1, SetInstFacts
  <2>3. inst'[op[o].res] \in InstRow
    BY <1>2, <2>2 DEF Shape, Advance
  <2> QED
    BY Zenon, <1>2, <1>o, <2>1, <2>2, <2>3, SeenFacts, SetRunFacts DEF TypeOK, Advance
<1>3. CASE Abort(p, o)
  BY Zenon, <1>3, <1>o, <1>r, ReturnedFacts, SetRunFacts, SetInstFacts, SettleFacts DEF TypeOK, Abort
<1>4. CASE ReturnOk(p, o)
  BY Zenon, <1>4, <1>o, <1>r, ReturnedFacts, SetRunFacts DEF TypeOK, ReturnOk
<1>5. ASSUME NEW code \in {"cleanup", "other"}, NEW ret \in {"failed", "spent"},
             ReturnError(p, o, code, ret)
      PROVE  TypeOK'
  <2>0. ret \in RunPcs /\ code \in Codes
    BY Zenon, <1>5 DEF RunPcs, Codes
  <2>1. Returned(run[p][o], ret, code) \in Run
    BY <1>o, <2>0, ReturnedFacts
  <2>2. run' \in [Procs -> [Ops -> Run]]
    BY <1>5, <2>1, SetRunFacts DEF ReturnError
  <2> QED
    BY <1>5, <2>2 DEF TypeOK, ReturnError
<1>6. CASE Complete(p, o)
  <2>1. run' \in [Procs -> [Ops -> Run]]
    BY <1>6, <1>o, IdleFacts, SetRunFacts DEF Complete
  <2>2. CASE Holds(p, o)
    <3>1. op' = [op EXCEPT ![o] = Settle(op[o])] /\ Settle(op[o]) \in Row
      BY <1>6, <1>o, <2>2, SettleFacts DEF Complete
    <3>2. effects' = effects \cup {<<op[o].kind, op[o].res>>} /\ op[o].res \in Insts
      BY <1>6, <2>2 DEF Complete, Shape
    <3> QED
      BY <1>6, <1>o, <2>1, <3>1, <3>2 DEF TypeOK, Complete
  <2>3. CASE ~Holds(p, o)
    BY <1>6, <2>1, <2>3 DEF TypeOK, Complete
  <2> QED
    BY <2>2, <2>3
<1>7. ASSUME NEW aged \in BOOLEAN, Retry(p, o, aged) PROVE TypeOK'
  <2>1. run' \in [Procs -> [Ops -> Run]]
    BY <1>7, <1>o, IdleFacts, SetRunFacts DEF Retry
  <2>2. Exhausted(p, o, aged) \in BOOLEAN
    BY Zenon DEF Exhausted
  <2>3. Fail(op[o], Exhausted(p, o, aged), run[p][o].code) \in Row
    BY <1>o, <2>2, FailFacts
  <2> QED
    BY <1>7, <2>1, <2>3 DEF TypeOK, Retry
<1> QED
  BY <1>1, <1>2, <1>3, <1>4, <1>5, <1>6, <1>7 DEF Work

\* Every step keeps the types.
LEMMA TypeStep == TypeOK /\ Shape /\ [Next]_vars => TypeOK'
<1> SUFFICES ASSUME TypeOK, Shape, [Next]_vars PROVE TypeOK'
  OBVIOUS
<1>k. "clone" \in Kinds /\ "deregister" \in Kinds
  BY DEF Kinds
<1>s. {"provisioning", "stalled", "draining", "idle", "serving", "deleted"} \subseteq InstStates
  BY DEF InstStates
<1>n. created < MaxOps => created + 1 \in Ops /\ created + 1 \in 0 .. MaxOps
  BY OutboxAssumption DEF TypeOK, Ops
<1>1. CASE UNCHANGED vars
  BY <1>1 DEF vars, TypeOK
<1>2. ASSUME NEW i \in Insts, PlanSpawn(i) PROVE TypeOK'
  BY <1>2, <1>k, <1>s, <1>n, NewRowFacts, SetInstFacts DEF PlanSpawn, TypeOK
<1>3. ASSUME NEW i \in Insts, PlanDrain(i) PROVE TypeOK'
  BY <1>3, <1>k, <1>s, <1>n, NewRowFacts, SetInstFacts DEF PlanDrain, TypeOK
<1>4. ASSUME NEW i \in Insts, NEW j \in Insts, PlanHandoff(i, j) PROVE TypeOK'
  <2>1. created + 1 \in Ops /\ created + 2 \in Ops /\ created + 2 \in 0 .. MaxOps
    BY <1>4, OutboxAssumption DEF PlanHandoff, TypeOK, Ops
  <2>2. op' \in [Ops -> Row] /\ dep' \in [Ops -> SUBSET Ops]
    BY SMTT(30), <1>4, <1>k, <2>1, NewRowFacts DEF PlanHandoff, TypeOK
  <2>3. inst' \in [Insts -> InstRow]
    BY <1>4, <1>s DEF PlanHandoff, TypeOK, InstRow
  <2> QED
    BY <1>4, <2>1, <2>2, <2>3, SMTT(20) DEF PlanHandoff, TypeOK
<1>5. ASSUME NEW i \in Insts, EventDrain(i) PROVE TypeOK'
  <2>1. op' \in [Ops -> Row] /\ inst' \in [Insts -> InstRow]
    BY <1>5, <1>k, <1>s, <1>n, NewRowFacts, SetInstFacts DEF EventDrain, TypeOK
  <2>2. dep' \in [Ops -> SUBSET Ops]
    BY <1>5, <1>n DEF EventDrain, TypeOK, ProvisionOf
  <2> QED
    BY <1>5, <1>n, <2>1, <2>2 DEF EventDrain, TypeOK
<1>6. ASSUME NEW i \in Insts, JobEvent(i) PROVE TypeOK'
  BY <1>6, <1>s, SetInstFacts DEF JobEvent, TypeOK
<1>7. ASSUME NEW p \in Procs, Claim(p) PROVE TypeOK'
  <2>1. \A o \in Ops : Propagated[o] \in Row /\ ClaimRow(op[o], p) \in Row
    BY BuryFacts, ClaimFacts DEF Propagated, TypeOK
  <2>2. op' \in [Ops -> Row]
    BY <1>7, <2>1 DEF Claim
  <2>3. ASSUME NEW q \in Procs, NEW o \in Ops PROVE run'[q][o] \in Run
    <3>1. run[q][o] \in Run /\ [run[q][o] EXCEPT !.current = FALSE] \in Run
      BY OvertakenFacts DEF TypeOK
    <3>2. ASSUME o \in Taken
          PROVE  Begun(inst[op[o].res], op[o].attempts) \in Run
      <4>1. op[o].status # "absent"
        BY <3>2, BuryFacts DEF Taken, Claimable, Available, Propagated, TypeOK
      <4>2. inst[op[o].res] \in InstRow /\ op[o].attempts \in Nat
        BY <4>1 DEF Shape, TypeOK, Row
      <4> QED
        BY <4>2, BegunFacts
    <3> QED
      BY <1>7, <3>1, <3>2 DEF Claim
  <2>4. run' \in [Procs -> [Ops -> Run]]
    BY <1>7, <2>3 DEF Claim
  <2> QED
    BY <1>7, <2>2, <2>4 DEF Claim, TypeOK
<1>8. ASSUME NEW p \in Procs, Crash(p) PROVE TypeOK'
  <2>1. IdleRun \in Run
    BY DEF Run, IdleRun, RunPcs, Codes, Unseen, InstRow, InstStates
  <2>2. crashes' \in 0 .. MaxCrashes
    BY <1>8, OutboxAssumption DEF Crash, TypeOK
  <2> QED
    BY <1>8, <2>1, <2>2 DEF Crash, TypeOK
<1>9. ASSUME NEW p \in Procs, Start(p) PROVE TypeOK'
  BY <1>9, RequeueFacts DEF Start, TypeOK
<1>10. ASSUME NEW p \in Procs, NEW o \in Ops, Work(p, o) PROVE TypeOK'
  BY <1>10, WorkType
<1>11. ASSUME NEW o \in Ops, LeaseLapses(o) PROVE TypeOK'
  <2>1. op' = [op EXCEPT ![o] = [op[o] EXCEPT !.lapsed = TRUE]]
    BY <1>11 DEF LeaseLapses
  <2>2. [op[o] EXCEPT !.lapsed = TRUE] \in Row
    <3>1. op[o] \in Row
      BY DEF TypeOK
    <3> QED
      BY <3>1, TimedFacts, Zenon
  <2> QED
    BY <1>11, <2>1, <2>2 DEF LeaseLapses, TypeOK
<1>12. ASSUME NEW o \in Ops, BackoffEnds(o) PROVE TypeOK'
  <2>1. op' = [op EXCEPT ![o] = [op[o] EXCEPT !.due = TRUE]]
    BY <1>12 DEF BackoffEnds
  <2>2. [op[o] EXCEPT !.due = TRUE] \in Row
    <3>1. op[o] \in Row
      BY DEF TypeOK
    <3> QED
      BY <3>1, TimedFacts, Zenon
  <2> QED
    BY <1>12, <2>1, <2>2 DEF BackoffEnds, TypeOK
<1>13. ASSUME NEW o \in Ops, NEW b \in BOOLEAN, DischargeDeadLetter(o, b) PROVE TypeOK'
  <2>1. op' = [op EXCEPT ![o] = [op[o] EXCEPT !.status = "discharged"]]
    BY <1>13 DEF DischargeDeadLetter
  <2>2. inst' \in [Insts -> InstRow]
    BY <1>13, <1>s, SetInstFacts DEF DischargeDeadLetter, TypeOK
  <2>3. [op[o] EXCEPT !.status = "discharged"] \in Row
    <3>1. op[o] \in Row
      BY DEF TypeOK
    <3> QED
      BY <3>1, DischargedFacts
  <2> QED
    BY <1>13, <2>1, <2>2, <2>3 DEF DischargeDeadLetter, TypeOK
<1>14. ASSUME NEW o \in Ops, NEW b \in BOOLEAN, ResumeCleanup(o, b) PROVE TypeOK'
  <2>1. op' = [op EXCEPT ![o] = [op[o] EXCEPT !.status = "discharged"],
                         ![created + 1] = NewRow("deregister", op[o].res)]
    BY <1>14 DEF ResumeCleanup
  <2>2. op[o].res \in Insts
    BY <1>14 DEF ResumeCleanup, Shape
  <2>3. op' \in [Ops -> Row]
    <3>1. [op[o] EXCEPT !.status = "discharged"] \in Row
      <4>1. op[o] \in Row
        BY DEF TypeOK
      <4> QED
        BY <4>1, DischargedFacts
    <3> QED
      BY Zenon, <1>k, <2>1, <2>2, <3>1, NewRowFacts DEF TypeOK
  <2>4. inst' \in [Insts -> InstRow]
    BY <1>14, <1>s, SetInstFacts DEF ResumeCleanup, TypeOK
  <2>5. dep' \in [Ops -> SUBSET Ops] /\ created' \in 0 .. MaxOps
    BY <1>14, <1>n DEF ResumeCleanup, TypeOK
  <2> QED
    BY Zenon, <1>14, <2>3, <2>4, <2>5 DEF ResumeCleanup, TypeOK
<1> QED
  BY <1>1, <1>2, <1>3, <1>4, <1>5, <1>6, <1>7, <1>8, <1>9, <1>10, <1>11, <1>12,
     <1>13, <1>14 DEF Next, Enqueue

-----------------------------------------------------------------------------
(* What no step does to a row or to an instance *)

KeptRow(o) ==
  /\ op[o].status # "absent" =>
       /\ op'[o].status # "absent" /\ op'[o].kind = op[o].kind /\ op'[o].res = op[o].res
       /\ Open(op'[o]) => Open(op[o])
       /\ op[o].status \in {"completed", "discharged"} => op'[o].status = op[o].status
       /\ op[o].status = "dead" => op'[o].status \in {"dead", "discharged"}
  /\ op[o].status = "absent" =>
       \/ op'[o] = op[o]
       \/ \E k \in Kinds, i \in Insts : op'[o] = NewRow(k, i)

KeptInst(i) ==
  /\ inst[i].state # "none" => inst'[i].state # "none"
  /\ inst[i].state = "deleted" => inst'[i].state = "deleted"
  /\ inst[i].state \notin Unready \cup {"none"} => inst'[i].state \notin Unready

\* An inserted row keeps its kind and resource for ever and its status only moves
\* towards the end; a missing row stays missing or is inserted afresh.
LEMMA RowStep == ASSUME TypeOK, Shape, [Next]_vars, NEW x \in Ops PROVE KeptRow(x)
<1>k. "clone" \in Kinds /\ "deregister" \in Kinds
  BY DEF Kinds
<1>t. op[x] \in Row /\ op \in [Ops -> Row]
  BY DEF TypeOK
<1>n. /\ created < MaxOps => created + 1 \in Ops /\ op[created + 1].status = "absent"
      /\ created + 1 < MaxOps => created + 2 \in Ops /\ op[created + 2].status = "absent"
                                 /\ created + 1 \in Ops /\ op[created + 1].status = "absent"
  BY OutboxAssumption DEF TypeOK, Ops, Shape
<1>1. CASE op' = op
  BY <1>1 DEF KeptRow
<1>2. ASSUME NEW i \in Insts, NEW k \in Kinds, created < MaxOps,
             op' = [op EXCEPT ![created + 1] = NewRow(k, i)]
      PROVE  KeptRow(x)
  BY <1>2, <1>t, <1>n DEF KeptRow
<1>3. ASSUME NEW i \in Insts, NEW j \in Insts, PlanHandoff(i, j) PROVE KeptRow(x)
  BY <1>3, <1>t, <1>n, <1>k DEF PlanHandoff, KeptRow
<1>4. ASSUME NEW p \in Procs, Claim(p) PROVE KeptRow(x)
  <2>1. CASE x \in Taken
    <3>1. Open(op[x])
      BY <2>1, <1>t, BuryFacts DEF Taken, Claimable, Available, Propagated, Open
    <3>2. op'[x] = ClaimRow(op[x], p)
      BY <1>4, <2>1 DEF Claim
    <3> QED
      BY <1>t, <3>1, <3>2, ClaimFacts DEF KeptRow, Open
  <2>2. CASE x \notin Taken
    <3>1. op'[x] = op[x] \/ (op[x].status = "pending" /\ op'[x] = Bury(op[x]))
      BY <1>4, <2>2 DEF Claim, Propagated
    <3> QED
      BY <1>t, <3>1, BuryFacts DEF KeptRow, Open
  <2> QED
    BY <2>1, <2>2
<1>5. ASSUME NEW p \in Procs, Start(p) PROVE KeptRow(x)
  BY <1>5, <1>t, RequeueFacts DEF Start, KeptRow, Open
<1>6. ASSUME NEW o \in Ops, NEW p \in Procs, Holds(p, o),
             op' = [op EXCEPT ![o] = Settle(op[o])]
      PROVE  KeptRow(x)
  BY <1>6, <1>t, SettleFacts DEF Holds, KeptRow, Open
<1>7. ASSUME NEW p \in Procs, NEW o \in Ops, NEW aged \in BOOLEAN, Retry(p, o, aged)
      PROVE  KeptRow(x)
  <2>1. Exhausted(p, o, aged) \in BOOLEAN
    BY Zenon DEF Exhausted
  <2>2. run[p][o].code \in Codes
    BY DEF TypeOK, Run
  <2>3. \/ op'[x] = op[x]
        \/ /\ op[x].status = "claimed"
           /\ op'[x] = Fail(op[x], Exhausted(p, o, aged), run[p][o].code)
    BY <1>7, <1>t DEF Retry, Holds
  <2> QED
    BY <1>t, <2>1, <2>2, <2>3, FailFacts DEF KeptRow, Open
<1>8. ASSUME NEW o \in Ops, LeaseLapses(o) \/ BackoffEnds(o) PROVE KeptRow(x)
  <2>1. op'[x] \in {op[x], [op[x] EXCEPT !.lapsed = TRUE], [op[x] EXCEPT !.due = TRUE]}
    BY <1>8, <1>t DEF LeaseLapses, BackoffEnds
  <2>2. op'[x].status = op[x].status /\ op'[x].kind = op[x].kind /\ op'[x].res = op[x].res
    BY <1>t, <2>1, TimedFacts, Zenon
  <2>3. op[x].status = "absent" => op'[x] = op[x]
    BY <1>8, <1>t DEF LeaseLapses, BackoffEnds
  <2> QED
    BY <2>2, <2>3 DEF KeptRow, Open
<1>9. ASSUME NEW o \in Ops, NEW b \in BOOLEAN,
             DischargeDeadLetter(o, b) \/ ResumeCleanup(o, b)
      PROVE  KeptRow(x)
  <2>1. \/ op'[x] = op[x]
        \/ /\ op[x].status \in {"dead", "discharged"}
           /\ op'[x] = [op[x] EXCEPT !.status = "discharged"]
        \/ /\ op[x].status = "absent" /\ op[o].status = "dead"
           /\ op'[x] = NewRow("deregister", op[o].res)
    BY <1>9, <1>t, <1>n DEF DischargeDeadLetter, Dischargeable, ResumeCleanup
  <2>2. [op[x] EXCEPT !.status = "discharged"].kind = op[x].kind
    BY <1>t, DischargedFacts
  <2>3. [op[x] EXCEPT !.status = "discharged"].res = op[x].res
    BY <1>t, DischargedFacts
  <2>4. [op[x] EXCEPT !.status = "discharged"].status = "discharged"
    BY <1>t, DischargedFacts
  <2>5. op[o].status = "dead" => op[o].res \in Insts
    BY DEF Shape
  <2> QED
    BY Zenon, <1>k, <2>1, <2>2, <2>3, <2>4, <2>5 DEF KeptRow, Open
<1>10. ASSUME NEW i \in Insts, PlanSpawn(i) \/ PlanDrain(i) \/ EventDrain(i) \/ JobEvent(i)
       PROVE  KeptRow(x)
  BY <1>1, <1>2, <1>10, <1>k DEF PlanSpawn, PlanDrain, EventDrain, JobEvent
<1>11. ASSUME NEW p \in Procs, NEW o \in Ops, Work(p, o) PROVE KeptRow(x)
  BY Zenon, <1>1, <1>6, <1>7, <1>11 DEF Work, RenewalLost, Advance, Abort, ReturnOk, ReturnError,
     Complete
<1> QED
  BY <1>1, <1>3, <1>4, <1>5, <1>8, <1>9, <1>10, <1>11 DEF Next, Enqueue, Crash, vars

\* deleted is final, an instance never becomes unplanned again, and once it has left
\* the states a provision works in it never returns to one of them.
LEMMA InstStep == ASSUME TypeOK, Shape, [Next]_vars, NEW i \in Insts PROVE KeptInst(i)
<1>s. {"provisioning", "stalled", "draining", "idle", "serving", "registering", "cleaning",
       "deleted"} \subseteq InstStates
  BY DEF InstStates
<1> USE DEF KeptInst, Unready
<1>1. CASE inst' = inst
  BY <1>1
<1>2. ASSUME NEW j \in Insts, PlanSpawn(j) \/ PlanDrain(j) \/ EventDrain(j) \/ JobEvent(j)
      PROVE  KeptInst(i)
  BY <1>2, <1>s, SetInstFacts DEF PlanSpawn, PlanDrain, EventDrain, JobEvent, Live
<1>3. ASSUME NEW j \in Insts, NEW k \in Insts, PlanHandoff(j, k) PROVE KeptInst(i)
  BY <1>3 DEF PlanHandoff, TypeOK
<1>4. ASSUME NEW p \in Procs, NEW o \in Ops, Advance(p, o) \/ Abort(p, o) PROVE KeptInst(i)
  <2>1. CASE Advance(p, o)
    <3>1. PICK s \in {"registering", "serving", "cleaning", "deleted"} :
            /\ inst' = SetInst(op[o].res, s)
            /\ s = "registering" => inst[op[o].res].state = "provisioning"
            /\ inst[op[o].res].state # "deleted"
      BY <2>1 DEF Advance
    <3>2. s \in InstStates
      BY DEF InstStates
    <3> QED
      BY <3>1, <3>2, SetInstFacts
  <2>2. CASE Abort(p, o)
    <3>1. inst' = SetInst(op[o].res, "serving") /\ inst[op[o].res].state = "draining"
      BY Zenon, <2>2 DEF Abort
    <3> QED
      BY <1>s, <3>1, SetInstFacts
  <2> QED
    BY <1>4, <2>1, <2>2
<1>5. ASSUME NEW o \in Ops, NEW b \in BOOLEAN,
             DischargeDeadLetter(o, b) \/ ResumeCleanup(o, b)
      PROVE  KeptInst(i)
  BY <1>5, <1>s, SetInstFacts DEF DischargeDeadLetter, ResumeCleanup, TearingDown
<1>6. ASSUME NEW p \in Procs, NEW o \in Ops, Work(p, o) PROVE KeptInst(i)
  BY Zenon, <1>1, <1>4, <1>6 DEF Work, RenewalLost, ReturnOk, ReturnError, Complete, Retry
<1> QED
  BY <1>1, <1>2, <1>3, <1>5, <1>6
     DEF Next, Enqueue, Claim, Crash, Start, LeaseLapses, BackoffEnds, vars

-----------------------------------------------------------------------------
(* Shape is an invariant *)

\* A step numbers the rows it inserts consecutively, and names in each an instance
\* it has planned (ApplyPlan, enqueueDemandDrain, ResumeCleanup).
LEMMA InsertStep ==
  ASSUME TypeOK, Shape, [Next]_vars, NEW x \in Ops
  PROVE  /\ op'[x].status = "absent" <=> x > created'
         /\ op[x].status = "absent" /\ op'[x].status # "absent"
              => op'[x].res \in Insts /\ inst'[op'[x].res].state # "none"
<1> DEFINE Inserted == /\ op'[x].status = "absent" <=> x > created'
                       /\ op[x].status = "absent" /\ op'[x].status # "absent"
                            => op'[x].res \in Insts /\ inst'[op'[x].res].state # "none"
<1> SUFFICES Inserted
  OBVIOUS
<1>k. "clone" \in Kinds /\ "deregister" \in Kinds
  BY DEF Kinds
<1>s. {"provisioning", "stalled", "draining"} \subseteq InstStates
  BY DEF InstStates
<1>t. op \in [Ops -> Row] /\ created \in Nat /\ x \in Nat
  BY OutboxAssumption DEF TypeOK, Ops
<1>x. op[x].status = "absent" <=> x > created
  BY DEF Shape
<1>1. ASSUME created' = created, op[x].status = "absent" => op'[x] = op[x] PROVE Inserted
  <2>1. KeptRow(x)
    BY RowStep
  <2> QED
    BY <1>1, <1>x, <2>1 DEF KeptRow
<1>2. ASSUME NEW i \in Insts, NEW k \in Kinds, created < MaxOps, created' = created + 1,
             op' = [op EXCEPT ![created + 1] = NewRow(k, i)], inst'[i].state # "none"
      PROVE  Inserted
  BY <1>2, <1>t, <1>x, NewRowFacts
<1>3. ASSUME NEW i \in Insts, PlanSpawn(i) \/ PlanDrain(i) \/ EventDrain(i) PROVE Inserted
  <2>1. inst'[i].state # "none"
    BY <1>3, <1>s, SetInstFacts DEF PlanSpawn, PlanDrain, EventDrain
  <2> QED
    BY <1>2, <1>3, <1>k, <2>1 DEF PlanSpawn, PlanDrain, EventDrain
<1>4. ASSUME NEW i \in Insts, NEW j \in Insts, PlanHandoff(i, j) PROVE Inserted
  <2>1. inst'[i].state # "none" /\ inst'[j].state # "none"
    BY <1>4 DEF PlanHandoff, TypeOK
  <2>2. op'[x] = IF x = created + 2 THEN NewRow("clone", j)
                 ELSE IF x = created + 1 THEN NewRow("deregister", i) ELSE op[x]
    BY <1>4, <1>t DEF PlanHandoff
  <2>3. created' = created + 2
    BY <1>4 DEF PlanHandoff
  <2> QED
    BY <1>t, <1>x, <1>k, <2>1, <2>2, <2>3, NewRowFacts
<1>5. ASSUME NEW o \in Ops, NEW b \in BOOLEAN, ResumeCleanup(o, b) PROVE Inserted
  <2>1. op[o].res \in Insts /\ inst[op[o].res].state # "none" /\ o # created + 1
    BY <1>5, <1>t DEF ResumeCleanup, Shape
  <2>2. inst'[op[o].res].state # "none"
    BY <2>1, InstStep DEF KeptInst
  <2>3. op'[x] = IF x = created + 1 THEN NewRow("deregister", op[o].res)
                 ELSE IF x = o THEN [op[o] EXCEPT !.status = "discharged"] ELSE op[x]
    BY <1>5, <1>t DEF ResumeCleanup
  <2>4. op[o].status = "dead" /\ [op[o] EXCEPT !.status = "discharged"].status = "discharged"
    BY <1>5, <1>t, DischargedFacts DEF ResumeCleanup
  <2>5. created' = created + 1
    BY <1>5 DEF ResumeCleanup
  <2> QED
    BY <1>t, <1>x, <1>k, <2>1, <2>2, <2>3, <2>4, <2>5, NewRowFacts
<1>6. ASSUME NEW o \in Ops, NEW b \in BOOLEAN, DischargeDeadLetter(o, b) PROVE Inserted
  BY <1>1, <1>6, <1>t DEF DischargeDeadLetter, Dischargeable
<1>7. ASSUME NEW p \in Procs, Claim(p) \/ Start(p) \/ Crash(p) PROVE Inserted
  <2>1. op[x].status = "absent" => op'[x] = op[x]
    <3>1. op[x].status = "absent" => x \notin Taken /\ Propagated[x] = op[x]
      BY <1>t DEF Taken, Claimable, Available, Propagated
    <3> QED
      BY <1>7, <3>1 DEF Claim, Start, Crash
  <2> QED
    BY <1>1, <1>7, <2>1 DEF Claim, Start, Crash
<1>8. ASSUME NEW p \in Procs, NEW o \in Ops, Work(p, o) PROVE Inserted
  <2>1. op[x].status = "absent" => op'[x] = op[x]
    <3>1. CASE Holds(p, o) /\ x = o
      BY <3>1 DEF Holds
    <3>2. CASE ~(Holds(p, o) /\ x = o)
      BY Zenon, <1>8, <1>t, <3>2 DEF Work, RenewalLost, Advance, Abort, ReturnOk, ReturnError,
         Complete, Retry
    <3> QED
      BY <3>1, <3>2
  <2>2. created' = created
    BY Zenon, <1>8 DEF Work, RenewalLost, Advance, Abort, ReturnOk, ReturnError, Complete, Retry
  <2> QED
    BY <1>1, <2>1, <2>2
<1>9. ASSUME NEW o \in Ops, LeaseLapses(o) \/ BackoffEnds(o) PROVE Inserted
  BY <1>1, <1>9, <1>t DEF LeaseLapses, BackoffEnds
<1>10. ASSUME NEW i \in Insts, JobEvent(i) PROVE Inserted
  BY <1>1, <1>10 DEF JobEvent
<1>11. CASE UNCHANGED vars
  BY <1>1, <1>11, SMTT(20) DEF vars
<1> QED
  BY <1>3, <1>4, <1>5, <1>6, <1>7, <1>8, <1>9, <1>10, <1>11 DEF Next, Enqueue

\* A row is claimed by Claim alone, completed only from claimed, and neither its
\* owner nor its attempt count moves while it stays claimed.
LEMMA ClaimedStep ==
  ASSUME TypeOK, Shape, [Next]_vars, NEW x \in Ops
  PROVE  /\ op'[x].status = "claimed" =>
              \/ /\ op[x].status = "claimed" /\ op'[x].owner = op[x].owner
                 /\ op'[x].attempts = op[x].attempts
              \/ \E p \in Procs : Claim(p) /\ x \in Taken
         /\ op'[x].status = "completed" => op[x].status \in {"claimed", "completed"}
<1> DEFINE Good == /\ op'[x].status = "claimed" =>
                        \/ /\ op[x].status = "claimed" /\ op'[x].owner = op[x].owner
                           /\ op'[x].attempts = op[x].attempts
                        \/ \E p \in Procs : Claim(p) /\ x \in Taken
                   /\ op'[x].status = "completed" => op[x].status \in {"claimed", "completed"}
<1> SUFFICES Good
  OBVIOUS
<1>k. "clone" \in Kinds /\ "deregister" \in Kinds
  BY DEF Kinds
<1>t. op[x] \in Row /\ op \in [Ops -> Row]
  BY DEF TypeOK
<1>1. CASE op'[x] = op[x]
  BY <1>1
<1>2. ASSUME NEW i \in Insts, NEW k \in Kinds, op'[x] = NewRow(k, i) PROVE Good
  BY <1>2, NewRowFacts
<1>3. ASSUME NEW i \in Insts, PlanSpawn(i) \/ PlanDrain(i) \/ EventDrain(i) \/ JobEvent(i)
      PROVE  Good
  BY <1>1, <1>2, <1>3, <1>k, <1>t DEF PlanSpawn, PlanDrain, EventDrain, JobEvent
<1>4. ASSUME NEW i \in Insts, NEW j \in Insts, PlanHandoff(i, j) PROVE Good
  <2>1. op'[x] \in {op[x], NewRow("clone", j), NewRow("deregister", i)}
    BY <1>4, <1>t DEF PlanHandoff
  <2> QED
    BY <1>1, <1>2, <1>k, <2>1
<1>5. ASSUME NEW p \in Procs, Claim(p) PROVE Good
  <2>1. CASE x \in Taken
    <3>1. op'[x] = ClaimRow(op[x], p)
      BY <1>5, <2>1 DEF Claim
    <3> QED
      BY <1>5, <1>t, <2>1, <3>1, ClaimFacts
  <2>2. CASE x \notin Taken
    BY <1>5, <1>t, <2>2, BuryFacts DEF Claim, Propagated
  <2> QED
    BY <2>1, <2>2
<1>6. ASSUME NEW p \in Procs, Start(p) PROVE Good
  BY <1>6, <1>t, RequeueFacts DEF Start
<1>7. ASSUME NEW p \in Procs, NEW o \in Ops, Work(p, o) PROVE Good
  <2>1. CASE op' = [op EXCEPT ![o] = Settle(op[o])] /\ Holds(p, o)
    BY <1>t, <2>1, SettleFacts DEF Holds
  <2>2. ASSUME NEW aged \in BOOLEAN, Retry(p, o, aged) PROVE Good
    <3>1. op'[x] = op[x] \/ op'[x] = Fail(op[x], Exhausted(p, o, aged), run[p][o].code)
      BY <1>t, <2>2 DEF Retry
    <3>2. Exhausted(p, o, aged) \in BOOLEAN
      BY Zenon DEF Exhausted
    <3>3. run[p][o].code \in Codes
      BY DEF TypeOK, Run
    <3> QED
      BY <1>1, <1>t, <3>1, <3>2, <3>3, FailFacts
  <2> QED
    BY Zenon, <1>1, <1>7, <2>1, <2>2 DEF Work, RenewalLost, Advance, Abort, ReturnOk, ReturnError,
       Complete
<1>8. ASSUME NEW o \in Ops, LeaseLapses(o) \/ BackoffEnds(o) PROVE Good
  <2>1. op'[x] \in {op[x], [op[x] EXCEPT !.lapsed = TRUE], [op[x] EXCEPT !.due = TRUE]}
    BY <1>8, <1>t DEF LeaseLapses, BackoffEnds
  <2> QED
    BY <1>t, <2>1, TimedFacts, Zenon
<1>9. ASSUME NEW o \in Ops, NEW b \in BOOLEAN,
             DischargeDeadLetter(o, b) \/ ResumeCleanup(o, b)
      PROVE  Good
  <2>1. \/ op'[x] \in {op[x], [op[x] EXCEPT !.status = "discharged"]}
        \/ op[o].status = "dead" /\ op'[x] = NewRow("deregister", op[o].res)
    BY <1>9, <1>t, SMTT(20) DEF DischargeDeadLetter, ResumeCleanup
  <2>2. op[o].status = "dead" => op[o].res \in Insts
    BY DEF Shape
  <2>3. [op[x] EXCEPT !.status = "discharged"].status = "discharged"
    BY <1>t, DischargedFacts
  <2> QED
    BY Zenon, <1>1, <1>2, <1>k, <2>1, <2>2, <2>3
<1> QED
  BY <1>1, <1>3, <1>4, <1>5, <1>6, <1>7, <1>8, <1>9 DEF Next, Enqueue, Crash, vars

\* A worker's step writes its own run: it ends the run, or keeps the claim's facts.
LEMMA WorkRun ==
  ASSUME TypeOK, Shape, NEW p \in Procs, NEW o \in Ops, Work(p, o)
  PROVE  \E r \in Run :
            /\ run' = SetRun(p, o, r)
            /\ \/ r = IdleRun
               \/ /\ run[p][o].pc = "exec" /\ (run[p][o].current => r.current)
                  /\ r.attempts = run[p][o].attempts
<1>t. run[p][o] \in Run
  BY DEF TypeOK
<1>i. IdleRun \in Run
  BY IdleFacts, SMTT(20)
<1>1. CASE RenewalLost(p, o) \/ Complete(p, o) \/ \E aged \in BOOLEAN : Retry(p, o, aged)
  BY <1>1, <1>i DEF RenewalLost, Complete, Retry
<1>2. CASE Advance(p, o)
  <2>1. inst'[op[o].res] \in InstRow
    <3>1. op[o].res \in Insts
      BY <1>2 DEF Advance, Shape
    <3>2. TypeOK'
      BY WorkType
    <3> QED
      BY <3>1, <3>2 DEF TypeOK
  <2>2. run' = SetRun(p, o, [run[p][o] EXCEPT !.seen = inst'[op[o].res]]) /\ run[p][o].pc = "exec"
    BY <1>2 DEF Advance
  <2> DEFINE r == [run[p][o] EXCEPT !.seen = inst'[op[o].res]]
  <2>3. r \in Run /\ (run[p][o].current => r.current) /\ r.attempts = run[p][o].attempts
    BY <1>t, <2>1, SeenFacts
  <2> HIDE DEF r
  <2> QED
    BY Zenon, <2>2, <2>3 DEF r
<1>3. ASSUME NEW s \in RunPcs, NEW c \in Codes, run[p][o].pc = "exec",
             run' = SetRun(p, o, Returned(run[p][o], s, c))
      PROVE  \E r \in Run : /\ run' = SetRun(p, o, r) /\ run[p][o].pc = "exec"
                            /\ (run[p][o].current => r.current)
                            /\ r.attempts = run[p][o].attempts
  <2>1. /\ Returned(run[p][o], s, c) \in Run
        /\ run[p][o].current => Returned(run[p][o], s, c).current
        /\ Returned(run[p][o], s, c).attempts = run[p][o].attempts
    BY <1>t, ReturnedFacts
  <2> QED
    BY <1>3, <2>1
<1>4. "ok" \in RunPcs /\ "failed" \in RunPcs /\ "spent" \in RunPcs /\ "" \in Codes
      /\ "cleanup" \in Codes /\ "other" \in Codes
  BY DEF RunPcs, Codes
<1>5. CASE Abort(p, o) \/ ReturnOk(p, o)
  BY Zenon, <1>3, <1>4, <1>5 DEF Abort, ReturnOk
<1>6. ASSUME NEW code \in {"cleanup", "other"}, NEW ret \in {"failed", "spent"},
             ReturnError(p, o, code, ret)
      PROVE  \E r \in Run : /\ run' = SetRun(p, o, r) /\ run[p][o].pc = "exec"
                            /\ (run[p][o].current => r.current)
                            /\ r.attempts = run[p][o].attempts
  BY Zenon, <1>3, <1>4, <1>6 DEF ReturnError
<1> QED
  BY <1>1, <1>2, <1>5, <1>6 DEF Work

\* Claim takes only open rows.
LEMMA TakenOpen == ASSUME TypeOK, NEW x \in Taken PROVE x \in Ops /\ Open(op[x])
<1>1. x \in Ops /\ Available(Propagated[x])
  BY DEF Taken, Claimable
<1>2. op[x] \in Row
  BY <1>1 DEF TypeOK
<1>3. Propagated[x] = op[x] \/ Propagated[x] = Bury(op[x])
  BY <1>1 DEF Propagated
<1>4. ~Available(Bury(op[x]))
  BY <1>2, BuryFacts DEF Available
<1> QED
  BY <1>1, <1>3, <1>4 DEF Available, Open

\* What a step does to a run: a claim starts it or marks it overtaken, its own
\* worker takes it one step further, or it ends.
LEMMA RunStep ==
  ASSUME TypeOK, Shape, [Next]_vars, NEW p \in Procs, NEW x \in Ops, run'[p][x].pc # "idle"
  PROVE  \/ run'[p][x] = run[p][x]
         \/ /\ Claim(p) /\ x \in Taken
            /\ run'[p][x] = Begun(inst[op[x].res], op[x].attempts)
         \/ /\ \E q \in Procs \ {p} : Claim(q)
            /\ x \in Taken /\ run'[p][x] = [run[p][x] EXCEPT !.current = FALSE]
         \/ Work(p, x) /\ run[p][x].pc = "exec"
<1>1. CASE run' = run
  BY <1>1
<1>2. ASSUME NEW q \in Procs, Claim(q) PROVE
             \/ run'[p][x] = run[p][x]
             \/ /\ p = q /\ x \in Taken
                /\ run'[p][x] = Begun(inst[op[x].res], op[x].attempts)
             \/ p # q /\ x \in Taken /\ run'[p][x] = [run[p][x] EXCEPT !.current = FALSE]
  BY <1>2 DEF Claim
<1>3. ASSUME NEW q \in Procs, Crash(q) PROVE run'[p][x] = run[p][x]
  BY Zenon, <1>3 DEF Crash, TypeOK, IdleRun
<1>4. ASSUME NEW q \in Procs, NEW o \in Ops, Work(q, o)
      PROVE  run'[p][x] = run[p][x] \/ (q = p /\ o = x /\ run[p][x].pc = "exec")
  <2>1. PICK r \in Run : run' = SetRun(q, o, r) /\ (r = IdleRun \/ run[q][o].pc = "exec")
    BY <1>4, WorkRun
  <2>2. IdleRun.pc = "idle"
    BY DEF IdleRun
  <2>3. CASE q = p /\ o = x
    <3>1. run'[p][x] = r
      BY <2>1, <2>3, SetRunFacts
    <3> QED
      BY <2>1, <2>2, <2>3, <3>1
  <2>4. CASE q # p \/ o # x
    BY <2>1, <2>4 DEF SetRun, TypeOK
  <2> QED
    BY <2>3, <2>4
<1> QED
  BY Zenon, <1>1, <1>2, <1>3, <1>4 DEF Next, Enqueue, PlanSpawn, PlanDrain, EventDrain, JobEvent,
     PlanHandoff, Start, LeaseLapses, BackoffEnds, DischargeDeadLetter, ResumeCleanup, vars

\* Every step keeps Shape.
LEMMA ShapeStep == TypeOK /\ Shape /\ [Next]_vars => Shape'
<1> SUFFICES ASSUME TypeOK, Shape, [Next]_vars, NEW x \in Ops
             PROVE  /\ op'[x].status = "absent" <=> x > created'
                    /\ op'[x].status # "absent" =>
                         op'[x].res \in Insts /\ inst'[op'[x].res].state # "none"
                    /\ \A p \in Procs : run'[p][x].pc # "idle" => op'[x].status # "absent"
  BY DEF Shape
<1>1. op'[x].status = "absent" <=> x > created'
  BY InsertStep
<1>2. KeptRow(x)
  BY RowStep
<1>3. op'[x].status # "absent" => op'[x].res \in Insts /\ inst'[op'[x].res].state # "none"
  <2>1. CASE op[x].status = "absent"
    BY <2>1, InsertStep
  <2>2. CASE op[x].status # "absent"
    <3>1. op[x].res \in Insts /\ inst[op[x].res].state # "none" /\ op'[x].res = op[x].res
      BY <1>2, <2>2 DEF Shape, KeptRow
    <3> QED
      BY <3>1, InstStep DEF KeptInst
  <2> QED
    BY <2>1, <2>2
<1>4. ASSUME NEW p \in Procs, run'[p][x].pc # "idle" PROVE op'[x].status # "absent"
  <2>1. run[p][x].pc # "idle" \/ x \in Taken
    BY Zenon, <1>4, RunStep
  <2>2. op[x].status # "absent"
    BY <2>1, TakenOpen DEF Shape, Open
  <2> QED
    BY <1>2, <2>2 DEF KeptRow
<1> QED
  BY <1>1, <1>3, <1>4

-----------------------------------------------------------------------------
(* The outbox implements OutboxPromise. What the promise calls the phase of  *)
(* a row is its status with pending and claimed taken together.              *)

\* A row that does not exist depends on nothing.
Wired == \A o \in Ops : op[o].status = "absent" => dep[o] = {}

LEMMA PhaseFacts ==
  ASSUME NEW r \in Row
  PROVE  /\ r.status = "absent" <=> Phase(r) = "absent"
         /\ Open(r) <=> Phase(r) = "open"
         /\ r.status = "completed" <=> Phase(r) = "done"
         /\ r.status = "dead" <=> Phase(r) = "parked"
         /\ r.status = "discharged" <=> Phase(r) = "closed"
<1>1. r.status \in Statuses
  BY Zenon DEF Row
<1> QED
  BY <1>1 DEF Phase, Open, Statuses

\* Two rows of one status are in one phase.
LEMMA SamePhase ==
  ASSUME NEW r \in Row, NEW s \in Row, r.status = s.status \/ (Open(r) /\ Open(s))
  PROVE  Phase(r) = Phase(s)
BY Zenon DEF Phase, Open

\* Steps that the promise does not see.
LEMMA Invisible ==
  ASSUME \A o \in Ops : Phase(op[o])' = Phase(op[o]), dep' = dep
  PROVE  UNCHANGED Promise!promiseVars
BY DEF Promise!promiseVars

\* A set of rows moves to one phase.
LEMMA Moves ==
  ASSUME NEW S, NEW to,
         \A o \in Ops : Phase(op[o])' = IF o \in S THEN to ELSE Phase(op[o])
  PROVE  Promise!Move(S, to)
BY DEF Promise!Move

\* ApplyPlan and enqueueDemandDrain submit the rows they insert.
LEMMA SubmitStep ==
  ASSUME TypeOK, TypeOK', Shape, Enqueue
  PROVE  Promise!PromiseNext \/ UNCHANGED Promise!promiseVars
<1>k. "clone" \in Kinds /\ "deregister" \in Kinds
  BY DEF Kinds
<1>t. op \in [Ops -> Row] /\ created \in Nat /\ dep' \in [Ops -> SUBSET Ops]
  BY DEF TypeOK
<1>n. /\ created < MaxOps => created + 1 \in Ops /\ op[created + 1].status = "absent"
      /\ created + 1 < MaxOps => created + 2 \in Ops /\ op[created + 2].status = "absent"
                                 /\ created + 1 \in Ops /\ op[created + 1].status = "absent"
  BY OutboxAssumption DEF TypeOK, Ops, Shape
<1>1. ASSUME NEW S \in SUBSET Ops, \A o \in S : op[o].status = "absent" /\ op'[o].status = "pending",
             \A o \in Ops \ S : op'[o] = op[o] /\ dep'[o] = dep[o]
      PROVE  Promise!PromiseNext
  <2>1. \A o \in S : Phase(op[o]) = "absent" /\ Phase(op'[o]) = "open"
    BY <1>1, <1>t DEF Phase
  <2>2. Promise!Move(S, "open")
    BY <1>1, <2>1, Moves
  <2>3. Promise!Submit(S)
    BY <1>1, <1>t, <2>1, <2>2 DEF Promise!Submit
  <2> QED
    BY <2>3 DEF Promise!PromiseNext
<1>2. ASSUME NEW i \in Insts, PlanSpawn(i) \/ PlanDrain(i) \/ EventDrain(i)
      PROVE  Promise!PromiseNext
  <2>1. PICK k \in Kinds : /\ created < MaxOps
                           /\ op' = [op EXCEPT ![created + 1] = NewRow(k, i)]
    BY <1>2, <1>k DEF PlanSpawn, PlanDrain, EventDrain
  <2>2. \A o \in Ops \ {created + 1} : op'[o] = op[o] /\ dep'[o] = dep[o]
    BY <1>2, <2>1, <1>t DEF PlanSpawn, PlanDrain, EventDrain, TypeOK
  <2>3. op'[created + 1].status = "pending"
    BY <2>1, <1>n, <1>t, NewRowFacts
  <2>4. /\ {created + 1} \in SUBSET Ops
        /\ \A o \in {created + 1} : op[o].status = "absent" /\ op'[o].status = "pending"
    BY <1>n, <2>1, <2>3
  <2> QED
    BY Zenon, <1>1, <2>2, <2>4
<1>3. ASSUME NEW i \in Insts, NEW j \in Insts, PlanHandoff(i, j)
      PROVE  Promise!PromiseNext
  <2>1. \A o \in Ops \ {created + 1, created + 2} : op'[o] = op[o] /\ dep'[o] = dep[o]
    BY <1>3, <1>t DEF PlanHandoff, TypeOK
  <2>2. /\ created + 1 < MaxOps /\ op'[created + 1] = NewRow("deregister", i)
        /\ op'[created + 2] = NewRow("clone", j)
    BY <1>3, <1>n, <1>t DEF PlanHandoff
  <2>3. /\ {created + 1, created + 2} \in SUBSET Ops
        /\ \A o \in {created + 1, created + 2} :
             op[o].status = "absent" /\ op'[o].status = "pending"
    BY <1>n, <1>k, <2>2, NewRowFacts
  <2> QED
    BY Zenon, <1>1, <2>1, <2>3
<1>4. ASSUME NEW i \in Insts, JobEvent(i)
      PROVE  UNCHANGED Promise!promiseVars
  BY <1>4, Invisible DEF JobEvent
<1> QED
  BY <1>2, <1>3, <1>4 DEF Enqueue

\* Claim buries the rows behind a dead one together: each of them needs a row that
\* was given up, or one that is buried in the same step. A row that ran to its
\* end is never behind a dead one.
LEMMA DoomedNeeds ==
  ASSUME TypeOK, Wired, DependenciesHonoured, NEW o \in Doomed
  PROVE  /\ op[o].status \notin {"absent", "claimed", "completed"}
         /\ \E d \in dep[o] : op[d].status = "dead" \/ d \in Doomed
<1> DEFINE Closed(S) == \A x \in Ops : (\E d \in dep[x] : op[d].status = "dead" \/ d \in S)
                                       => x \in S
<1>1. ASSUME NEW S \in SUBSET Ops, Closed(S) PROVE Doomed \subseteq S
  BY <1>1 DEF Doomed
<1>2. Closed(Doomed)
  <2> SUFFICES ASSUME NEW x \in Ops, NEW d \in dep[x], op[d].status = "dead" \/ d \in Doomed
               PROVE  x \in Doomed
    OBVIOUS
  <2> SUFFICES ASSUME NEW S \in SUBSET Ops, Closed(S) PROVE x \in S
    BY DEF Doomed
  <2>1. op[d].status = "dead" \/ d \in S
    BY <1>1
  <2> QED
    BY <2>1
<1>3. \E d \in dep[o] : op[d].status = "dead" \/ d \in Doomed
  <2> DEFINE T == {x \in Ops : \E d \in dep[x] : op[d].status = "dead" \/ d \in Doomed}
  <2>1. T \subseteq Doomed
    BY <1>2
  <2>2. Closed(T)
    BY <2>1
  <2>3. o \in T
    BY <1>1, <2>2, Zenon
  <2> QED
    BY <2>3
<1>4. op[o].status \notin {"claimed", "completed"}
  <2> DEFINE U == {x \in Ops : op[x].status \notin {"claimed", "completed"}}
  <2>1. Closed(U)
    BY DEF DependenciesHonoured
  <2> QED
    BY <1>1, <2>1, Zenon
<1>5. op[o].status # "absent"
  BY <1>3 DEF Wired, Doomed
<1> QED
  BY <1>3, <1>4, <1>5

LEMMA ParkStep ==
  ASSUME TypeOK, TypeOK', Wired, DependenciesHonoured, NEW p \in Procs, Claim(p)
  PROVE  Promise!PromiseNext
<1> DEFINE S == {o \in Ops : op[o].status = "pending" /\ o \in Doomed}
<1>t. op \in [Ops -> Row]
  BY DEF TypeOK
<1>1. \A o \in Ops : Phase(op'[o]) = IF o \in S THEN "parked" ELSE Phase(op[o])
  <2> SUFFICES ASSUME NEW o \in Ops
               PROVE  Phase(op'[o]) = IF o \in S THEN "parked" ELSE Phase(op[o])
    OBVIOUS
  <2>1. CASE o \in Taken
    <3>1. op'[o] = ClaimRow(op[o], p) /\ Open(op[o])
      BY <2>1, TakenOpen DEF Claim
    <3>2. o \notin S
      <4>1. Available(Propagated[o])
        BY <2>1 DEF Taken, Claimable
      <4>2. o \in S => Propagated[o] = Bury(op[o])
        BY DEF Propagated
      <4>3. ~Available(Bury(op[o]))
        BY <1>t, BuryFacts DEF Available
      <4> QED
        BY <4>1, <4>2, <4>3
    <3>3. ClaimRow(op[o], p) \in Row /\ Open(ClaimRow(op[o], p))
      BY <1>t, ClaimFacts DEF Open
    <3> QED
      BY <1>t, <3>1, <3>2, <3>3, SamePhase
  <2>2. CASE o \notin Taken
    <3>1. op'[o] = IF o \in S THEN Bury(op[o]) ELSE op[o]
      BY <2>2 DEF Claim, Propagated
    <3>2. Bury(op[o]) \in Row /\ Phase(Bury(op[o])) = "parked"
      BY <1>t, BuryFacts, PhaseFacts
    <3> QED
      BY <3>1, <3>2
  <2> QED
    BY <2>1, <2>2
<1>2. Promise!Move(S, "parked")
  BY <1>1, Moves
<1>3. ASSUME NEW o \in S
      PROVE  /\ Phase(op[o]) = "open"
             /\ \E d \in dep[o] : Phase(op[d]) \in {"parked", "closed"} \/ d \in S
  <2>1. Phase(op[o]) = "open"
    BY <1>t DEF Phase
  <2>2. PICK d \in dep[o] : op[d].status = "dead" \/ d \in Doomed
    BY DoomedNeeds
  <2>3. d \in Ops /\ op[d] \in Row /\ op[d].status \in Statuses
    BY <1>t DEF TypeOK, Row
  <2>4. op[d].status \in {"dead", "discharged"} \/ d \in S
    BY <2>2, <2>3, DoomedNeeds DEF Statuses
  <2>5. Phase(op[d]) \in {"parked", "closed"} \/ d \in S
    BY <2>3, <2>4, PhaseFacts
  <2> QED
    BY <2>1, <2>5
<1>4. Promise!Park(S)
  <2>1. S \subseteq Ops /\ dep' = dep /\ \A o \in S : dep[o] \subseteq Ops
    BY DEF Claim, TypeOK
  <2> HIDE DEF S
  <2>2. \A o \in Ops : [x \in Ops |-> Phase(op[x])][o] = Phase(op[o])
    OBVIOUS
  <2>3. ASSUME NEW o \in S
        PROVE  /\ [x \in Ops |-> Phase(op[x])][o] = "open"
               /\ \E d \in dep[o] : \/ [x \in Ops |-> Phase(op[x])][d] \in {"parked", "closed"}
                                    \/ d \in S
    BY <1>3, <2>1, <2>2
  <2> QED
    BY Zenon, <1>2, <2>1, <2>3 DEF Promise!Park, Promise!GivenUp
<1>5. S \in SUBSET Ops
  OBVIOUS
<1> QED
  BY <1>4, <1>5 DEF Promise!PromiseNext

\* Only a claimed row is settled by its worker, and then the rows it needs are done.
LEMMA SettleStep ==
  ASSUME TypeOK, DependenciesHonoured, NEW p \in Procs, NEW o \in Ops, Work(p, o)
  PROVE  Promise!PromiseNext \/ UNCHANGED Promise!promiseVars
<1>t. op \in [Ops -> Row] /\ op[o] \in Row /\ dep[o] \subseteq Ops
  BY DEF TypeOK
<1>d. dep' = dep
  BY Zenon DEF Work, RenewalLost, Advance, Abort, ReturnOk, ReturnError, Complete, Retry
<1>1. \/ op' = op
      \/ Holds(p, o) /\ op' = [op EXCEPT ![o] = Settle(op[o])]
      \/ /\ Holds(p, o) /\ run[p][o].pc \in {"failed", "spent"}
         /\ \E aged \in BOOLEAN :
              op' = [op EXCEPT ![o] = Fail(op[o], Exhausted(p, o, aged), run[p][o].code)]
  BY Zenon DEF Work, RenewalLost, Advance, Abort, ReturnOk, ReturnError, Complete, Retry
<1>2. CASE op' = op
  BY <1>2, <1>d, Invisible
<1>3. ASSUME Holds(p, o)
      PROVE  /\ Phase(op[o]) = "open"
             /\ \A d \in dep[o] : [x \in Ops |-> Phase(op[x])][d] = "done"
  <2>1. op[o].status = "claimed"
    BY <1>3 DEF Holds
  <2>2. \A d \in dep[o] : op[d].status = "completed" /\ op[d] \in Row /\ d \in Ops
    BY <1>t, <2>1 DEF DependenciesHonoured
  <2>3. \A d \in dep[o] : d \in Ops /\ Phase(op[d]) = "done"
    BY <2>2, PhaseFacts
  <2>4. Phase(op[o]) = "open"
    BY <1>t, <2>1, PhaseFacts DEF Open
  <2> QED
    BY <2>3, <2>4
<1>4. CASE Holds(p, o) /\ op' = [op EXCEPT ![o] = Settle(op[o])]
  <2>1. \A x \in Ops : op'[x] = IF x \in {o} THEN Settle(op[o]) ELSE op[x]
    BY <1>4, <1>t
  <2>2. Phase(Settle(op[o])) = "done"
    BY <1>t, SettleFacts, PhaseFacts
  <2>3. Promise!Move({o}, "done")
    <3>1. \A x \in Ops : Phase(op'[x]) = IF x \in {o} THEN "done" ELSE Phase(op[x])
      BY <2>1, <2>2
    <3> QED
      BY <3>1, Moves
  <2>4. Promise!Finish(o)
    BY <1>3, <1>4, <1>d, <2>3 DEF Promise!Finish
  <2> QED
    BY <2>4 DEF Promise!PromiseNext
<1>5. ASSUME Holds(p, o), run[p][o].pc \in {"failed", "spent"}, NEW aged \in BOOLEAN,
             op' = [op EXCEPT ![o] = Fail(op[o], Exhausted(p, o, aged), run[p][o].code)]
      PROVE  Promise!PromiseNext \/ UNCHANGED Promise!promiseVars
  <2> DEFINE f == Fail(op[o], Exhausted(p, o, aged), run[p][o].code)
  <2>1. Exhausted(p, o, aged) \in BOOLEAN /\ run[p][o].code \in Codes
    <3>1. run[p][o] \in Run
      BY DEF TypeOK
    <3> QED
      BY <3>1 DEF Exhausted, Run
  <2>2. f \in Row /\ f.status = IF Exhausted(p, o, aged) THEN "dead" ELSE "pending"
    BY <1>t, <2>1, FailFacts
  <2> HIDE DEF f
  <2>3. \A x \in Ops : op'[x] = IF x \in {o} THEN f ELSE op[x]
    BY <1>5, <1>t DEF f
  <2>4. CASE ~Exhausted(p, o, aged)
    <3>1. Phase(f) = Phase(op[o])
      BY <1>3, <1>5, <2>2, <2>4, PhaseFacts DEF Open
    <3> QED
      BY <1>d, <2>3, <3>1, Invisible
  <2>5. CASE Exhausted(p, o, aged)
    <3>1. Phase(f) = "parked"
      BY <2>2, <2>5, PhaseFacts
    <3>2. \A x \in Ops : Phase(op'[x]) = IF x \in {o} THEN "parked" ELSE Phase(op[x])
      BY <2>3, <3>1
    <3>3. Promise!Move({o}, "parked")
      BY <3>2, Moves
    <3>4. Promise!Park({o})
      BY <1>3, <1>5, <1>d, <3>3 DEF Promise!Park
    <3> QED
      BY <3>4 DEF Promise!PromiseNext
  <2> QED
    BY <2>4, <2>5
<1> QED
  BY Zenon, <1>1, <1>2, <1>4, <1>5

\* An operator closes a parked row, or repeats a closure.
LEMMA DischargeStep ==
  ASSUME TypeOK, NEW o \in Ops, NEW reap \in BOOLEAN, DischargeDeadLetter(o, reap)
  PROVE  Promise!PromiseNext \/ UNCHANGED Promise!promiseVars
<1>t. op \in [Ops -> Row] /\ op[o] \in Row
  BY DEF TypeOK
<1>1. /\ op' = [op EXCEPT ![o] = [op[o] EXCEPT !.status = "discharged"]] /\ dep' = dep
      /\ op[o].status \in {"dead", "discharged"}
  BY <1>t DEF DischargeDeadLetter, Dischargeable
<1> DEFINE f == [op[o] EXCEPT !.status = "discharged"]
<1>2. f \in Row /\ Phase(f) = "closed"
  BY <1>t, DischargedFacts, PhaseFacts, Zenon
<1>3. \A x \in Ops : op'[x] = IF x \in {o} THEN f ELSE op[x]
  BY <1>1, <1>t
<1> HIDE DEF f
<1>4. CASE op[o].status = "discharged"
  <2>1. Phase(op[o]) = "closed"
    BY <1>4, <1>t, PhaseFacts
  <2> QED
    BY <1>1, <1>2, <1>3, <2>1, Invisible
<1>5. CASE op[o].status = "dead"
  <2>1. Phase(op[o]) = "parked"
    BY <1>5, <1>t, PhaseFacts
  <2>2. \A x \in Ops : Phase(op'[x]) = IF x \in {o} THEN "closed" ELSE Phase(op[x])
    BY <1>2, <1>3
  <2>3. Promise!Move({o}, "closed")
    BY <2>2, Moves
  <2>4. Promise!Close(o)
    BY <1>1, <2>1, <2>3 DEF Promise!Close
  <2> QED
    BY <2>4 DEF Promise!PromiseNext
<1> QED
  BY <1>1, <1>4, <1>5

\* A resumed cleanup takes the place of the parked one. Its successors are all
\* pending: none of them was claimed while the row they need was dead.
LEMMA SupersedeStep ==
  ASSUME TypeOK, Shape, DependenciesHonoured, NEW o \in Ops, NEW b \in BOOLEAN,
         ResumeCleanup(o, b)
  PROVE  Promise!PromiseNext
<1> DEFINE n == created + 1
           f == [op[o] EXCEPT !.status = "discharged"]
           r == NewRow("deregister", op[o].res)
<1>t. op \in [Ops -> Row] /\ op[o] \in Row /\ dep \in [Ops -> SUBSET Ops]
  BY DEF TypeOK
<1>n. n \in Ops /\ op[n].status = "absent" /\ op[o].status = "dead" /\ o # n
      /\ op[o].res \in Insts
  BY OutboxAssumption DEF ResumeCleanup, TypeOK, Ops, Shape
<1>1. /\ op' = [op EXCEPT ![o] = f, ![n] = r]
      /\ dep' = [x \in Ops |-> IF op[x].status = "pending" /\ o \in dep[x]
                               THEN (dep[x] \ {o}) \cup {n} ELSE dep[x]]
  BY <1>t, <1>n DEF ResumeCleanup
<1>2. Phase(f) = "closed" /\ Phase(r) = "open"
  <2>1. f \in Row /\ f.status = "discharged"
    BY <1>t, DischargedFacts, Zenon
  <2>2. r \in Row /\ r.status = "pending"
    BY <1>n, NewRowFacts DEF Kinds
  <2> HIDE DEF f, r
  <2> QED
    BY <2>1, <2>2, PhaseFacts DEF Open
<1>3. Phase(op[o]) = "parked" /\ Phase(op[n]) = "absent"
  BY <1>t, <1>n, PhaseFacts
<1> HIDE DEF n, f, r
<1>4. [x \in Ops |-> Phase(op'[x])]
        = [[x \in Ops |-> Phase(op[x])] EXCEPT ![o] = "closed", ![n] = "open"]
  <2>1. \A x \in Ops : op'[x] = IF x = n THEN r ELSE IF x = o THEN f ELSE op[x]
    BY <1>1, <1>n, <1>t
  <2> QED
    BY <1>2, <1>n, <2>1, Zenon
<1>5. \A x \in Ops : op[x].status = "pending" /\ o \in dep[x]
                      <=> [y \in Ops |-> Phase(op[y])][x] = "open" /\ o \in dep[x]
  <2> SUFFICES ASSUME NEW x \in Ops, o \in dep[x]
               PROVE  op[x].status = "pending" <=> Phase(op[x]) = "open"
    OBVIOUS
  <2>1. op[x].status # "claimed"
    BY <1>n DEF DependenciesHonoured
  <2>2. op[x] \in Row
    BY <1>t
  <2> QED
    BY <2>1, <2>2, PhaseFacts DEF Open
<1>6. dep' = [x \in Ops |-> IF [y \in Ops |-> Phase(op[y])][x] = "open" /\ o \in dep[x]
                            THEN (dep[x] \ {o}) \cup {n} ELSE dep[x]]
  BY <1>1, <1>5
<1>7. Promise!Supersede(o, n)
  BY <1>3, <1>4, <1>6, <1>n DEF Promise!Supersede
<1> QED
  BY <1>7, <1>n DEF Promise!PromiseNext

\* Every step of the outbox is a step of the promise, or the promise does not see it.
LEMMA PromiseStep ==
  ASSUME TypeOK, TypeOK', Shape, Wired, DependenciesHonoured, Next
  PROVE  Promise!PromiseNext \/ UNCHANGED Promise!promiseVars
<1>t. op \in [Ops -> Row]
  BY DEF TypeOK
<1>1. ASSUME NEW p \in Procs, Crash(p) PROVE UNCHANGED Promise!promiseVars
  BY <1>1, Invisible DEF Crash
<1>2. ASSUME NEW p \in Procs, Start(p) PROVE UNCHANGED Promise!promiseVars
  <2>1. ASSUME NEW x \in Ops PROVE Phase(op'[x]) = Phase(op[x])
    <3>1. op'[x] = IF op[x].status = "claimed" /\ op[x].lapsed
                   THEN Requeue(op[x]) ELSE op[x]
      BY <1>2 DEF Start
    <3>2. op[x] \in Row /\ Requeue(op[x]) \in Row /\ Requeue(op[x]).status = "pending"
      BY <1>t, RequeueFacts
    <3> QED
      BY <3>1, <3>2, SamePhase DEF Open
  <2> QED
    BY <1>2, <2>1, Invisible DEF Start
<1>3. ASSUME NEW o \in Ops, LeaseLapses(o) \/ BackoffEnds(o)
      PROVE  UNCHANGED Promise!promiseVars
  <2>1. ASSUME NEW x \in Ops PROVE Phase(op'[x]) = Phase(op[x])
    <3>1. \/ op'[x] = op[x] \/ op'[x] = [op[x] EXCEPT !.lapsed = TRUE]
          \/ op'[x] = [op[x] EXCEPT !.due = TRUE]
      BY <1>3, <1>t, Zenon DEF LeaseLapses, BackoffEnds
    <3>2. op[x] \in Row /\ op'[x] \in Row
      BY <1>t DEF TypeOK
    <3>3. /\ [op[x] EXCEPT !.lapsed = TRUE].status = op[x].status
          /\ [op[x] EXCEPT !.due = TRUE].status = op[x].status
      BY <3>2 DEF Row
    <3>4. op'[x].status = op[x].status
      BY <3>1, <3>3, Zenon
    <3> QED
      BY <3>2, <3>4, SamePhase
  <2> QED
    BY <1>3, <2>1, Invisible DEF LeaseLapses, BackoffEnds
<1> QED
  BY Zenon, <1>1, <1>2, <1>3, SubmitStep, ParkStep, SettleStep, DischargeStep, SupersedeStep
     DEF Next

\* A row that does not exist depends on nothing: its dependencies are written with it.
LEMMA WiredStep ==
  ASSUME TypeOK, Shape, Wired, [Next]_vars
  PROVE  Wired'
<1> SUFFICES ASSUME NEW x \in Ops, op'[x].status = "absent" PROVE dep'[x] = {}
  BY DEF Wired
<1>1. op[x].status = "absent" /\ x > created' /\ x > created
  <2>1. KeptRow(x)
    BY RowStep
  <2>2. op[x].status = "absent"
    BY <2>1 DEF KeptRow
  <2> QED
    BY <2>2, InsertStep DEF Shape
<1>2. dep[x] = {}
  BY <1>1 DEF Wired
<1>3. dep'[x] = dep[x]
  <2>1. CASE dep' = dep
    BY <2>1
  <2>2. ASSUME NEW i \in Insts, NEW j \in Insts, PlanHandoff(i, j)
        PROVE  dep'[x] = dep[x]
    BY <2>2, <1>1 DEF PlanHandoff, TypeOK
  <2>4. ASSUME NEW i \in Insts, EventDrain(i)
        PROVE  dep'[x] = dep[x]
    BY <2>4, <1>1 DEF EventDrain, TypeOK
  <2>3. ASSUME NEW o \in Ops, NEW b \in BOOLEAN, ResumeCleanup(o, b)
        PROVE  dep'[x] = dep[x]
    BY <2>3, <1>1 DEF ResumeCleanup
  <2> QED
    <3>1. ASSUME NEW p \in Procs, NEW o \in Ops, Work(p, o) PROVE dep' = dep
      BY Zenon, <3>1 DEF Work, RenewalLost, Advance, Abort, ReturnOk, ReturnError, Complete, Retry
    <3>2. CASE Enqueue
      BY Zenon, <2>1, <2>2, <2>4, <3>2 DEF Enqueue, PlanSpawn, PlanDrain, JobEvent
    <3> QED
      BY Zenon, <2>1, <2>3, <3>1, <3>2
         DEF Next, Claim, Crash, Start, LeaseLapses, BackoffEnds, DischargeDeadLetter, vars
<1> QED
  BY <1>2, <1>3

=============================================================================
