------------------------------ MODULE Lifecycle ------------------------------
(***************************************************************************)
(* One runner instance from its plan to its deletion: the provision and    *)
(* drain executors of internal/lifecycle, the demand projection that moves *)
(* the same row from GitHub's messages, the recovery drains the scheduler  *)
(* plans, and the world they act on: the guest, its GitHub registration    *)
(* and the jobs GitHub hands out.                                          *)
(*                                                                         *)
(* Brokering is decoupled from spawning: the instance is spawned for one   *)
(* demand and GitHub may hand its runner another one. What the daemon      *)
(* knows about jobs is the durable demand record, which lags the truth.    *)
(*                                                                         *)
(* At most one executor acts on the instance at a time (module Outbox,     *)
(* DrainRunsAlone). The executor works on the row it loaded; `fresh` says  *)
(* that no other transaction has touched the row since, which is what its  *)
(* compare-and-set on (state, version) tests. A rebinding or a swap of the *)
(* demand leaves the version alone, as in the code.                        *)
(*                                                                         *)
(* The six-hour ceiling on a drain's retries belongs to module Outbox. A   *)
(* drain here retries for as long as it takes and parks only from the stop *)
(* ladder, so no liveness property is met by giving up.                    *)
(***************************************************************************)
EXTENDS Naturals, FiniteSets

CONSTANTS Jobs,       \* demands of the instance's scale set
          Spawned,    \* the demand the instance was planned for
          NoJob,
          Siblings,   \* demands a second live instance may have been spawned for
          Rung,       \* attempts on each rung of the stop ladder
          Glitch,     \* may a plan rest on an observation that was wrong or is stale?
          Lossy,      \* may a projection fail after its batch was committed?
          MaxFaults   \* bound on failures of the world and of the processes

ASSUME LifecycleAssumption == /\ Spawned \in Jobs /\ NoJob \notin Jobs
                              /\ Siblings \subseteq Jobs \ {Spawned}
                              /\ Rung \in Nat \ {0} /\ MaxFaults \in Nat
                              /\ Glitch \in BOOLEAN /\ Lossy \in BOOLEAN

VARIABLES inst,     \* the durable row: [state, phase, demand]
          rec,      \* [Jobs -> [status, runner]], the durable demand records
          proj,     \* the demand whose committed event is being projected
          sibling,  \* the demand another live instance is bound to, or NoJob
          exec,     \* the executor at work on the instance
          stops,    \* StopAttempts of the open drain operation
          parked,   \* the drain operation is a dead letter
          guest,    \* [vm, hung, agent, spent]: the virtual machine and its runner
          reg,      \* GitHub has a runner record under the instance's name
          job,      \* [Jobs -> what GitHub knows of the job]
          faults

row == <<inst, exec>>
world == <<guest, reg, job>>
vars == <<inst, rec, proj, sibling, exec, stops, parked, guest, reg, job, faults>>

Provisioning == {"cloning", "booting", "reachable"}
TearingDown == {"draining", "deregistering", "stopping"}
States == {"planned", "registering", "online_idle", "assigned", "running", "deleted"}
          \cup Provisioning \cup TearingDown
Recoveries == {"stopped", "inactive", "stalled", "lingering", "occupancy",
               "guest", "provision"}
Phases == {"none", "event"} \cup Recoveries
Available == 1
Assigned == 2
Started == 3
Completed == 4
Ended == {"ran", "gone"}       \* finished on this runner, or without it

NoExec == [kind |-> "none", pc |-> "act", state |-> "planned",
           demand |-> NoJob, fresh |-> TRUE]

(* The row's next lifecycle edge under each executor. *)
ProvisionEdge(s) == CASE s = "planned" -> "cloning" [] s = "cloning" -> "booting"
                      [] s = "booting" -> "reachable" [] s = "reachable" -> "registering"
                      [] s \in {"registering", "online_idle"} -> "assigned"
DrainEdgeEarly(s) == IF s = "draining" THEN "deregistering" ELSE "deleted"  \* mutant
DrainEdge(s) == CASE s = "draining" -> "deregistering" [] s = "deregistering" -> "stopping"
                  [] s = "stopping" -> "deleted"
NextState(s) == IF s \in TearingDown THEN DrainEdge(s) ELSE ProvisionEdge(s)

Init == /\ inst = [state |-> "planned", phase |-> "none", demand |-> Spawned]
        /\ rec = [j \in Jobs |-> [status |-> Available, runner |-> "none"]]
        /\ proj = NoJob
        /\ sibling \in Siblings \cup {NoJob}
        /\ exec = NoExec
        /\ stops = 0 /\ parked = FALSE
        /\ guest = [vm |-> "absent", hung |-> FALSE, agent |-> FALSE, spent |-> FALSE]
        /\ reg = FALSE
        /\ job = [j \in Jobs |-> "queued"]
        /\ faults = 0

Fault == faults < MaxFaults /\ faults' = faults + 1

----------------------------------------------------------------------------
(* The world. A just-in-time runner executes one job and removes its own   *)
(* registration when it ends. GitHub gives up on a job whose machine is    *)
(* gone.                                                                   *)

Serving(j) == job[j] = "here"
Alive == guest.vm = "on" /\ ~guest.hung
Quiet == UNCHANGED <<inst, rec, proj, sibling, exec, stops, parked>>

StartHere(j) == /\ job[j] = "queued" /\ reg /\ guest.agent /\ ~guest.spent /\ Alive
                /\ job' = [job EXCEPT ![j] = "here"]
                /\ guest' = [guest EXCEPT !.spent = TRUE]
                /\ UNCHANGED <<reg, faults>> /\ Quiet

StartElsewhere(j) == /\ job[j] = "queued"
                     /\ job' = [job EXCEPT ![j] = "elsewhere"]
                     /\ UNCHANGED <<guest, reg, faults>> /\ Quiet

FinishHere(j) == /\ Serving(j) /\ Alive
                 /\ job' = [job EXCEPT ![j] = "ran"]
                 /\ reg' = FALSE
                 /\ guest' = [guest EXCEPT !.agent = FALSE]
                 /\ UNCHANGED faults /\ Quiet

(* A job ends without this runner: it finished elsewhere, or its owner     *)
(* cancelled it while it was queued.                                       *)
EndElsewhere(j) == /\ job[j] \in {"queued", "elsewhere"}
                   /\ job' = [job EXCEPT ![j] = "gone"]
                   /\ UNCHANGED <<guest, reg, faults>> /\ Quiet

CommunicationLost(j) == /\ Serving(j) /\ ~Alive
                        /\ job' = [job EXCEPT ![j] = "ran"]
                        /\ UNCHANGED <<guest, reg, faults>> /\ Quiet

(* A Tart guest powers itself off once its runner has exited. *)
PowerOff == /\ guest.vm = "on" /\ guest.spent /\ ~guest.agent
            /\ guest' = [guest EXCEPT !.vm = "off", !.hung = FALSE]
            /\ UNCHANGED <<reg, job, faults>> /\ Quiet

Hang == /\ Alive /\ Fault
        /\ guest' = [guest EXCEPT !.hung = TRUE]
        /\ UNCHANGED <<reg, job>> /\ Quiet

GuestDies == /\ guest.vm = "on" /\ Fault
             /\ guest' = [guest EXCEPT !.vm = "off", !.hung = FALSE, !.agent = FALSE]
             /\ UNCHANGED <<reg, job>> /\ Quiet

World == \/ \E j \in Jobs : \/ StartHere(j) \/ StartElsewhere(j) \/ FinishHere(j)
                            \/ EndElsewhere(j) \/ CommunicationLost(j)
         \/ PowerOff \/ Hang \/ GuestDies

----------------------------------------------------------------------------
(* Evidence. ApplyDemandBatch commits what a message says about a job; the *)
(* projection onto the instance row runs after that commit. GitHub may     *)
(* leave the runner of a start unnamed, not that of a job that ended on it.*)

Reports(j) ==
  LET say(status, runners) == [status : {status}, runner : runners]
  IN CASE job[j] = "queued" -> say(Assigned, {"none"})
       [] job[j] = "here" -> say(Started, {"me", "none"})
       [] job[j] = "elsewhere" -> say(Started, {"other", "none"})
       [] job[j] = "ran" -> say(Completed, {"me"})
       [] job[j] = "gone" -> say(Completed, {"other", "none"})

mergeDemandEvent(old, event) ==
  [status |-> IF event.status >= old.status THEN event.status ELSE old.status,
   runner |-> IF event.runner = "none" THEN old.runner ELSE event.runner]

Ingest(j) == /\ proj = NoJob
             /\ \E event \in Reports(j) :
                  /\ event.status > rec[j].status
                  /\ rec' = [rec EXCEPT ![j] = mergeDemandEvent(rec[j], event)]
             /\ proj' = j
             /\ UNCHANGED <<inst, sibling, exec, stops, parked, world, faults>>

JobCompleted == rec[inst.demand].status = Completed
JobActive == rec[inst.demand].status = Started
StartUnattributed == JobActive /\ rec[inst.demand].runner = "none"
RunnerBusyRanked == \E j \in Jobs : rec[j].runner = "me" /\ rec[j].status >= Started  \* mutant
RunnerBusy == \E j \in Jobs : rec[j] = [status |-> Started, runner |-> "me"]

(* A transaction of someone other than the executor moves the row. *)
MoveRow(s) == /\ inst' = [inst EXCEPT !.state = s]
              /\ exec' = [exec EXCEPT !.fresh = exec.kind = "none"]

EnterDrain(phase) == /\ inst' = [inst EXCEPT !.state = "draining", !.phase = phase]
                     /\ exec' = [exec EXCEPT !.fresh = exec.kind = "none"]
                     /\ stops' = 0

Rest == UNCHANGED <<rec, sibling, parked, world, faults>>
EndProjection == proj' = NoJob

rebindableRunnerState(s) == s \in {"reachable", "registering", "online_idle",
                                   "assigned", "running"}

(* The released demand started or completed on this very runner. *)
ReleasedRanHere == /\ rec[inst.demand].runner = "me"
                   /\ rec[inst.demand].status \in {Started, Completed}

(* What the projected record is about: this instance, after the binding    *)
(* has been aligned with the runner GitHub named, or something else.       *)
NamesMe == rec[proj].runner = "me"
Unnamed == rec[proj].runner = "none" /\ sibling # proj
OnTarget == (NamesMe \/ Unnamed) /\ inst.demand = proj /\ sibling # proj

Swappable == /\ inst.state # "deleted" /\ sibling # NoJob
             /\ \/ NamesMe /\ sibling = proj /\ inst.demand # proj
                \/ rec[proj].runner = "other" /\ inst.demand = proj /\ sibling # proj

Rebindable == /\ NamesMe /\ inst.demand # proj /\ sibling # proj
              /\ rebindableRunnerState(inst.state) /\ ~ReleasedRanHere

AlignSwap == /\ Swappable
             /\ inst' = [inst EXCEPT !.demand = sibling]
             /\ sibling' = inst.demand
             /\ UNCHANGED <<exec, stops, proj, rec, parked, world, faults>>

AlignRebind == /\ Rebindable
               /\ inst' = [inst EXCEPT !.demand = proj]
               /\ UNCHANGED <<exec, stops, proj>> /\ Rest

ProjectAdvance ==
  LET status == rec[proj].status
  IN /\ OnTarget
     /\ \/ inst.state = "registering" /\ MoveRow("online_idle") /\ UNCHANGED proj
        \/ /\ inst.state = "online_idle" /\ status \in {Assigned, Started}
           /\ MoveRow("assigned")
           /\ proj' = IF status = Assigned THEN NoJob ELSE proj
        \/ /\ inst.state = "assigned" /\ status = Started
           /\ MoveRow("running") /\ EndProjection
     /\ UNCHANGED stops /\ Rest

ProjectDrain == /\ OnTarget /\ rec[proj].status = Completed
                /\ inst.state \notin TearingDown \cup {"registering", "deleted"}
                /\ EnterDrain("event") /\ EndProjection /\ Rest

(* Nothing (more) to do for this record, or an error that ends the message: *)
(* the replacement session opens past it, so it is never projected again.   *)
ProjectEnds == /\ ~Swappable /\ ~Rebindable
               /\ \/ ~OnTarget
                  \/ inst.state \in TearingDown \cup {"deleted"}
                  \/ /\ OnTarget /\ rec[proj].status # Completed
                     /\ inst.state \in {"planned", "running"} \cup Provisioning
                  \/ /\ OnTarget /\ rec[proj].status = Assigned
                     /\ inst.state = "assigned"
               /\ EndProjection /\ UNCHANGED <<inst, exec, stops>> /\ Rest

ProjectionLost == /\ Lossy /\ Fault /\ EndProjection
                  /\ UNCHANGED <<inst, exec, stops, rec, sibling, parked, world>>

Project == /\ proj # NoJob
           /\ \/ AlignSwap \/ AlignRebind \/ ProjectAdvance \/ ProjectDrain
              \/ ProjectEnds \/ ProjectionLost

(* Every tick re-derives the drain of a runner whose own job completed. *)
DrainCompletedRunners ==
  /\ inst.state \in {"online_idle", "assigned", "running"}
  /\ \E j \in Jobs : rec[j] = [status |-> Completed, runner |-> "me"]
  /\ ~RunnerBusy
  /\ EnterDrain("event") /\ UNCHANGED proj /\ Rest

----------------------------------------------------------------------------
(* Recovery drains. The scheduler plans them from one inventory            *)
(* observation; with Glitch the observation may be wrong or out of date,   *)
(* and only the state check of the plan's transaction remains.             *)

derivesInactivityFromRunnerAbsence(phase) ==
  phase \in {"stopped", "stalled", "lingering", "occupancy", "guest", "provision"}

ConfirmDeletion == ~reg /\ (derivesInactivityFromRunnerAbsence(inst.phase) \/ JobCompleted)

Observed(phase) ==
  LET on == guest.vm = "on"
  IN CASE phase = "stopped" -> guest.vm = "off"
       [] phase = "inactive" -> on /\ ConfirmDeletion
       [] phase = "stalled" -> on /\ ~ConfirmDeletion /\ inst.state = "assigned"
       [] phase = "lingering" -> /\ on /\ ~ConfirmDeletion
                                 /\ inst.state = "running" /\ ~JobActive
       [] phase = "occupancy" -> on
       [] phase = "guest" -> on /\ guest.hung /\ inst.state = "running"
       [] phase = "provision" -> TRUE

PlanDrain(phase) == /\ inst.state \in (IF phase = "provision" THEN Provisioning
                                       ELSE {"assigned", "running"})
                    /\ Glitch \/ Observed(phase)
                    /\ EnterDrain(phase) /\ UNCHANGED proj /\ Rest

----------------------------------------------------------------------------
(* Executor steps. An effect on the world and the compare-and-set that     *)
(* records it are separate steps; anything may happen between them.        *)

Provisions == exec.kind = "provision"
Drains == exec.kind = "drain"
At(pc, s) == exec.pc = pc /\ exec.state = s
Goto(pc) == exec' = [exec EXCEPT !.pc = pc]
Stay == UNCHANGED <<inst, rec, proj, sibling, parked, faults>>
Load(kind) == exec' = [kind |-> kind, pc |-> "act", state |-> inst.state,
                       demand |-> inst.demand, fresh |-> TRUE]
Leave == exec' = NoExec

(* The attempt ends in an error: a stage failure clears the stop counter,  *)
(* which lives in last_error.                                              *)
Fails == Leave /\ stops' = 0

BeginProvision == /\ exec.kind = "none"
                  /\ inst.state \in {"planned", "registering", "online_idle"} \cup Provisioning
                  /\ Load("provision") /\ Stay /\ UNCHANGED <<stops, world>>

Create == /\ Provisions /\ At("act", "planned") /\ Goto("cas")
          /\ guest' = IF guest.vm = "absent" THEN [guest EXCEPT !.vm = "off"] ELSE guest
          /\ Stay /\ UNCHANGED <<stops, reg, job>>

StartVM == /\ Provisions /\ At("act", "cloning") /\ guest.vm # "absent" /\ Goto("cas")
           /\ guest' = [guest EXCEPT !.vm = "on"]
           /\ Stay /\ UNCHANGED <<stops, reg, job>>

Ready == /\ Provisions /\ At("act", "booting") /\ Alive /\ Goto("cas")
         /\ Stay /\ UNCHANGED <<stops, world>>

(* Deregister at GitHub: refused while a job executes on the runner. *)
BusyRefusal == reg /\ \E j \in Jobs : Serving(j)

ResetRegistration == /\ Provisions /\ At("act", "reachable") /\ ~BusyRefusal
                     /\ Goto("jit") /\ reg' = FALSE
                     /\ Stay /\ UNCHANGED <<stops, guest, job>>

AcquireAndGenerateJIT == /\ Provisions /\ At("jit", "reachable")
                         /\ exec.demand = inst.demand /\ job[exec.demand] = "queued"
                         /\ Goto("bootstrap") /\ reg' = TRUE
                         /\ guest' = [guest EXCEPT !.agent = FALSE, !.spent = FALSE]
                         /\ Stay /\ UNCHANGED <<stops, job>>

Bootstrap == /\ Provisions /\ At("bootstrap", "reachable") /\ Alive /\ Goto("cas")
             /\ guest' = [guest EXCEPT !.agent = TRUE]
             /\ Stay /\ UNCHANGED <<stops, reg, job>>

(* A failed bootstrap may have started the runner all the same; it tries   *)
(* once to take back the registration it made.                             *)
BootstrapFails == /\ Provisions /\ At("bootstrap", "reachable")
                  /\ \/ ~Alive /\ UNCHANGED <<faults, guest>>
                     \/ Fault /\ guest' \in {guest, [guest EXCEPT !.agent = Alive]}
                  /\ reg' \in {reg, FALSE}
                  /\ Leave
                  /\ UNCHANGED <<inst, rec, proj, sibling, parked, stops, job>>

WaitRegistered == /\ Provisions /\ At("act", "registering") /\ reg /\ Goto("cas")
                  /\ Stay /\ UNCHANGED <<stops, world>>

RepairIdle == /\ Provisions /\ At("act", "online_idle") /\ Goto("cas")
              /\ Stay /\ UNCHANGED <<stops, world>>

(* The stage cannot be completed in this state of the world. *)
ProvisionBlocked ==
  /\ Provisions
  /\ \/ At("act", "cloning") /\ guest.vm = "absent"
     \/ At("act", "booting") /\ ~Alive
     \/ At("act", "reachable") /\ BusyRefusal
     \/ At("jit", "reachable") /\ (exec.demand # inst.demand \/ job[exec.demand] # "queued")
     \/ At("act", "registering") /\ ~reg
  /\ Leave /\ Stay /\ UNCHANGED <<stops, world>>

(* Advance: the compare-and-set of the edge the effect justified. *)
AdvanceUnfenced == exec.pc = "cas"                     \* mutant
AdvanceFenced == exec.pc = "cas" /\ exec.fresh

Advance == /\ AdvanceFenced
           /\ inst' = [inst EXCEPT !.state = NextState(exec.state)]
           /\ exec' = IF NextState(exec.state) \in {"assigned", "deleted"} THEN NoExec
                      ELSE [exec EXCEPT !.state = NextState(exec.state), !.pc = "act"]
           /\ UNCHANGED <<rec, proj, sibling, parked, faults, stops, world>>

AdvanceConflicts == /\ exec.pc = "cas" /\ ~exec.fresh
                    /\ Fails /\ Stay /\ UNCHANGED world

(* Any executor may fail on a transient error of a stage (clearing the     *)
(* stop counter) or die with its process or its lease (leaving it).        *)
ExecutorFails == /\ exec.kind # "none" /\ Fault
                 /\ Leave /\ stops' \in {0, stops}
                 /\ UNCHANGED <<inst, rec, proj, sibling, parked, world>>

BeginDrain == /\ exec.kind = "none" /\ inst.state \in TearingDown /\ ~parked
              /\ Load("drain") /\ Stay /\ UNCHANGED <<stops, world>>

stopsItsGuestFirstToo(phase) == phase \in {"occupancy", "guest", "lingering"}  \* mutant
stopsItsGuestFirst(phase) == phase \in {"occupancy", "guest"}

abortsOnBusyRefusal(phase) == ~stopsItsGuestFirst(phase) /\ phase # "provision"

FirstStepSkips(phase) == IF phase = "provision" THEN "cas" ELSE "dereg"  \* mutant
FirstStep(phase) == IF stopsItsGuestFirst(phase) THEN "stop" ELSE "dereg"

(* The premise of the drain, re-verified on every attempt. *)
Disproven(phase) ==
  CASE phase = "stopped" -> guest.vm = "on"
    [] phase = "inactive" -> reg
    [] phase \in {"stalled", "lingering", "event"} -> RunnerBusy
    [] phase = "guest" -> Alive
    [] OTHER -> FALSE

Premise(phase) ==
  CASE phase = "stopped" -> guest.vm # "on"
    [] phase = "inactive" -> ~reg /\ JobCompleted
    [] phase \in {"stalled", "lingering"} -> ~RunnerBusy /\ ~StartUnattributed
    [] phase = "guest" -> ~Alive
    [] phase = "provision" -> ~RunnerBusy
    [] phase = "occupancy" -> TRUE
    [] OTHER -> ~RunnerBusy /\ JobCompleted

Abort == /\ inst' = [inst EXCEPT !.state = "running"] /\ Leave
         /\ UNCHANGED <<rec, proj, sibling, parked, stops, faults, world>>

DrainGuard ==
  /\ Drains /\ At("act", "draining")
  /\ \/ Disproven(inst.phase) /\ Abort
     \/ /\ Premise(inst.phase)
        /\ Goto(FirstStep(inst.phase))
        /\ Stay /\ UNCHANGED <<stops, world>>
     \/ /\ ~Disproven(inst.phase) /\ ~Premise(inst.phase)
        /\ Fails /\ Stay /\ UNCHANGED world

Deregister ==
  /\ Drains /\ At("dereg", "draining")
  /\ \/ /\ ~BusyRefusal /\ reg' = FALSE /\ Goto("confirm")
        /\ Stay /\ UNCHANGED <<stops, guest, job>>
     \/ BusyRefusal /\ abortsOnBusyRefusal(inst.phase) /\ RunnerBusy /\ Abort
     \/ /\ BusyRefusal /\ ~(abortsOnBusyRefusal(inst.phase) /\ RunnerBusy)
        /\ Fails /\ Stay /\ UNCHANGED world

(* waitConfirmed, before leaving draining and again before deletion. *)
WaitConfirmed ==
  /\ Drains /\ (At("confirm", "draining") \/ At("act", "stopping"))
  /\ \/ /\ ConfirmDeletion
        /\ Goto(IF exec.state = "draining" THEN "cas" ELSE "delete")
        /\ UNCHANGED stops
     \/ ~ConfirmDeletion /\ Fails
  /\ Stay /\ UNCHANGED world

Off(vm) == [guest EXCEPT !.vm = vm, !.hung = FALSE, !.agent = FALSE]

StopEscalation == CASE stops < Rung -> "graceful" [] stops < 2 * Rung -> "forced"
                    [] stops < 3 * Rung -> "destructive" [] OTHER -> "exhausted"

(* Failed stops are counted in the row's error text, across retries. *)
StopAttemptsLost == 0                                  \* mutant
StopAttempts == stops + 1

(* One rung of the ladder. Terminating a guest needs nothing of it; a      *)
(* graceful stop needs its cooperation; a destructive one deletes it too,  *)
(* on the evidence every deletion requires.                                *)
StopGuest ==
  LET stopped == /\ Goto(IF exec.state = "draining" THEN "dereg" ELSE "cas")
                 /\ UNCHANGED <<stops, faults, parked>>
      refused == /\ Leave /\ stops' = StopAttempts /\ UNCHANGED <<faults, parked>>
      rung == StopEscalation
  IN /\ Drains /\ (At("stop", "draining") \/ At("act", "deregistering"))
     /\ \/ /\ rung # "exhausted" /\ guest.vm = "absent"
           /\ stopped /\ UNCHANGED guest
        \/ /\ guest.vm # "absent"
           /\ rung = "forced" \/ (rung = "graceful" /\ ~guest.hung)
           /\ stopped /\ guest' = Off("off")
        \/ rung = "graceful" /\ guest.hung /\ refused /\ UNCHANGED guest
        \/ /\ rung = "destructive" /\ guest.vm # "absent"
           /\ \/ ConfirmDeletion /\ stopped /\ guest' = Off("absent")
              \/ ~ConfirmDeletion /\ refused /\ guest' = Off("off")
        \/ /\ rung # "exhausted" /\ Fault
           /\ Leave /\ stops' = StopAttempts /\ UNCHANGED <<guest, parked>>
        \/ rung = "exhausted" /\ guest.vm # "on" /\ stopped /\ UNCHANGED guest
        \/ /\ rung = "exhausted" /\ guest.vm = "on"
           /\ parked' = TRUE /\ Leave /\ UNCHANGED <<guest, stops, faults>>
     /\ UNCHANGED <<inst, rec, proj, sibling, reg, job>>

(* Delete re-confirms, stops what is still running, and removes the VM. *)
Delete ==
  /\ Drains /\ At("delete", "stopping")
  /\ \/ /\ guest.vm = "absent" \/ ConfirmDeletion
        /\ Goto("cas") /\ guest' = Off("absent") /\ UNCHANGED stops
     \/ guest.vm # "absent" /\ ~ConfirmDeletion /\ Fails /\ UNCHANGED guest
  /\ Stay /\ UNCHANGED <<reg, job>>

Provision == \/ BeginProvision \/ Create \/ StartVM \/ Ready \/ ResetRegistration
             \/ AcquireAndGenerateJIT \/ Bootstrap \/ BootstrapFails
             \/ WaitRegistered \/ RepairIdle \/ ProvisionBlocked

Drain == \/ BeginDrain \/ DrainGuard \/ Deregister \/ WaitConfirmed
         \/ StopGuest \/ Delete

Next == \/ World \/ (\E j \in Jobs : Ingest(j)) \/ Project \/ DrainCompletedRunners
        \/ (\E phase \in Recoveries : PlanDrain(phase))
        \/ Provision \/ Drain \/ Advance \/ AdvanceConflicts \/ ExecutorFails

Spec == Init /\ [][Next]_vars

(* Fairness. Running jobs end, a demand this instance does not hold is     *)
(* served by some other runner, delivered messages are committed and       *)
(* projected, the tick runs its sweep and its deadlines, and the worker    *)
(* loop keeps claiming. Faults are never owed.                             *)
Working == (Provision \/ Drain \/ Advance \/ AdvanceConflicts) /\ UNCHANGED faults
Deadlines == {"stopped", "inactive", "stalled", "lingering", "provision"}

FairSpec == /\ Spec
            /\ \A j \in Jobs : /\ WF_vars(StartHere(j))
                               /\ WF_vars(FinishHere(j) \/ CommunicationLost(j))
                               /\ WF_vars(job[j] = "elsewhere" /\ EndElsewhere(j))
                               /\ WF_vars(j # inst.demand /\ StartElsewhere(j))
                               /\ WF_vars(Ingest(j))
            /\ WF_vars(Project /\ UNCHANGED faults)
            /\ WF_vars(DrainCompletedRunners)
            /\ WF_vars(Working)
            /\ \A phase \in Deadlines : WF_vars(PlanDrain(phase))

----------------------------------------------------------------------------
(* Every variable stays in its domain. *)
Row == [state : States, phase : Phases, demand : Jobs]
Executor == [kind : {"none", "provision", "drain"},
             pc : {"act", "jit", "bootstrap", "cas", "stop", "dereg", "confirm", "delete"},
             state : States, demand : Jobs \cup {NoJob}, fresh : BOOLEAN]
Guest == [vm : {"absent", "off", "on"}, hung : BOOLEAN, agent : BOOLEAN, spent : BOOLEAN]
Record == [status : 1 .. 4, runner : {"none", "me", "other"}]
TypeOK == /\ inst \in Row /\ rec \in [Jobs -> Record]
          /\ proj \in Jobs \cup {NoJob} /\ sibling \in Jobs \cup {NoJob}
          /\ exec \in Executor /\ stops \in 0 .. 3 * Rung /\ parked \in BOOLEAN
          /\ guest \in Guest /\ reg \in BOOLEAN
          /\ job \in [Jobs -> {"queued", "here", "elsewhere"} \cup Ended]
          /\ faults \in 0 .. MaxFaults

(* Past draining no job is executing on the runner and GitHub has no       *)
(* record it could hand one to, whatever observation planned the drain     *)
(* (DrainExecutor.Execute: the deregistering arm, "the work this guest was *)
(* spawned for is provably over").                                         *)
TornDownIsIdle == inst.state \in {"deregistering", "stopping", "deleted"} =>
                    ~reg /\ \A j \in Jobs : ~Serving(j)

(* A deleted row leaves nothing behind: no machine holding the host's      *)
(* resources and no runner record.                                         *)
DeletedIsClean == inst.state = "deleted" => guest.vm = "absent" /\ ~reg

(* A drain never powers off or removes a live guest that is executing a    *)
(* job, unless the drain is one of the two reclaims that act on the job    *)
(* itself: the occupancy budget and the dead guest (stopsItsGuestFirst).   *)
NoJobCut == [][(\E j \in Jobs : Serving(j)) /\ Alive /\ guest'.vm # "on" /\ exec' # exec
               => inst.phase \in {"occupancy", "guest"}]_vars

(* A teardown is one-way: nothing but an abort by its own drain takes the  *)
(* row back, and then only to running. In particular an executor that      *)
(* loaded the row before the drain was committed cannot revive it          *)
(* (Store.Advance compares state and version).                             *)
TeardownIsOneWay ==
  [][/\ inst.state \in TearingDown => inst'.state \in TearingDown \cup {"running", "deleted"}
     /\ inst.state = "deleted" => inst'.state = "deleted"]_vars

(* A runner whose own demand is durably completed is deleted in the end,   *)
(* unless its guest survived every rung of the stop ladder and its drain   *)
(* is a dead letter.                                                       *)
OwnJobReclaimed ==
  \A j \in Jobs : inst.demand = j /\ rec[j].status = Completed
                    ~> inst.state = "deleted" \/ parked

(* A drain that has left draining ends: a guest that will not power down   *)
(* is asked harder until it is gone, or every rung has failed and the      *)
(* operation is parked for an operator (ADR 0039, StopEscalation).         *)
DecidedDrainEnds == inst.state = "deregistering" ~> inst.state = "deleted" \/ parked

(* An event drain enqueued for a runner whose completion is durable ends   *)
(* in its deletion, whichever demand it was spawned for: what the sweep    *)
(* DrainCompletedRunners says it restores. The code does not keep this:    *)
(* the sweep enqueues the drain without aligning the binding first, and    *)
(* the drain's guard waits for the demand this very instance holds, until  *)
(* the retry ceiling parks it.                                             *)
CompletedRunnerReclaimed ==
  \A j \in Jobs : (inst.state = "draining" /\ inst.phase = "event"
                    /\ rec[j] = [status |-> Completed, runner |-> "me"])
                   ~> inst.state = "deleted"

(* A drain planned on a confirmed inactive runner deletes it or is aborted *)
(* by contrary evidence, as the comments on the recovery gates say. The    *)
(* code does not keep this: an abort leaves the drain phase on the row, so *)
(* the next inventory derives inactivity from the runner's absence alone,  *)
(* while the guard of the drain it plans waits for the bound demand too.   *)
InactiveDrainEnds ==
  inst.state = "draining" /\ inst.phase = "inactive" ~> inst.state \in {"deleted", "running"}
=============================================================================
