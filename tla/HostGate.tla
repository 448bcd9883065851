------------------------------ MODULE HostGate ------------------------------
(* The node's admission gate: the host probe (adapters/linux), the guardrails   *)
(* it is judged by (executor.Guardrails), the observation the scheduler plans   *)
(* on (app.hostObservation), the gate that dates and logs each edge             *)
(* (daemon.admissionGate) and the pressure the status API shows                 *)
(* (telemetry.SetHostPressure). One tick runs them in this order.               *)
EXTENDS Integers

CONSTANTS Guards,    \* executor.Guardrails: disk, inodes, memory, swap, rate, load, idle
          Capacity,  \* the configured envelope, [cpu, mem]
          Budget,    \* the operator's ceiling, [cpu, mem]; zeroes are unset
          Elastic,   \* ElasticHostEnvelope
          DefaultRate \* DefaultSwapOutPagesPerSecond

VARIABLES clock,  \* wall clock, never 0
          last,   \* Probe.last, the previous fresh snapshot
          proc,   \* Probe.lastProcessor
          host,   \* the observation of the last tick
          gate,   \* admissionGate
          shown,  \* Health.hostPressure, what the status API publishes
          line    \* history: the last gate line of this process, or NoLine
vars == <<clock, last, proc, host, gate, shown, line>>

-----------------------------------------------------------------------------
(* The probe *)

\* A ratio num/den of busy or idle time, a rate of pages over seconds.
FullyIdle == [num |-> 1, den |-> 1]
NoRate == [seen |-> FALSE, pages |-> 0, secs |-> 0]
Blank == [fresh |-> "unavailable", at |-> 0, mem |-> 0, disk |-> 0, ifree |-> 0, itotal |-> 0,
          swap |-> 0, outs |-> 0, rate |-> NoRate, idle |-> FullyIdle, load |-> 0,
          cpu |-> 0, total |-> 0]
NoSample == [idle |-> 0, total |-> 0, cpu |-> 0]

\* What one snapshot reads from /proc and df; ok names the reads that succeeded.
Reads == [ok : SUBSET {"memory", "pageouts", "disk", "inodes", "stat", "load"},
          mem : Nat, total : Nat, swap : Nat, outs : Nat, disk : Nat,
          ifree : Nat, itotal : Nat, load : Nat, idle : Nat, jiffies : Nat, cpu : Nat]

HasPrior == last.at # 0

\* An unreadable capacity fact never invents a measurement.
Degraded(now) == IF HasPrior THEN [last EXCEPT !.fresh = "stale"]
                 ELSE [Blank EXCEPT !.at = now]

\* A rate exists between two samples of one boot and an advancing clock.
PageOutRate(now, outs) ==
  IF HasPrior /\ now > last.at /\ outs >= last.outs
  THEN [seen |-> TRUE, pages |-> outs - last.outs, secs |-> now - last.at]
  ELSE NoRate

Measurable(cur, prev) == /\ prev.total > 0 /\ cur.total > prev.total
                         /\ cur.idle >= prev.idle
                         /\ cur.idle - prev.idle <= cur.total - prev.total
IdleSince(cur, prev) == [num |-> cur.idle - prev.idle, den |-> cur.total - prev.total]

\* processorPressure: the fallbacks of an advisory signal never deny admission.
Sample(r) == [idle |-> r.idle, total |-> r.jiffies, cpu |-> r.cpu]
LastIdle == IF HasPrior THEN last.idle ELSE FullyIdle
Idle(r) == IF "stat" \in r.ok /\ Measurable(Sample(r), proc) THEN IdleSince(Sample(r), proc)
           ELSE LastIdle
Processors(r) == IF "stat" \in r.ok THEN r.cpu ELSE IF HasPrior THEN last.cpu ELSE 0
Load(r) == IF "load" \in r.ok THEN r.load ELSE IF HasPrior THEN last.load ELSE 0

Capable(r) == {"memory", "pageouts", "disk", "inodes"} \subseteq r.ok
Snapshot(r, now) ==
  IF Capable(r)
  THEN [fresh |-> "fresh", at |-> now, mem |-> r.mem, disk |-> r.disk, ifree |-> r.ifree,
        itotal |-> r.itotal, swap |-> r.swap, outs |-> r.outs,
        rate |-> PageOutRate(now, r.outs), idle |-> Idle(r), load |-> Load(r),
        cpu |-> Processors(r), total |-> r.total]
  ELSE Degraded(now)

-----------------------------------------------------------------------------
(* The guardrails *)

\* The rate at or above which a host over its swap ceiling is paging out; an
\* unmeasured one fails closed.
Threshold == IF Guards.rate > 0 THEN Guards.rate ELSE DefaultRate
ActivelyPagingOut(s) == s.rate.seen => s.rate.pages >= Threshold * s.rate.secs
InodesBelowFloor(s) == /\ Guards.inodes > 0 /\ s.itotal > 0
                       /\ s.ifree * 100 < Guards.inodes * s.itotal
SwapPressure(s) == Guards.swap > 0 /\ s.swap > Guards.swap /\ ActivelyPagingOut(s)
CpuPressure(s) == /\ Guards.load > 0 /\ s.load > Guards.load
                  /\ s.idle.num * 100 < Guards.idle * s.idle.den

\* Guardrails.Evaluate on a fresh snapshot, first refusal first.
Evaluate(s) == IF s.disk < Guards.disk THEN "disk reserve"
               ELSE IF InodesBelowFloor(s) THEN "inode reserve"
               ELSE IF s.mem < Guards.memory THEN "memory reserve"
               ELSE IF SwapPressure(s) THEN "swap pressure"
               ELSE IF CpuPressure(s) THEN "cpu pressure"
               ELSE "capacity available"

-----------------------------------------------------------------------------
(* The observation *)

Most(a, b) == IF a > b THEN a ELSE b
Least(a, b) == IF a < b THEN a ELSE b

BudgetExceedsHost(s) ==
  /\ Budget # [cpu |-> 0, mem |-> 0]
  /\ \/ s.cpu > 0 /\ Budget.cpu > s.cpu
     \/ s.total > 0 /\ Budget.mem > s.total - Guards.memory

PhysicalCapacity(s) == [cpu |-> s.cpu,
                        mem |-> IF s.total > 0 THEN Most(0, s.total - Guards.memory) ELSE 0]
IdleCores(s) == (s.cpu * s.idle.num) \div s.idle.den

Nothing == [cpu |-> 0, mem |-> 0]
Unusable(how) == [fresh |-> how, allowed |-> FALSE, reason |-> "", available |-> Nothing,
                  physical |-> Nothing, snap |-> Blank]
Available(s) ==
  IF Elastic
  THEN [cpu |-> IF s.cpu > 0 THEN IdleCores(s) ELSE Capacity.cpu,
        mem |-> Most(0, s.mem - Guards.memory)]
  ELSE [cpu |-> Capacity.cpu, mem |-> Most(0, Least(s.mem - Guards.memory, Capacity.mem))]

\* A drain replaces only an admission the guardrails had already allowed, and a
\* refused host offers nothing.
Admits(s, draining) == Evaluate(s) = "capacity available" /\ ~draining
Reason(s, draining) == IF Evaluate(s) = "capacity available" /\ draining
                       THEN "update drain" ELSE Evaluate(s)
HostObservation(s, draining) ==
  IF s.fresh # "fresh" THEN Unusable(s.fresh)
  ELSE IF BudgetExceedsHost(s) THEN Unusable("unavailable")
  ELSE [fresh |-> "fresh", allowed |-> Admits(s, draining), reason |-> Reason(s, draining),
        available |-> IF Admits(s, draining) THEN Available(s) ELSE Nothing,
        physical |-> IF Admits(s, draining) /\ Elastic THEN PhysicalCapacity(s) ELSE Nothing,
        snap |-> s]

HostHealthy(h) == h.fresh = "fresh" /\ (h.allowed \/ h.reason = "update drain")

-----------------------------------------------------------------------------
(* The gate, its log line and the published pressure *)

NoGate == [observed |-> FALSE, allowed |-> FALSE, reason |-> "", since |-> 0]
NoLine == [allowed |-> TRUE, reason |-> ""]
NoPressure == [allowed |-> FALSE, reason |-> "", since |-> 0, snap |-> Blank]

\* admissionGate.Observe: an unobserved host is neither an edge nor a reset.
Moves(h) == h.reason # "" /\ ~(gate.observed /\ gate.allowed = h.allowed /\ gate.reason = h.reason)
GateAfter(h, at) == IF Moves(h) THEN [observed |-> TRUE, allowed |-> h.allowed,
                                      reason |-> h.reason, since |-> at]
                    ELSE gate
\* reportAdmissionGate writes each edge but a first one that is open.
Logs(h) == Moves(h) /\ (gate.observed \/ ~h.allowed)

\* SetHostPressure refuses a metric it does not know the reason of, or whose free
\* inodes exceed the total; the caller drops the error.
ValidAdmissionReason == {"capacity available", "disk reserve", "inode reserve",
                         "memory reserve", "swap pressure", "cpu pressure"}
Publishable(h) == h.reason \in ValidAdmissionReason /\ h.snap.ifree <= h.snap.itotal

Init == /\ clock = 1 /\ last = Blank /\ proc = NoSample
        /\ host = Unusable("unavailable")
        /\ gate = NoGate /\ shown = NoPressure /\ line = NoLine

\* One tick: ProductionInventory.Observe's host half and, when the tick returned
\* no error, the end of engineTicker.recordMetrics.
Record(h, at) ==
  /\ gate' = GateAfter(h, at)
  /\ line' = IF Logs(h) THEN [allowed |-> h.allowed, reason |-> h.reason] ELSE line
  /\ shown' = IF h.reason # "" /\ Publishable(h)
              THEN [allowed |-> h.allowed, reason |-> h.reason, since |-> gate'.since,
                    snap |-> h.snap]
              ELSE shown
Tick(r, now, draining, ok) ==
  /\ now >= clock
  /\ clock' = now
  /\ last' = IF Capable(r) THEN Snapshot(r, now) ELSE last
  /\ proc' = IF Capable(r) /\ "stat" \in r.ok THEN Sample(r) ELSE proc
  /\ host' = HostObservation(Snapshot(r, now), draining)
  /\ IF ok THEN Record(host', clock) ELSE UNCHANGED <<gate, shown, line>>

\* Everything above is the daemon's memory.
Restart ==
  /\ last' = Blank /\ proc' = NoSample
  /\ host' = Unusable("unavailable")
  /\ gate' = NoGate /\ shown' = NoPressure /\ line' = NoLine
  /\ UNCHANGED clock

Next == \/ \E r \in Reads, now \in Nat, draining, ok \in BOOLEAN : Tick(r, now, draining, ok)
        \/ Restart
Spec == Init /\ [][Next]_vars

-----------------------------------------------------------------------------
(* Properties *)

\* The last gate line tells the state the gate is in: no closure is left without
\* its opening, and a process that logged nothing has only ever seen the gate
\* open (reportAdmissionGate, "dropping one would leave a closure without its
\* opening").
LineTellsGate ==
  gate.observed => \/ line = [allowed |-> gate.allowed, reason |-> gate.reason]
                   \/ line = NoLine /\ gate.allowed

\* Admission is never shown on a host above its swap ceiling whose page-out rate
\* was not measured, between two samples of one process, below the threshold: the
\* first snapshot after a start, one across a reboot of the counters and one on a
\* clock that did not advance all fail closed (activelyPagingOut, pageOutRate).
QuietSwapIsMeasured ==
  shown.allowed /\ Guards.swap > 0 /\ shown.snap.swap > Guards.swap
  => /\ shown.snap.rate.seen /\ shown.snap.rate.secs > 0
     /\ shown.snap.rate.pages < Threshold * shown.snap.rate.secs

\* An update drain refuses admission in the observation and in the gate, but its
\* reason is not one SetHostPressure accepts: the status API never shows it, and
\* goes on showing the admission of the tick before the drain.
DrainIsNeverShown == shown.reason # "update drain"
=============================================================================
