----------------------------- MODULE NodeProofs -----------------------------
(***************************************************************************)
(* Proofs about a node's place in the fleet: the session of its runner     *)
(* scale set (Node, Session), for every recovery policy, yield policy,     *)
(* ladder and cadence and any number of faults; the admission gate of its  *)
(* host (HostGate), for every machine, guardrail and history of probes;    *)
(* and the quiescence gate an update reads its status with (Status), for   *)
(* every set of instances and profiles.  The fairness of Node is not used. *)
(*                                                                         *)
(* Node is extended.  HostGate, with its host called seen, and Status are  *)
(* instantiated under the names they have; each theorem speaks of one of   *)
(* the three specifications, and nothing relates a name two of them happen *)
(* to share (clock, last, shown).                                          *)
(***************************************************************************)
EXTENDS Node, FiniteSetTheorems, TLAPS

CONSTANTS Guards, Capacity, Budget, Elastic, DefaultRate
VARIABLES clock, last, proc, seen, gate, shown, line

Gate == INSTANCE HostGate WITH host <- seen

CONSTANTS Instances, Profiles, Components, Observations, Reasons, Demands, Window,
          Required, SilenceWindow, MaxRows, TickTTL, ObservationTTL, None
VARIABLES exits, counts, pc, tick, raised, said, named, drained, refused

Status == INSTANCE Status

-----------------------------------------------------------------------------
(* The quiescence gate *)

CountedIn(facts) == {i \in Instances : Status!Live(facts[i]) /\ facts[i].profile \in Profiles}

\* Every parked letter shown is of a machine proven idle by the same tick whose
\* instances are counted.
Consistent == \A l \in shown.letters : l.parked =>
  l.resource \in Instances /\ Status!Live(shown.counted[l.resource]) /\ Status!ProvenIdle(shown.counted[l.resource])

\* The document is a record; the count is of the shown inventory; between
\* SetInstances and SetDeadLetters that inventory is the tick's; and outside it
\* fresh letters are consistent with it.
GateInv ==
  /\ pc \in {"idle", "count", "speak", "read", "operations", "letters", "fresh"}
  /\ DOMAIN shown = DOMAIN Status!NothingShown
  /\ shown = [x \in DOMAIN Status!NothingShown |-> shown[x]]
  /\ DOMAIN tick = DOMAIN Status!NoTick
  /\ tick.letters \in SUBSET Status!Letter
  /\ shown.live = Cardinality(CountedIn(shown.counted))
  /\ pc \in {"speak", "read", "operations", "letters"} => shown.counted = tick.facts
  /\ pc = "fresh" /\ ~refused => Consistent
  /\ pc \in {"idle", "count"} /\ ~refused /\ shown.operations = "fresh" => Consistent

\* Status counts with the operators of the library.
LEMMA StatusCounts ==
  \A S : Status!Cardinality(S) = Cardinality(S) /\ (Status!IsFiniteSet(S) <=> IsFiniteSet(S))
BY Zenon DEF Status!Cardinality, Cardinality, Status!IsFiniteSet, IsFiniteSet

LEMMA GateInit == Status!Constants /\ Status!Init => GateInv
PROOF
<1> SUFFICES ASSUME Status!Constants, Status!Init PROVE GateInv
  OBVIOUS
<1>1. shown = Status!NothingShown /\ pc = "idle"
  BY DEF Status!Init
<1>2. CountedIn(shown.counted) = {}
  BY <1>1 DEF CountedIn, Status!NothingShown, Status!NoTick, Status!NoFact, Status!Live
<1>3. shown.live = Cardinality(CountedIn(shown.counted))
  BY <1>1, <1>2, FS_EmptySet DEF Status!NothingShown
<1>4. shown.operations = "unavailable"
  BY <1>1 DEF Status!NothingShown
<1>5. DOMAIN shown = DOMAIN Status!NothingShown /\ shown = [x \in DOMAIN Status!NothingShown |-> shown[x]]
  BY <1>1, Zenon DEF Status!NothingShown
<1>6. DOMAIN tick = DOMAIN Status!NoTick /\ tick.letters \in SUBSET Status!Letter
  BY Zenon DEF Status!Init, Status!NoTick
<1> QED BY <1>1, <1>3, <1>4, <1>5, <1>6 DEF GateInv

\* The fields of the document a setter does not name stay as they are.
LEMMA GateStep == ASSUME Status!Constants, GateInv, [Status!Next]_(Status!vars) PROVE GateInv'
PROOF
<1>1. DOMAIN shown = DOMAIN Status!NothingShown /\ shown = [x \in DOMAIN Status!NothingShown |-> shown[x]]
  BY DEF GateInv
<1> DEFINE Record == DOMAIN shown' = DOMAIN Status!NothingShown /\ shown' = [x \in DOMAIN Status!NothingShown |-> shown'[x]]
<1>2. ASSUME Record, shown'.counted = shown.counted, shown'.live = shown.live
      PROVE  shown'.live = Cardinality(CountedIn(shown'.counted))
  BY <1>2 DEF GateInv
<1>3. ASSUME shown'.counted = shown.counted, shown'.letters = shown.letters, Consistent
      PROVE  Consistent'
  BY <1>3, Zenon DEF Consistent
<1>4. CASE Status!TickFails
  BY <1>1, <1>2, <1>3, <1>4, Zenon DEF Status!TickFails, GateInv, Status!NothingShown
<1>5. CASE Status!TickReturns
  <2>1. PICK r \in Status!Result : tick' = [at |-> r.at, facts |-> r.facts, plan |-> r.plan, ready |-> r.ready,
                                      holds |-> r.holds, letters |-> {}, retrying |-> 0]
    BY <1>5, Zenon DEF Status!TickReturns
  <2>2. DOMAIN tick' = DOMAIN Status!NoTick /\ tick'.letters \in SUBSET Status!Letter
    BY <2>1, Zenon DEF Status!NoTick
  <2> QED BY <1>1, <1>2, <1>3, <1>5, <2>2, Zenon DEF Status!TickReturns, GateInv, Status!NothingShown
<1>6. CASE Status!CountInstances
  <2>1. Status!Counted(tick) = CountedIn(tick.facts)
    BY DEF Status!Counted, CountedIn
  <2>2. shown' = [shown EXCEPT !.live = Cardinality(CountedIn(tick.facts)), !.counted = tick.facts]
    BY <1>6, <2>1, StatusCounts, Zenon DEF Status!CountInstances
  <2> QED BY <1>1, <1>6, <2>2, Zenon DEF Status!CountInstances, GateInv, Status!NothingShown
<1>7. CASE Status!Speak
  BY <1>1, <1>2, <1>3, <1>7, Zenon DEF Status!Speak, GateInv, Status!NothingShown
<1>8. CASE Status!ReadFails
  BY <1>1, <1>2, <1>3, <1>8, Zenon DEF Status!ReadFails, GateInv, Status!NothingShown
<1>9. CASE Status!ReadReturns
  <2>1. PICK letters \in SUBSET Status!Letter, retrying \in Nat :
          tick' = [tick EXCEPT !.letters = letters, !.retrying = retrying]
    BY <1>9, Zenon DEF Status!ReadReturns
  <2>2. DOMAIN tick = DOMAIN Status!NoTick /\ "letters" \in DOMAIN tick
    BY DEF GateInv, Status!NoTick
  <2>3. DOMAIN tick' = DOMAIN Status!NoTick /\ tick'.letters \in SUBSET Status!Letter /\ tick'.facts = tick.facts
    BY <2>1, <2>2 DEF Status!NoTick
  <2> QED BY <1>1, <1>2, <1>3, <1>9, <2>3 DEF Status!ReadReturns, GateInv
<1>10. CASE Status!SetOperations
  BY <1>1, <1>2, <1>3, <1>10 DEF Status!SetOperations, GateInv, Status!NothingShown
<1>11. CASE Status!SetDeadLetters
  <2>1. /\ pc = "letters" /\ pc' = "fresh" /\ tick' = tick
        /\ shown' = [shown EXCEPT !.letters = IF refused' THEN @ ELSE Status!DeadLetterMetrics(tick, tick.letters)]
        /\ shown.counted = tick.facts /\ tick.letters \in SUBSET Status!Letter
    BY <1>11 DEF Status!SetDeadLetters, GateInv
  <2>2. Record /\ shown'.counted = shown.counted /\ shown'.live = shown.live
    BY <1>1, <2>1 DEF Status!NothingShown
  <2>3. ~refused' => shown'.letters = Status!DeadLetterMetrics(tick, tick.letters)
    BY <1>1, <2>1 DEF Status!NothingShown
  <2>4. \A l \in Status!DeadLetterMetrics(tick, tick.letters) : l.parked =>
           l.resource \in Instances /\ Status!Live(tick.facts[l.resource]) /\ Status!ProvenIdle(tick.facts[l.resource])
    <3> SUFFICES ASSUME NEW d \in tick.letters, Status!IsParked(tick, d)
                 PROVE  d.resource \in Instances /\ Status!Live(tick.facts[d.resource]) /\ Status!ProvenIdle(tick.facts[d.resource])
      BY DEF Status!DeadLetterMetrics
    <3> QED BY <2>1 DEF Status!IsParked, Status!Letter
  <2>5. ~refused' => Consistent'
    BY <2>1, <2>2, <2>3, <2>4 DEF Consistent
  <2> QED BY <1>2, <2>1, <2>2, <2>5 DEF GateInv
<1>12. CASE Status!MarkFresh
  BY <1>1, <1>2, <1>3, <1>12, Zenon DEF Status!MarkFresh, GateInv, Status!NothingShown
<1>13. CASE UNCHANGED <<pc, tick, shown, refused>>
  BY <1>1, <1>2, <1>3, <1>13 DEF GateInv
<1> QED
  BY <1>4, <1>5, <1>6, <1>7, <1>8, <1>9, <1>10, <1>11, <1>12, <1>13, Zenon
  DEF Status!Next, Status!vars, Status!Advance, Status!Report, Status!ReportReconcile, Status!ReportBinding

\* A document ensureQuiescent accepts, read outside the steps of Tick between
\* SetInstances and SetDeadLetters, after accepted letters and with every parked
\* resource of a configured profile, shows only machines proven idle.
THEOREM GateIsSound == ASSUME Status!Constants PROVE Status!Spec => []Status!GateDefersToRunning
PROOF
<1>1. Status!Init => GateInv
  BY GateInit
<1>2. GateInv /\ [Status!Next]_(Status!vars) => GateInv'
  BY GateStep
<1>3. GateInv /\ pc \in {"idle", "count", "speak", "read", "operations", "letters", "fresh"}
      => Status!GateDefersToRunning
  <2> SUFFICES ASSUME GateInv, pc \in {"idle", "count", "fresh"}, Status!Quiescent, ~refused,
                      \A i \in Status!ParkedResources : shown.counted[i].profile \in Profiles
               PROVE  \A i \in CountedIn(shown.counted) : Status!ProvenIdle(shown.counted[i])
    BY DEF Status!GateDefersToRunning, CountedIn
  <2>1. Consistent
    BY DEF GateInv, Status!Quiescent, Status!Healthy
  <2>2. \A i \in Status!ParkedResources : i \in CountedIn(shown.counted) /\ Status!ProvenIdle(shown.counted[i])
    BY <2>1, Zenon DEF Status!ParkedResources, CountedIn, Consistent
  <2>3. IsFiniteSet(CountedIn(shown.counted))
    <3>1. IsFiniteSet(Instances)
      BY StatusCounts, Zenon DEF Status!Constants
    <3>2. CountedIn(shown.counted) \subseteq Instances
      BY DEF CountedIn
    <3> QED BY <3>1, <3>2, FS_Subset
  <2>4. /\ Cardinality(Status!ParkedResources) \in Nat
        /\ Cardinality(CountedIn(shown.counted)) \in Nat
        /\ Cardinality(Status!ParkedResources) <= Cardinality(CountedIn(shown.counted))
        /\ Cardinality(Status!ParkedResources) = Cardinality(CountedIn(shown.counted))
             => Status!ParkedResources = CountedIn(shown.counted)
    <3>1. Status!ParkedResources \subseteq CountedIn(shown.counted)
      BY <2>2
    <3> QED BY <2>3, <3>1, FS_Subset, FS_CardinalityType
  <2>5. Cardinality(CountedIn(shown.counted)) <= Cardinality(Status!ParkedResources)
    BY StatusCounts DEF GateInv, Status!Quiescent
  <2>6. Status!ParkedResources = CountedIn(shown.counted)
    BY <2>4, <2>5
  <2> QED BY <2>2, <2>6
<1>4. GateInv => pc \in {"idle", "count", "speak", "read", "operations", "letters", "fresh"}
  BY DEF GateInv
<1> QED BY <1>1, <1>2, <1>3, <1>4, PTL DEF Status!Spec

-----------------------------------------------------------------------------
(* HostGate: the admission gate for every machine, guardrail and history   *)
(* of probes.                                                              *)

Rates == [seen : BOOLEAN, pages : Nat, secs : Nat]

\* What the proofs need of a measured rate: it spans time.
RateOK(s) == s.rate \in Rates /\ (s.rate.seen => s.rate.secs > 0)

\* The probe's memory dates from this clock.
ProbeOK == clock \in Nat /\ last.at \in Nat /\ last.outs \in Nat

GateLimits == Guards.rate \in Nat /\ DefaultRate \in Nat

SwapInv == ProbeOK /\ Gate!QuietSwapIsMeasured

\* A gate that has observed nothing has logged nothing.
LineInv == Gate!LineTellsGate /\ (~gate.observed => line = Gate!NoLine)

LEMMA RateIsMeasured ==
  ASSUME ProbeOK, NEW r \in Gate!Reads, NEW now \in Nat
  PROVE  Gate!PageOutRate(now, r.outs) \in Rates
         /\ (Gate!PageOutRate(now, r.outs).seen => Gate!PageOutRate(now, r.outs).secs > 0)
<1>1. r.outs \in Nat
  BY DEF Gate!Reads
<1> QED BY <1>1 DEF Gate!PageOutRate, Gate!NoRate, Rates, ProbeOK, Gate!HasPrior

\* A fresh observation that admits, over its swap ceiling, was not paging out.
LEMMA AdmittedIsQuiet ==
  ASSUME GateLimits, ProbeOK, NEW r \in Gate!Reads, NEW now \in Nat, NEW draining \in BOOLEAN,
         NEW h, h = Gate!HostObservation(Gate!Snapshot(r, now), draining),
         h.allowed, Guards.swap > 0, h.snap.swap > Guards.swap
  PROVE  /\ h.snap.rate.seen /\ h.snap.rate.secs > 0
         /\ h.snap.rate.pages < Gate!Threshold * h.snap.rate.secs
<1> DEFINE s == Gate!Snapshot(r, now)
<1>1. s.fresh = "fresh" /\ ~Gate!BudgetExceedsHost(s)
  BY DEF Gate!HostObservation, Gate!Unusable
<1>2. h.snap = s /\ h.allowed = Gate!Admits(s, draining)
  BY <1>1 DEF Gate!HostObservation
<1>3. ~Gate!SwapPressure(s)
  BY <1>2, Zenon DEF Gate!Admits, Gate!Evaluate
<1>4. ~Gate!ActivelyPagingOut(s)
  BY <1>2, <1>3 DEF Gate!SwapPressure
<1>5. Gate!Capable(r)
  <2> SUFFICES ASSUME ~Gate!Capable(r) PROVE FALSE
    OBVIOUS
  <2>1. s = Gate!Degraded(now)
    BY DEF Gate!Snapshot
  <2>2. CASE Gate!HasPrior
    <3>1. s = [last EXCEPT !.fresh = "stale"]
      BY <2>1, <2>2 DEF Gate!Degraded
    <3> QED BY <1>1, <3>1
  <2>3. CASE ~Gate!HasPrior
    BY <1>1, <2>1, <2>3 DEF Gate!Degraded, Gate!Blank
  <2> QED BY <2>2, <2>3
<1>6. s.rate = Gate!PageOutRate(now, r.outs)
  BY <1>5 DEF Gate!Snapshot
<1>7. /\ s.rate.seen
      /\ ~(s.rate.pages >= Gate!Threshold * s.rate.secs)
  BY <1>4 DEF Gate!ActivelyPagingOut
<1>8. s.rate.secs > 0 /\ s.rate.secs \in Nat /\ s.rate.pages \in Nat
  BY <1>6, <1>7, RateIsMeasured DEF Rates
<1>9. Gate!Threshold \in Nat
  BY DEF GateLimits, Gate!Threshold
<1>10. Gate!Threshold * s.rate.secs \in Nat
  BY <1>8, <1>9
<1> HIDE DEF s
<1>11. s.rate.pages < Gate!Threshold * s.rate.secs
  BY <1>7, <1>8, <1>10
<1> QED BY <1>2, <1>7, <1>8, <1>11

\* Whatever the probes, clocks, reboots and restarts: admission is shown over the
\* swap ceiling only on a rate measured below the threshold (activelyPagingOut).
THEOREM SwapGateFailsClosed == ASSUME GateLimits PROVE Gate!Spec => []Gate!QuietSwapIsMeasured
<1>1. Gate!Init => SwapInv
  <2> SUFFICES ASSUME Gate!Init PROVE SwapInv
    OBVIOUS
  <2>1. clock = 1 /\ last = Gate!Blank /\ shown = Gate!NoPressure
    BY DEF Gate!Init
  <2>2. ProbeOK
    BY <2>1 DEF ProbeOK, Gate!Blank
  <2>3. Gate!QuietSwapIsMeasured
    BY <2>1 DEF Gate!QuietSwapIsMeasured, Gate!NoPressure
  <2> QED BY <2>2, <2>3 DEF SwapInv
<1>2. SwapInv /\ [Gate!Next]_(Gate!vars) => SwapInv'
  <2> SUFFICES ASSUME SwapInv, [Gate!Next]_(Gate!vars) PROVE SwapInv'
    OBVIOUS
  <2>1. ASSUME NEW r \in Gate!Reads, NEW now \in Nat, NEW draining \in BOOLEAN,
               NEW ok \in BOOLEAN, Gate!Tick(r, now, draining, ok)
        PROVE  SwapInv'
    <3>1. ProbeOK'
      <4>1. r.outs \in Nat
        BY DEF Gate!Reads
      <4>2. Gate!Capable(r) => Gate!Snapshot(r, now).at = now /\ Gate!Snapshot(r, now).outs = r.outs
        BY DEF Gate!Snapshot
      <4> QED BY <2>1, <4>1, <4>2 DEF Gate!Tick, ProbeOK, SwapInv
    <3>2. CASE shown' = shown
      BY <3>1, <3>2 DEF SwapInv, Gate!QuietSwapIsMeasured
    <3>3. CASE shown' # shown
      <4>1. Gate!Record(seen', clock)
        BY <2>1, <3>3 DEF Gate!Tick
      <4>2. shown'.allowed = seen'.allowed /\ shown'.snap = seen'.snap
        BY <3>3, <4>1 DEF Gate!Record
      <4>3. seen' = Gate!HostObservation(Gate!Snapshot(r, now), draining)
        BY <2>1 DEF Gate!Tick
      <4>4. Gate!QuietSwapIsMeasured'
        BY <4>2, <4>3, AdmittedIsQuiet DEF Gate!QuietSwapIsMeasured, SwapInv
      <4> QED BY <3>1, <4>4 DEF SwapInv
    <3> QED BY <3>2, <3>3
  <2>2. ASSUME Gate!Restart PROVE SwapInv'
    BY <2>2 DEF Gate!Restart, SwapInv, ProbeOK, Gate!QuietSwapIsMeasured, Gate!NoPressure, Gate!Blank
  <2>3. CASE UNCHANGED Gate!vars
    BY <2>3 DEF Gate!vars, SwapInv, ProbeOK, Gate!QuietSwapIsMeasured
  <2> QED BY <2>1, <2>2, <2>3 DEF Gate!Next
<1>3. SwapInv => Gate!QuietSwapIsMeasured
  BY DEF SwapInv
<1> QED BY <1>1, <1>2, <1>3, PTL DEF Gate!Spec

\* The log of the gate can be read backwards: its last line is the state the gate
\* is in, however the host flaps and ticks fail (admissionGate.Observe).
THEOREM GateLogIsComplete == Gate!Spec => []Gate!LineTellsGate
<1>1. Gate!Init => LineInv
  <2> SUFFICES ASSUME Gate!Init PROVE LineInv
    OBVIOUS
  <2>1. gate = Gate!NoGate /\ line = Gate!NoLine
    BY DEF Gate!Init
  <2> QED BY <2>1 DEF LineInv, Gate!LineTellsGate, Gate!NoGate
<1>2. LineInv /\ [Gate!Next]_(Gate!vars) => LineInv'
  <2> SUFFICES ASSUME LineInv, [Gate!Next]_(Gate!vars) PROVE LineInv'
    OBVIOUS
  <2>1. ASSUME NEW h, NEW at, Gate!Record(h, at) PROVE LineInv'
    <3>1. CASE Gate!Logs(h)
      <4>1. /\ gate'.allowed = h.allowed /\ gate'.reason = h.reason /\ gate'.observed
            /\ line' = [allowed |-> h.allowed, reason |-> h.reason]
        BY <2>1, <3>1 DEF Gate!Record, Gate!Logs, Gate!GateAfter
      <4> QED BY <4>1 DEF LineInv, Gate!LineTellsGate
    <3>2. CASE ~Gate!Logs(h) /\ Gate!Moves(h)
      <4>1. ~gate.observed /\ h.allowed
        BY <3>2 DEF Gate!Logs
      <4>2. gate'.allowed = h.allowed /\ gate'.observed /\ line' = line
        BY <2>1, <3>2 DEF Gate!Record, Gate!GateAfter
      <4> QED BY <4>1, <4>2 DEF LineInv, Gate!LineTellsGate
    <3>3. CASE ~Gate!Moves(h)
      <4>1. gate' = gate /\ line' = line
        BY <2>1, <3>3 DEF Gate!Record, Gate!Logs, Gate!GateAfter
      <4> QED BY <4>1 DEF LineInv, Gate!LineTellsGate
    <3> QED BY <3>1, <3>2, <3>3
  <2>2. ASSUME UNCHANGED <<gate, line>> PROVE LineInv'
    BY <2>2 DEF LineInv, Gate!LineTellsGate
  <2>3. ASSUME NEW r \in Gate!Reads, NEW now \in Nat, NEW draining \in BOOLEAN,
               NEW ok \in BOOLEAN, Gate!Tick(r, now, draining, ok)
        PROVE  LineInv'
    BY <2>1, <2>2, <2>3 DEF Gate!Tick
  <2>4. ASSUME Gate!Restart PROVE LineInv'
    BY <2>4 DEF Gate!Restart, LineInv, Gate!LineTellsGate, Gate!NoGate
  <2> QED BY <2>2, <2>3, <2>4 DEF Gate!Next, Gate!vars
<1>3. LineInv => Gate!LineTellsGate
  BY DEF LineInv
<1> QED BY <1>1, <1>2, <1>3, PTL DEF Gate!Spec

\* No behaviour ever shows an update drain as the reason of a refusal: the status
\* API's vocabulary lacks it (validAdmissionReason).
THEOREM DrainStaysHidden == Gate!Spec => []Gate!DrainIsNeverShown
<1>1. Gate!Init => Gate!DrainIsNeverShown
  <2> SUFFICES ASSUME Gate!Init PROVE Gate!DrainIsNeverShown
    OBVIOUS
  <2>1. shown = Gate!NoPressure
    BY DEF Gate!Init
  <2> QED BY <2>1 DEF Gate!DrainIsNeverShown, Gate!NoPressure
<1>2. Gate!DrainIsNeverShown /\ [Gate!Next]_(Gate!vars) => Gate!DrainIsNeverShown'
  <2> SUFFICES ASSUME Gate!DrainIsNeverShown, [Gate!Next]_(Gate!vars) PROVE Gate!DrainIsNeverShown'
    OBVIOUS
  <2>1. ASSUME NEW h, NEW at, Gate!Record(h, at) PROVE Gate!DrainIsNeverShown'
    BY <2>1 DEF Gate!Record, Gate!Publishable, Gate!ValidAdmissionReason, Gate!DrainIsNeverShown
  <2>2. ASSUME UNCHANGED shown PROVE Gate!DrainIsNeverShown'
    BY <2>2 DEF Gate!DrainIsNeverShown
  <2>3. ASSUME NEW r \in Gate!Reads, NEW now \in Nat, NEW draining \in BOOLEAN,
               NEW ok \in BOOLEAN, Gate!Tick(r, now, draining, ok)
        PROVE  Gate!DrainIsNeverShown'
    BY <2>1, <2>2, <2>3 DEF Gate!Tick
  <2>4. ASSUME Gate!Restart PROVE Gate!DrainIsNeverShown'
    BY <2>4 DEF Gate!Restart, Gate!DrainIsNeverShown, Gate!NoPressure
  <2> QED BY <2>2, <2>3, <2>4 DEF Gate!Next, Gate!vars
<1> QED BY <1>1, <1>2, PTL DEF Gate!Spec

-----------------------------------------------------------------------------
(* The session *)

Source == [client : BOOLEAN, released : BOOLEAN, suspended : BOOLEAN, abandoned : BOOLEAN,
           fails : Nat, window : Nat, refusals : Nat,
           holder : Holders, same : BOOLEAN, refused : Nat, faults : Nat]

\* The session GitHub grants the source is one the source still counts as its
\* own: whoever released it, suspended or never had a client holds none.  And
\* the refusals counted are at least those of the very session installed.
Owned(s) == s.released \/ s.suspended \/ ~s.client => s.holder # "current"
Counted(s) == s.refused <= s.refusals /\ s.refusals <= ReleaseRefusalBound
Sound(s) == s \in Source /\ Owned(s) /\ Counted(s)

\* The bounds are positive naturals.
LEMMA Positive ==
  /\ MaxConsecutiveFailures \in Nat \ {0} /\ FailureWindow \in Nat \ {0} /\ MaxFaults \in Nat
  /\ BlockedFor \in Nat \ {0} /\ HealthyFor \in Nat \ {0} /\ Cadence \in Nat /\ Boot \in Nat
  /\ StreakBound \in Nat \ {0} /\ StreakBound >= BlockedFor
BY SessionAssumption, NodeAssumption DEF StreakBound

\* What a fault leaves alone, and what a change of holder does.
LEMMA FaultFields ==
  ASSUME NEW s \in Source
  PROVE  /\ Fault(s) \in Source /\ Fault(s).holder = s.holder
         /\ Fault(s).released = s.released /\ Fault(s).suspended = s.suspended
         /\ Fault(s).client = s.client /\ Fault(s).same = s.same
         /\ Fault(s).refused = s.refused /\ Fault(s).refusals = s.refusals
BY DEF Fault, Source

LEMMA HolderFields ==
  ASSUME NEW s \in Source, NEW h \in Holders
  PROVE  LET t == [s EXCEPT !.holder = h]
         IN /\ t \in Source /\ t.holder = h
            /\ t.released = s.released /\ t.suspended = s.suspended
            /\ t.client = s.client /\ t.same = s.same
            /\ t.refused = s.refused /\ t.refusals = s.refusals
BY DEF Source

\* A session that fails once more, or is not the source's any more, is sound.
LEMMA FaultIsSound ==
  ASSUME NEW s, Sound(s)
  PROVE  Sound(Fault(s)) /\ Fault(s).refusals = s.refusals
BY FaultFields DEF Sound, Owned, Counted

LEMMA GoneIsSound ==
  ASSUME NEW s, Sound(s), NEW h \in Holders \ {"current"}
  PROVE  Sound([s EXCEPT !.holder = h]) /\ [s EXCEPT !.holder = h].refusals = s.refusals
BY HolderFields DEF Sound, Owned, Counted

\* An open that succeeds, once installed and unsuspended, is the source's own.
LEMMA OpenInstalls ==
  ASSUME NEW s, Sound(s), NEW t \in OpenOk(s)
  PROVE  /\ Install(t) \in Source /\ Install(t).refusals = s.refusals
         /\ Install(t).suspended = s.suspended
         /\ ~Install(t).released /\ Install(t).client
         /\ Install(t).refused = 0 /\ Install(t).holder = "current"
<1>1. s.holder = "none" /\ t = [s EXCEPT !.holder = "current"]
  BY DEF OpenOk
<1>2. s \in Source
  BY DEF Sound
<1> QED BY <1>1, <1>2, Zenon DEF Install, Source, Holders

\* An open that fails leaves the source as it was, but for the session GitHub
\* may have granted without saying so.
LEMMA OpenFailsKeeps ==
  ASSUME NEW s, Sound(s), NEW t \in OpenFails(s)
  PROVE  Sound(t) /\ t.refusals = s.refusals
<1>1. s \in Source
  BY DEF Sound
<1>2. CASE t = s
  BY <1>2
<1>3. CASE t = Fault(s)
  BY <1>3, FaultIsSound
<1>4. CASE t = [Fault(s) EXCEPT !.holder = "orphan"]
  BY <1>4, FaultIsSound, GoneIsSound DEF Holders
<1> QED BY <1>2, <1>3, <1>4 DEF OpenFails

\* openPending.
LEMMA OpenPendingKeeps ==
  ASSUME NEW s, Sound(s), ~s.suspended, ~s.client, NEW t \in OpenPending(s)
  PROVE  Sound(t) /\ t.refusals = s.refusals
<1>1. s \in Source
  BY DEF Sound
<1>2. ASSUME NEW u \in OpenOk(s), t = Install(u) PROVE Sound(t) /\ t.refusals = s.refusals
  <2>1. /\ t \in Source /\ t.refusals = s.refusals /\ ~t.suspended
        /\ ~t.released /\ t.client /\ t.refused = 0
    BY <1>2, OpenInstalls
  <2> QED BY <1>1, <2>1 DEF Sound, Owned, Counted, Source
<1>3. CASE t \in OpenFails(s)
  BY <1>3, OpenFailsKeeps
<1>4. CASE t = [Fault(s) EXCEPT !.abandoned = TRUE]
  <2> DEFINE f == Fault(s)
  <2>1. Sound(f) /\ f.refusals = s.refusals
    BY FaultIsSound
  <2> HIDE DEF f
  <2>2. t = [f EXCEPT !.abandoned = TRUE]
    BY <1>4 DEF f
  <2> QED BY <2>1, <2>2, Zenon DEF Sound, Source, Owned, Counted
<1> QED BY <1>2, <1>3, <1>4 DEF OpenPending

\* Suspend.
LEMMA SuspendKeeps ==
  ASSUME NEW s, Sound(s), NEW t \in Suspend(s)
  PROVE  Sound(t) /\ t.refusals = s.refusals
<1>1. s \in Source
  BY DEF Sound
<1>2. CASE t = s
  BY <1>2
<1>3. CASE s.holder = "current" /\ t = [[s EXCEPT !.holder = "none"] EXCEPT !.suspended = TRUE, !.released = TRUE]
  BY <1>1, <1>3, Zenon DEF Sound, Source, Owned, Counted, Holders
<1>4. CASE t = Fault(s)
  BY <1>4, FaultIsSound
<1>5. CASE t = [Fault(s) EXCEPT !.holder = "none"]
  BY <1>5, FaultIsSound, GoneIsSound DEF Holders
<1>6. CASE (~s.client \/ s.released) /\ t = [s EXCEPT !.suspended = TRUE]
  BY <1>1, <1>6, Zenon DEF Sound, Source, Owned, Counted
<1> QED BY <1>2, <1>3, <1>4, <1>5, <1>6, Zenon DEF Suspend, CloseOk, CloseFails

\* Resume.
LEMMA ResumeKeeps ==
  ASSUME NEW s, Sound(s), NEW t \in Resume(s)
  PROVE  Sound(t) /\ t.refusals = s.refusals
<1>1. s \in Source
  BY DEF Sound
<1>2. CASE t = s
  BY <1>2
<1>3. ASSUME NEW u \in OpenOk(s), t = [Install(u) EXCEPT !.suspended = FALSE, !.abandoned = FALSE]
      PROVE Sound(t) /\ t.refusals = s.refusals
  <2>1. /\ Install(u) \in Source /\ Install(u).refusals = s.refusals
        /\ ~Install(u).released /\ Install(u).client /\ Install(u).refused = 0
    BY <1>3, OpenInstalls
  <2>2. s.refusals \in Nat /\ s.refusals <= ReleaseRefusalBound
    BY <1>1 DEF Sound, Counted, Source
  <2> DEFINE v == Install(u)
  <2>3. t = [v EXCEPT !.suspended = FALSE, !.abandoned = FALSE] /\ v \in Source
    BY <1>3, <2>1
  <2>4. v.refusals = s.refusals /\ ~v.released /\ v.client /\ v.refused = 0
    BY <2>1
  <2> HIDE DEF v
  <2>5. /\ t \in Source /\ t.refusals = s.refusals /\ ~t.released /\ t.client /\ t.refused = 0
        /\ ~t.suspended
    BY <2>3, <2>4, Zenon DEF Source
  <2> QED BY <2>2, <2>5 DEF Sound, Owned, Counted
<1>4. CASE t \in OpenFails(s)
  BY <1>4, OpenFailsKeeps
<1> QED BY <1>2, <1>3, <1>4, Zenon DEF Resume

\* replace, with a refused release counted only below the bound.
LEMMA ReplaceKeeps ==
  ASSUME NEW s, Sound(s), NEW discard \in BOOLEAN, NEW t \in Replace(s, discard),
         ~discard => s.refusals < ReleaseRefusalBound
  PROVE  Sound(t)
<1>1. s \in Source
  BY DEF Sound
<1>2. CASE t = s
  BY <1>2
<1>3. ASSUME ~s.suspended, NEW u \in Release(s, discard), t \in Reopen(u) PROVE Sound(t)
  <2>1. Sound(u) /\ ~u.suspended
    <3>1. CASE u = s
      BY <1>3, <3>1
    <3>2. ASSUME NEW v \in CloseOk(s) \cup CloseFails(s), u = GiveUp(v) PROVE Sound(u) /\ ~u.suspended
      <4>1. \/ v = s \/ v = Fault(s) \/ v = [Fault(s) EXCEPT !.holder = "none"]
            \/ v = [s EXCEPT !.holder = "none"]
        BY <3>2 DEF CloseOk, CloseFails
      <4>2. /\ v \in Source /\ v.suspended = s.suspended /\ Counted(v)
        <5>1. "none" \in Holders
          BY DEF Holders
        <5>2. CASE v = s \/ v = Fault(s)
          BY <1>1, <5>2, FaultFields DEF Sound, Counted
        <5>3. CASE v = [s EXCEPT !.holder = "none"]
          BY <1>1, <5>1, <5>3, HolderFields DEF Sound, Counted
        <5>4. CASE v = [Fault(s) EXCEPT !.holder = "none"]
          <6>1. Fault(s) \in Source /\ Fault(s).suspended = s.suspended /\ Counted(Fault(s))
            BY <1>1, FaultFields DEF Sound, Counted
          <6> QED BY <5>1, <5>4, <6>1, HolderFields DEF Counted
        <5> QED BY <4>1, <5>2, <5>3, <5>4
      <4> QED BY <1>3, <3>2, <4>2, Zenon DEF GiveUp, Sound, Source, Owned, Counted, Holders
    <3> QED BY <1>3, <3>1, <3>2 DEF Release
  <2>2. ASSUME NEW v \in OpenOk(u), t = [Install(v) EXCEPT !.refusals = 0] PROVE Sound(t)
    <3>1. /\ Install(v) \in Source /\ ~Install(v).suspended
          /\ ~Install(v).released /\ Install(v).client /\ Install(v).refused = 0
      BY <2>1, <2>2, OpenInstalls
    <3>2. ReleaseRefusalBound \in Nat
      BY Positive DEF ReleaseRefusalBound
    <3> QED BY <2>2, <3>1, <3>2 DEF Sound, Owned, Counted, Source
  <2>3. CASE t \in OpenFails(u)
    BY <2>1, <2>3, OpenFailsKeeps
  <2> QED BY <1>3, <2>2, <2>3 DEF Reopen
<1>4. ASSUME ~s.released, ~s.suspended, ~discard, NEW u \in CloseFails(s), t = Refuse(u) PROVE Sound(t)
  <2>1. u = s \/ u = Fault(s) \/ u = [Fault(s) EXCEPT !.holder = "none"]
    BY <1>4 DEF CloseFails
  <2>2. /\ u \in Source /\ Owned(u) /\ u.refused = s.refused /\ u.refusals = s.refusals
    <3>1. "none" \in Holders
      BY DEF Holders
    <3>2. CASE u = s \/ u = Fault(s)
      BY <1>1, <3>2, FaultFields DEF Sound, Owned
    <3>3. CASE u = [Fault(s) EXCEPT !.holder = "none"]
      <4>1. Fault(s) \in Source /\ Fault(s).refused = s.refused /\ Fault(s).refusals = s.refusals
        BY <1>1, FaultFields
      <4> QED BY <3>1, <3>3, <4>1, HolderFields DEF Owned
    <3> QED BY <2>1, <3>2, <3>3
  <2>3. ReleaseRefusalBound \in Nat
    BY Positive DEF ReleaseRefusalBound
  <2>4. /\ s.refused <= s.refusals /\ s.refusals < ReleaseRefusalBound
        /\ s.refused \in Nat /\ s.refusals \in Nat
    BY <1>1, <1>4 DEF Sound, Counted, Source
  <2>5. t = [u EXCEPT !.refusals = s.refusals + 1, !.refused = s.refused + 1]
    BY <1>4, <2>2, <2>4 DEF Refuse, Source
  <2>6. /\ t \in Source /\ t.refusals = s.refusals + 1 /\ t.refused = s.refused + 1
        /\ t.released = u.released /\ t.suspended = u.suspended /\ t.client = u.client
        /\ t.holder = u.holder
    <3>1. s.refusals + 1 \in Nat /\ s.refused + 1 \in Nat
      BY <2>4
    <3> DEFINE m == s.refusals + 1
               n == s.refused + 1
    <3>2. t = [u EXCEPT !.refusals = m, !.refused = n] /\ m \in Nat /\ n \in Nat /\ u \in Source
      BY <2>2, <2>5, <3>1
    <3> HIDE DEF m, n
    <3>3. /\ t \in Source /\ t.refusals = m /\ t.refused = n
          /\ t.released = u.released /\ t.suspended = u.suspended /\ t.client = u.client
          /\ t.holder = u.holder
      BY <3>2, Zenon DEF Source
    <3> QED BY <3>3 DEF m, n
  <2> QED BY <2>2, <2>3, <2>4, <2>6 DEF Sound, Owned, Counted
<1> QED
  <2>1. CASE s.suspended \/ ~s.same
    BY <1>2, <2>1 DEF Replace
  <2>2. CASE ~s.suspended /\ s.same
    <3>1. \/ \E u \in Release(s, discard) : t \in Reopen(u)
          \/ ~s.released /\ ~discard /\ \E u \in CloseFails(s) : t = Refuse(u)
      <4>1. CASE s.released \/ discard
        <5>1. t \in UNION {Reopen(u) : u \in Release(s, discard)}
          BY <2>2, <4>1 DEF Replace
        <5> QED BY <5>1
      <4>2. CASE ~s.released /\ ~discard
        <5>1. t \in {Refuse(u) : u \in CloseFails(s)} \cup UNION {Reopen(u) : u \in Release(s,
        discard)}
          BY <2>2, <4>2 DEF Replace
        <5> QED BY <4>2, <5>1
      <4> QED BY <4>1, <4>2
    <3> QED BY <1>3, <1>4, <2>2, <3>1
  <2> QED BY <2>1, <2>2

\* A process that starts knows no session but the one it opened.
LEMMA StartIsSound ==
  ASSUME NEW s \in Source, s.holder # "current", NEW t \in Start(s)
  PROVE  Sound(t) /\ t.refusals = 0
<1>1. ReleaseRefusalBound \in Nat
  BY Positive DEF ReleaseRefusalBound
<1>2. ASSUME NEW c \in BOOLEAN, NEW h \in Holders, NEW f \in Nat, t = NewSource(c, h, f),
             h = "current" => c
      PROVE  Sound(t) /\ t.refusals = 0
  <2>1. t \in Source
    BY <1>2 DEF NewSource, Source
  <2>2. t.client = c /\ t.holder = h /\ t.released = ~c /\ t.suspended = FALSE
    BY <1>2 DEF NewSource
  <2>3. t.refused = 0 /\ t.refusals = 0
    BY <1>2 DEF NewSource
  <2>4. Counted(t)
    BY <1>1, <2>3 DEF Counted
  <2>5. Owned(t)
    BY <1>2, <2>2, Zenon DEF Owned
  <2> QED BY <2>1, <2>3, <2>4, <2>5 DEF Sound
<1>3. ASSUME NEW u \in OpenOk(s), t = NewSource(TRUE, u.holder, u.faults)
      PROVE  Sound(t) /\ t.refusals = 0
  <2>1. u = [s EXCEPT !.holder = "current"]
    BY <1>3 DEF OpenOk
  <2>2. u.holder \in Holders /\ u.faults \in Nat
    BY <2>1 DEF Source, Holders
  <2> QED BY <1>2, <1>3, <2>2, Zenon
<1>4. ASSUME NEW u \in OpenFails(s), t = NewSource(FALSE, u.holder, u.faults)
      PROVE  Sound(t) /\ t.refusals = 0
  <2>1. u.holder \in Holders \ {"current"} /\ u.faults \in Nat
    <3>1. CASE u = s \/ u = Fault(s)
      BY <3>1, FaultFields DEF Source
    <3>2. CASE u = [Fault(s) EXCEPT !.holder = "orphan"]
      BY <3>2, FaultFields DEF Source, Holders
    <3> QED BY <1>4, <3>1, <3>2 DEF OpenFails
  <2> QED BY <1>2, <1>4, <2>1, Zenon
<1> QED BY <1>3, <1>4, Zenon DEF Start

\* The end of a process, by a shutdown or a crash, and the start of the next.
LEMMA RestartIsSound ==
  ASSUME NEW s, Sound(s), NEW t \in Restart(s)
  PROVE  Sound(t)
<1>1. s \in Source
  BY DEF Sound
<1>2. PICK u \in Close(s) \cup {s} : t \in Start(Orphaned(u))
  BY DEF Restart
<1>3. u \in Source
  <2>1. \/ u = s \/ u = Fault(s) \/ u = [Fault(s) EXCEPT !.holder = "none"]
        \/ u = [s EXCEPT !.holder = "none"]
    BY <1>2 DEF Close, CloseOk, CloseFails
  <2>2. "none" \in Holders
    BY DEF Holders
  <2>3. CASE u = [Fault(s) EXCEPT !.holder = "none"]
    BY <1>1, <2>2, <2>3, FaultFields, HolderFields
  <2> QED BY <1>1, <2>1, <2>2, <2>3, FaultFields, HolderFields
<1>4. Orphaned(u) \in Source /\ Orphaned(u).holder # "current"
  BY <1>3 DEF Orphaned, Source, Holders
<1> QED BY <1>2, <1>4, StartIsSound

-----------------------------------------------------------------------------
(* The node *)

Yields == [yielded : BOOLEAN, observed : BOOLEAN, blocked : BOOLEAN, age : Nat]
Hosts == [mode : Modes, allowed : BOOLEAN, busy : BOOLEAN, flips : Nat]
Ingesters == [pc : {"idle", "poll", "replace"}, discard : BOOLEAN]

\* A recovery that does not discard was decided below the bound, and nothing
\* but a recovery counts a refusal.
Bounded == ing.pc = "replace" /\ ~ing.discard => ses.refusals < ReleaseRefusalBound

\* The streak of refused admission is no older than the host's silence, until
\* both reach the bound.
Earned == yield.blocked /\ ~yield.yielded => quiet >= yield.age \/ quiet >= BlockedFor

YieldInv == yield \in Yields /\ host \in Hosts /\ quiet \in Nat /\ Earned
SessionInv == Sound(ses) /\ ing \in Ingesters /\ Bounded
IInv == SessionInv /\ YieldInv

LEMMA InitIInv == Init => IInv
<1> SUFFICES ASSUME Init PROVE IInv
  OBVIOUS
<1>1. NewSource(FALSE, "none", 0) \in Source /\ NewSource(FALSE, "none", 0).holder # "current"
  BY DEF NewSource, Source, Holders
<1>2. Sound(ses)
  BY <1>1, StartIsSound, Zenon DEF Init
<1>3. ing \in Ingesters /\ Bounded
  BY DEF Init, Idle, Ingesters, Bounded
<1>4. yield \in Yields /\ host \in Hosts /\ quiet \in Nat /\ Earned
  BY DEF Init, NoYield, Yields, Hosts, Earned
<1> QED BY <1>2, <1>3, <1>4 DEF IInv, SessionInv, YieldInv

\* A step that only moves the session, and counts no refusal, keeps the
\* invariant of the session.
LEMMA SessionMoves ==
  ASSUME SessionInv, Sound(ses'), ses'.refusals = ses.refusals, ing' = ing
  PROVE  SessionInv'
BY DEF SessionInv, Bounded

\* Time adds to the age of a session's failures and to nothing else of it.
LEMMA ClockKeepsSession == ASSUME SessionInv, Clock PROVE SessionInv'
<1>1. ses \in Source /\ Sound(ses)
  BY DEF SessionInv, Sound
<1>2. PICK w \in Nat : ses' = [ses EXCEPT !.window = w]
  <2>1. FailureWindow + 1 \in Nat /\ ses.window \in Nat
    BY <1>1, Positive DEF Source
  <2>2. (IF ses.window = 0 THEN 0 ELSE Aged(ses.window, FailureWindow + 1)) \in Nat
    BY <2>1 DEF Aged, MinOf
  <2> QED BY <2>2, Zenon DEF Clock
<1>3. Sound(ses') /\ ses'.refusals = ses.refusals
  BY <1>1, <1>2 DEF Sound, Source, Owned, Counted
<1> QED BY <1>3, SessionMoves DEF Clock

\* The ingester: a refusal is counted only by a recovery that may still retry.
LEMMA IngestKeepsSession == ASSUME SessionInv, Ingest PROVE SessionInv'
<1>1. ses \in Source /\ Sound(ses) /\ ing \in Ingesters
  BY DEF SessionInv, Sound
<1>2. CASE HandlePending
  BY <1>1, <1>2, OpenPendingKeeps, SessionMoves DEF HandlePending, PendingOpen, Polls
<1>3. CASE HandleBegins
  BY <1>1, <1>3 DEF HandleBegins, SessionInv, Ingesters, Bounded
<1>4. CASE HandleOk
  <2>1. Sound(ses')
    BY <1>1, <1>4, Zenon DEF HandleOk, ClearFailures, Sound, Source, Owned, Counted
  <2> QED BY <1>4, <2>1 DEF HandleOk, Idle, SessionInv, Ingesters, Bounded
<1>5. CASE HandleFails
  <2>1. PICK s : Sound(s) /\ ses' = RecordFailure(s)
    BY <1>1, <1>5, FaultIsSound DEF HandleFails
  <2>2. s \in Source /\ MaxConsecutiveFailures \in Nat
    BY <2>1, Positive DEF Sound
  <2>3. PICK f \in Nat, w \in Nat : ses' = [s EXCEPT !.fails = f, !.window = w, !.same = TRUE]
    <3>1. s.fails \in Nat /\ s.window \in Nat
      BY <2>2 DEF Source
    <3>2. /\ (IF s.fails < MaxConsecutiveFailures THEN s.fails + 1 ELSE s.fails) \in Nat
          /\ (IF s.window = 0 THEN 1 ELSE s.window) \in Nat
      BY <2>2, <3>1
    <3> QED BY <2>1, <3>2, Zenon DEF RecordFailure
  <2>4. Sound(ses')
    BY <2>1, <2>2, <2>3, Zenon DEF Sound, Source, Owned, Counted
  <2>5. PICK d : /\ ing' = [pc |-> "replace", discard |-> d]
                 /\ d \in BOOLEAN /\ (~d => ~ReleaseRefusalsExceeded(ses'))
    BY <1>5, Zenon DEF HandleFails
  <2>6. ses'.refusals \in Nat /\ ReleaseRefusalBound \in Nat
    BY <2>4, Positive DEF Sound, Source, ReleaseRefusalBound
  <2> QED BY <2>4, <2>5, <2>6 DEF SessionInv, Ingesters, Bounded, ReleaseRefusalsExceeded
<1>6. CASE HandleReplaces
  <2>1. ing.discard \in BOOLEAN /\ (~ing.discard => ses.refusals < ReleaseRefusalBound)
    BY <1>1, <1>6 DEF HandleReplaces, SessionInv, Bounded, Ingesters
  <2>2. Sound(ses')
    BY <1>1, <1>6, <2>1, ReplaceKeeps DEF HandleReplaces
  <2> QED BY <1>6, <2>2 DEF HandleReplaces, Idle, SessionInv, Ingesters, Bounded
<1> QED BY <1>2, <1>3, <1>4, <1>5, <1>6 DEF Ingest

\* applySessionYield: the tick heals, suspends and resumes.
LEMMA TickKeepsSession == ASSUME SessionInv, ApplySessionYield PROVE SessionInv'
<1>1. Sound(ses) /\ ing' = ing
  BY DEF SessionInv, ApplySessionYield
<1>2. PICK s : (s = ses \/ s \in Heal(ses)) /\ \E want : ses' \in Reconcile(s, want)
  BY DEF ApplySessionYield
<1>3. Sound(s) /\ s.refusals = ses.refusals
  <2>1. CASE s = ses
    BY <1>1, <2>1
  <2>2. CASE s \in Heal(ses)
    <3>1. PICK t \in Suspend(ses) : s \in IF t.suspended THEN Resume(t) ELSE {t}
      BY <1>2, <2>2 DEF Heal
    <3>2. Sound(t) /\ t.refusals = ses.refusals
      BY <1>1, SuspendKeeps
    <3> QED BY <3>1, <3>2, ResumeKeeps
  <2> QED BY <1>2, <2>1, <2>2
<1>4. Sound(ses') /\ ses'.refusals = s.refusals
  BY <1>2, <1>3, SuspendKeeps, ResumeKeeps DEF Reconcile
<1> QED BY <1>1, <1>3, <1>4, SessionMoves

\* What the broker does on its own.
LEMMA BrokerKeepsSession ==
  ASSUME SessionInv, BrokerExpires \/ BrokerLoses \/ PeerGoes
  PROVE  SessionInv'
<1>1. Sound(ses) /\ ing' = ing
  BY DEF SessionInv, BrokerExpires, BrokerLoses, PeerGoes
<1>2. PICK s : /\ Sound(s) /\ s.refusals = ses.refusals
               /\ \E h \in Holders \ {"current"} : ses' = [s EXCEPT !.holder = h]
  <2>1. {"none",
  "peer"} \subseteq Holders \ {"current"} /\ Sound(Fault(ses)) /\ Fault(ses).refusals = ses.refusals
    BY <1>1, FaultIsSound DEF Holders
  <2>2. \/ ses' = [ses EXCEPT !.holder = "none"] \/ ses' = [Fault(ses) EXCEPT !.holder = "none"]
        \/ ses' = [Fault(ses) EXCEPT !.holder = "peer"]
    BY SMTT(30) DEF BrokerExpires, BrokerLoses, PeerGoes, Expire, Lose, PeerOpens, PeerLeaves
  <2> QED BY <1>1, <2>1, <2>2
<1> QED BY <1>1, <1>2, GoneIsSound, SessionMoves

\* Every step keeps the session sound.
LEMMA SessionStep == SessionInv /\ [Next]_vars => SessionInv'
<1> SUFFICES ASSUME SessionInv, [Next]_vars PROVE SessionInv'
  OBVIOUS
<1>1. CASE RestartNode
  <2>1. Sound(ses')
    BY <1>1, FaultIsSound, RestartIsSound DEF RestartNode, SessionInv
  <2> QED BY <1>1, <2>1 DEF RestartNode, Idle, SessionInv, Ingesters, Bounded
<1>2. CASE UNCHANGED <<ses, ing>>
  BY <1>2 DEF SessionInv, Bounded
<1> QED
  BY <1>1, <1>2, ClockKeepsSession, IngestKeepsSession, TickKeepsSession, BrokerKeepsSession, Zenon
  DEF Next, vars, HostTurns, Audit, AuditReads, SetStrandedScaleSets, SetParkedScaleSets,
      AuditFails, AuditOthers

\* sessionYieldState.Observe: a streak starts with the tick that finds it, a
\* busy tick restarts it, and only a whole bound of it withdraws the node.
LEMMA ObserveEarns ==
  ASSUME YieldInv, ApplySessionYield
  PROVE  YieldInv' /\ (~yield.yielded /\ yield'.yielded => quiet' >= BlockedFor)
<1> DEFINE y == Streak
<1>1. /\ yield \in Yields /\ host \in Hosts /\ quiet \in Nat /\ BlockedFor \in Nat
      /\ host' = host /\ yield' = Observe
      /\ quiet' = IF host.allowed \/ host.busy THEN 0 ELSE quiet
  BY Positive DEF YieldInv, ApplySessionYield
<1>2. host.allowed \in BOOLEAN /\ host.busy \in BOOLEAN
  BY <1>1 DEF Hosts
<1>3. y \in Yields /\ y.yielded = yield.yielded /\ y.blocked = ~host.allowed
  BY <1>1, <1>2, Zenon DEF Streak, Yields
<1>4. y.blocked /\ ~y.yielded => quiet >= y.age \/ quiet >= BlockedFor
  <2>1. CASE ~yield.observed \/ yield.blocked # ~host.allowed
    <3>1. y.age = 0
      BY <1>1, <2>1 DEF Streak, Yields
    <3> QED BY <1>1, <3>1
  <2>2. CASE ~(~yield.observed \/ yield.blocked # ~host.allowed)
    <3>1. y = yield
      BY <2>2 DEF Streak
    <3> QED BY <3>1 DEF YieldInv, Earned
  <2> QED BY <2>1, <2>2
<1>5. quiet' \in Nat /\ (y.blocked /\ ~host.busy => quiet' = quiet)
  BY <1>1, <1>2, <1>3
<1> HIDE DEF y
<1>6. CASE y.yielded /\ ~y.blocked /\ y.age >= HealthyFor
  <2>1. yield' = [y EXCEPT !.yielded = FALSE, !.age = 0]
    BY <1>1, <1>6 DEF Observe, y
  <2>2. yield' \in Yields /\ yield'.blocked = y.blocked
    BY <1>3, <2>1, Zenon DEF Yields
  <2> QED BY <1>1, <1>3, <1>5, <1>6, <2>2 DEF YieldInv, Earned
<1>7. CASE ~y.yielded /\ y.blocked /\ host.busy
  <2>1. yield' = [y EXCEPT !.age = 0]
    BY <1>1, <1>7 DEF Observe, RestartsClock, y
  <2>2. yield' \in Yields /\ yield'.age = 0 /\ yield'.yielded = y.yielded
    BY <1>3, <2>1 DEF Yields
  <2> QED BY <1>1, <1>3, <1>5, <1>7, <2>2 DEF YieldInv, Earned
<1>8. CASE ~y.yielded /\ y.blocked /\ ~host.busy /\ y.age >= BlockedFor
  <2>1. yield' = [y EXCEPT !.yielded = TRUE, !.age = 0]
    BY <1>1, <1>8 DEF Observe, y
  <2>2. yield' \in Yields /\ yield'.yielded
    BY <1>3, <2>1, Zenon DEF Yields
  <2>3. quiet' >= BlockedFor
    <3>1. y.age \in Nat
      BY <1>3 DEF Yields
    <3> QED BY <1>1, <1>4, <1>5, <1>8, <3>1
  <2> QED BY <1>1, <1>5, <2>2, <2>3 DEF YieldInv, Earned
<1>9. CASE ~(\/ y.yielded /\ ~y.blocked /\ y.age >= HealthyFor
             \/ ~y.yielded /\ y.blocked /\ host.busy
             \/ ~y.yielded /\ y.blocked /\ ~host.busy /\ y.age >= BlockedFor)
  <2>1. yield' = y
    BY <1>1, <1>9 DEF Observe, y
  <2> QED BY <1>1, <1>3, <1>4, <1>5, <1>9, <2>1 DEF YieldInv, Earned
<1> QED BY <1>6, <1>7, <1>8, <1>9

\* Time adds to the streak and to the silence alike.
LEMMA ClockEarns == ASSUME YieldInv, Clock PROVE YieldInv' /\ yield'.yielded = yield.yielded
<1>1. /\ yield \in Yields /\ quiet \in Nat /\ yield.age \in Nat /\ host' = host
      /\ BlockedFor \in Nat /\ StreakBound \in Nat
  BY Positive DEF YieldInv, Yields, Clock
<1>2. /\ yield' = [yield EXCEPT !.age = MinOf(yield.age + 1, StreakBound)]
      /\ quiet' = MinOf(quiet + 1, BlockedFor)
  BY <1>1 DEF Clock, Aged
<1>3. /\ MinOf(yield.age + 1, StreakBound) \in Nat /\ MinOf(yield.age + 1, StreakBound) <= yield.age + 1
      /\ quiet' \in Nat /\ (quiet' = quiet + 1 \/ quiet' >= BlockedFor)
  BY <1>1, <1>2 DEF MinOf
<1>4. /\ yield' \in Yields /\ yield'.age <= yield.age + 1
      /\ yield'.blocked = yield.blocked /\ yield'.yielded = yield.yielded
  BY <1>1, <1>2, <1>3 DEF Yields
<1>5. Earned'
  <2> SUFFICES ASSUME yield'.blocked, ~yield'.yielded
               PROVE  quiet' >= yield'.age \/ quiet' >= BlockedFor
    BY DEF Earned
  <2>1. quiet >= yield.age \/ quiet >= BlockedFor
    BY <1>4 DEF YieldInv, Earned
  <2>2. yield'.age \in Nat
    BY <1>4 DEF Yields
  <2> QED BY <1>1, <1>3, <1>4, <2>1, <2>2
<1> QED BY <1>1, <1>3, <1>4, <1>5 DEF YieldInv

\* Every step keeps the streak earned, and withdraws only on a whole bound.
LEMMA YieldStep ==
  ASSUME YieldInv, [Next]_vars
  PROVE  YieldInv' /\ (~yield.yielded /\ yield'.yielded => quiet' >= BlockedFor)
<1>1. CASE HostTurns
  <2>1. host' \in Hosts
    <3>1. PICK a \in BOOLEAN, b \in BOOLEAN :
            host' = [host EXCEPT !.allowed = a, !.busy = b, !.flips = host.flips + 1]
      BY <1>1, Zenon DEF HostTurns
    <3>2. host \in Hosts /\ host.flips + 1 \in Nat
      BY DEF YieldInv, Hosts
    <3> DEFINE n == host.flips + 1
    <3> HIDE DEF n
    <3>3. host' = [host EXCEPT !.allowed = a, !.busy = b, !.flips = n] /\ n \in Nat
      BY <3>1, <3>2 DEF n
    <3> QED BY <3>2, <3>3, Zenon DEF Hosts
  <2> QED BY <1>1, <2>1 DEF HostTurns, YieldInv, Earned
<1>2. CASE RestartNode
  BY <1>2 DEF RestartNode, YieldInv, NoYield, Yields, Earned
<1>3. CASE UNCHANGED <<yield, host, quiet>>
  BY <1>3 DEF YieldInv, Earned
<1>4. CASE Clock
  BY <1>4, ClockEarns
<1> QED
  BY <1>1, <1>2, <1>3, <1>4, ObserveEarns
  DEF Next, vars, Ingest, HandlePending, HandleBegins, HandleOk, HandleFails, HandleReplaces, Others,
      Audit, AuditReads, SetStrandedScaleSets, SetParkedScaleSets, AuditFails, AuditOthers,
      BrokerExpires, BrokerLoses, PeerGoes

LEMMA Invariance == Spec => []IInv
<1>1. IInv /\ [Next]_vars => IInv'
  BY SessionStep, YieldStep DEF IInv
<1> QED BY InitIInv, <1>1, PTL DEF Spec

\* Whatever polls fail, closes are refused, opens are lost and processes end:
\* a binding that reads suspended is granted no session of its own (Suspend,
\* replace).
THEOREM SuspensionReleases == Spec => []SuspendedWasReleased
<1>1. IInv => SuspendedWasReleased
  BY DEF IInv, SessionInv, Sound, Owned, SuspendedWasReleased
<1> QED BY Invariance, <1>1, PTL

\* Whatever polls succeed in between: the release of one session is refused
\* at most as often as the policy's bound (recordReleaseRefusal).
THEOREM RefusalsEnd == Spec => []RefusalsAreBounded
<1>1. IInv => RefusalsAreBounded
  <2> SUFFICES ASSUME IInv PROVE RefusalsAreBounded
    OBVIOUS
  <2>1. /\ ses.refused \in Nat /\ ses.refusals \in Nat /\ ReleaseRefusalBound \in Nat
        /\ ses.refused <= ses.refusals /\ ses.refusals <= ReleaseRefusalBound
    BY Positive DEF IInv, SessionInv, Sound, Counted, Source, ReleaseRefusalBound
  <2> QED BY <2>1 DEF RefusalsAreBounded
<1> QED BY Invariance, <1>1, PTL

\* However the host's admission and load turn between ticks: a node withdraws
\* only when no tick of the whole bound saw it admit or work
\* (sessionYieldState.Observe).
THEOREM WithdrawalsAreEarned == Spec => WithdrawalIsEarned
<1>1. IInv /\ [Next]_vars => [~yield.yielded /\ yield'.yielded => quiet' >= BlockedFor]_vars
  BY YieldStep DEF IInv
<1> QED BY Invariance, <1>1, PTL DEF Spec, WithdrawalIsEarned
=============================================================================
