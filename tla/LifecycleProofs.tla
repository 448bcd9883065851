--------------------------- MODULE LifecycleProofs ---------------------------
(***************************************************************************)
(* What an instance's executors may do to its guest, for every set of      *)
(* demands, every ladder, every number of faults, with wrong observations  *)
(* and lost projections or without; and, before that, the evidence such an *)
(* executor is started on (Evidence), for every set of instances and every *)
(* policy. Evidence is instantiated with its rows and guests named in the  *)
(* plural; the two specifications share no variable.                       *)
(***************************************************************************)
EXTENDS Lifecycle, Integers, Sequences, TLAPS

CONSTANTS Insts, PowerPolicy, GuestPolicy, RetractedFactor, MaxAge
VARIABLES clock, rows, power, guests, report, readings, probes

Evidence == INSTANCE Evidence WITH row <- rows, guest <- guests

-----------------------------------------------------------------------------
(* Evidence: why the inventory's destructive facts are backed. A run of    *)
(* the accumulator is always exactly the refusals at the end of the log of *)
(* what was observed.                                                      *)

Policies == [count : Nat, window : Nat]
Whats == Evidence!Liveness \cup {"forgotten", "restart"}
Entries == [what : Whats, at : Nat]
EvidenceLogs == Seq(Entries)

EvidenceTypeOK ==
  /\ clock \in Nat \ {0}
  /\ rows \in [Insts -> Evidence!Rows]
  /\ power \in [Insts -> Evidence!Runs] /\ guests \in [Insts -> Evidence!Runs]
  /\ readings \in [Insts -> EvidenceLogs] /\ probes \in [Insts -> EvidenceLogs]

\* A run is the tail of its log: that many refusals, the first of them at since.
RunOK(log, run) ==
  /\ run \in Evidence!Runs
  /\ run.n \in 0 .. Len(log)
  /\ run.n = 0 <=> run.since = 0
  /\ \A j \in (Len(log) - run.n + 1) .. Len(log) : log[j].what = "refused"
  /\ run.n > 0 => log[Len(log) - run.n + 1].at = run.since

RunsOK == \A i \in Insts : RunOK(readings[i], power[i]) /\ RunOK(probes[i], guests[i])

EvidenceInv == EvidenceTypeOK /\ RunsOK /\ Evidence!StoppedIsCorroborated /\ Evidence!DeathIsCorroborated

\* A noted observation is the last entry of its log; the others stay put.
LEMMA NoteAppends ==
  ASSUME NEW log \in EvidenceLogs, NEW what \in Whats, NEW now \in Nat
  PROVE  /\ Evidence!Note(log, what, now) \in EvidenceLogs
         /\ Len(Evidence!Note(log, what, now)) = Len(log) + 1
         /\ Evidence!Note(log, what, now)[Len(log) + 1] = [what |-> what, at |-> now]
         /\ \A j \in 1 .. Len(log) : Evidence!Note(log, what, now)[j] = log[j]
  BY DEF Evidence!Note, EvidenceLogs, Entries

\* GuestLivenessPolicy.Observe keeps a run the tail of its log.
LEMMA FoldKeepsTail ==
  ASSUME NEW log \in EvidenceLogs, NEW run, RunOK(log, run),
         NEW seen \in Evidence!Liveness, NEW now \in Nat \ {0}
  PROVE  RunOK(Evidence!Note(log, seen, now), Evidence!Fold(run, seen, now))
<1> DEFINE new == Evidence!Note(log, seen, now)
<1>1. /\ new \in EvidenceLogs /\ Len(new) = Len(log) + 1 /\ Len(log) \in Nat
      /\ new[Len(log) + 1] = [what |-> seen, at |-> now]
      /\ \A j \in 1 .. Len(log) : new[j] = log[j]
  <2>1. seen \in Whats /\ now \in Nat
    BY DEF Whats
  <2>2. Len(log) \in Nat
    BY DEF EvidenceLogs
  <2> QED BY <2>1, <2>2, NoteAppends
<1> HIDE DEF new
<1>2. CASE seen = "refused"
  <2>1. /\ run.n \in Nat /\ run.since \in Nat /\ run.n <= Len(log)
        /\ Evidence!Fold(run, seen, now).n = run.n + 1
        /\ Evidence!Fold(run, seen, now).since = IF run.since = 0 THEN now ELSE run.since
        /\ Evidence!Fold(run, seen, now) \in Evidence!Runs
    BY <1>2 DEF RunOK, Evidence!Runs, Evidence!Fold
  <2>2. Len(new) - (run.n + 1) + 1 = Len(log) - run.n + 1
    BY <1>1, <2>1
  <2>3. \A j \in (Len(log) - run.n + 1) .. Len(new) : new[j].what = "refused"
    <3> SUFFICES ASSUME NEW j \in (Len(log) - run.n + 1) .. Len(new)
                 PROVE  new[j].what = "refused"
      OBVIOUS
    <3>1. CASE j = Len(log) + 1
      BY <1>1, <1>2, <3>1
    <3>2. CASE j # Len(log) + 1
      BY <1>1, <2>1, <3>2, SMTT(20) DEF RunOK
    <3> QED BY <3>1, <3>2
  <2>4. new[Len(log) - run.n + 1].at = Evidence!Fold(run, seen, now).since
    <3>1. CASE run.n = 0
      BY <1>1, <2>1, <3>1 DEF RunOK
    <3>2. CASE run.n # 0
      <4>1. Len(log) - run.n + 1 \in 1 .. Len(log) /\ run.since # 0
        BY <1>1, <2>1, <3>2 DEF RunOK
      <4> QED BY <1>1, <2>1, <3>2, <4>1 DEF RunOK
    <3> QED BY <3>1, <3>2
  <2>5. Evidence!Fold(run, seen, now).since # 0
    BY <2>1
  <2> QED BY <1>1, <2>1, <2>2, <2>3, <2>4, <2>5 DEF RunOK, new
<1>3. CASE seen # "refused"
  BY <1>1, <1>3 DEF RunOK, Evidence!Fold, Evidence!NoRun, Evidence!Runs, new
<1> QED BY <1>2, <1>3

\* A forgotten run is the empty tail of any log.
LEMMA ForgottenIsTail ==
  ASSUME NEW log \in EvidenceLogs
  PROVE  RunOK(log, Evidence!NoRun)
  BY DEF RunOK, Evidence!NoRun, Evidence!Runs, EvidenceLogs

\* A confirmed run whose last observation is no older than the instant it is
\* judged at is an unbroken row of that many observations over the window.
LEMMA ConfirmedIsUnbroken ==
  ASSUME NEW log \in EvidenceLogs, NEW run, RunOK(log, run), NEW policy, NEW now \in Nat,
         policy.count \in Nat, policy.window \in Nat,
         Evidence!Confirmed(policy, run, now),
         log[Len(log)].at >= now
  PROVE  \E n \in 1 .. Len(log) : n >= policy.count /\ Evidence!Unbroken(log, n, policy.window)
<1>1. /\ run.n \in 1 .. Len(log) /\ run.n >= policy.count /\ run.n \in Nat
      /\ run.since \in Nat /\ now - run.since >= policy.window
  BY DEF RunOK, Evidence!Runs, Evidence!Confirmed, Evidence!Enabled
<1>2. log[Len(log) - run.n + 1].at = run.since
  BY <1>1 DEF RunOK
<1>3. log[Len(log)].at \in Nat
  <2>1. Len(log) \in 1 .. Len(log)
    BY <1>1 DEF EvidenceLogs
  <2>2. log[Len(log)] \in Entries
    BY <2>1 DEF EvidenceLogs
  <2> QED BY <2>2 DEF Entries
<1>4. Evidence!Unbroken(log, run.n, policy.window)
  BY <1>1, <1>2, <1>3 DEF Evidence!Unbroken, RunOK
<1> QED BY <1>1, <1>4

-----------------------------------------------------------------------------
EvidenceBounds == PowerPolicy \in Policies /\ GuestPolicy \in Policies /\ RetractedFactor \in Nat

LEMMA EvidenceInit == Evidence!Init => EvidenceInv
<1> SUFFICES ASSUME Evidence!Init PROVE EvidenceInv
  OBVIOUS
<1>1. EvidenceTypeOK
  BY DEF Evidence!Init, EvidenceTypeOK, EvidenceLogs, Evidence!Rows, Evidence!NoRow, Evidence!Runs, Evidence!NoRun
<1>2. \A i \in Insts : readings[i] \in EvidenceLogs /\ probes[i] \in EvidenceLogs
  BY <1>1 DEF EvidenceTypeOK
<1>3. \A i \in Insts : power[i] = Evidence!NoRun /\ guests[i] = Evidence!NoRun
  BY DEF Evidence!Init
<1>4. RunsOK
  BY <1>2, <1>3, ForgottenIsTail DEF RunsOK
<1>5. ~report.fresh
  BY DEF Evidence!Init, Evidence!NoReport
<1>6. Evidence!StoppedIsCorroborated /\ Evidence!DeathIsCorroborated
  BY <1>5 DEF Evidence!StoppedIsCorroborated, Evidence!DeathIsCorroborated
<1> QED BY <1>1, <1>4, <1>6 DEF EvidenceInv

\* The fields of a published fact the two properties read.
LEMMA FactFields ==
  ASSUME NEW in, NEW i, NEW runs, NEW cands, NEW now
  PROVE  /\ Evidence!Fact(in, i, runs, cands, now).state = rows[i].state
         /\ Evidence!Fact(in, i, runs, cands, now).retracted = rows[i].retracted
         /\ Evidence!Fact(in, i, runs, cands, now).power = Evidence!PowerOf(in, i, runs, now)
         /\ Evidence!Fact(in, i, runs, cands, now).guest =
              IF Evidence!Probing(cands) /\ i \in cands
              THEN Evidence!Fold(guests[i], in.probe[i], now) ELSE Evidence!NoRun
  BY Zenon DEF Evidence!Fact

\* A published inventory: both runs are folded and every fact it states is backed.
LEMMA PublishKeeps ==
  ASSUME EvidenceBounds, EvidenceInv, NEW in \in Evidence!Inputs, NEW now \in Nat, Evidence!Observe(in, now), Evidence!Usable(in)
  PROVE  EvidenceInv'
<1> DEFINE runs == Evidence!PowerRuns(in, now)
           cands == Evidence!Candidates(in, runs, now)
<1>1. Evidence!Publish(in, now, runs, cands) /\ clock' = now /\ rows' = rows /\ now >= clock
  BY DEF Evidence!Observe
<1>2. now \in Nat \ {0} /\ clock \in Nat /\ clock # 0
  BY <1>1 DEF EvidenceInv, EvidenceTypeOK
<1>3. ASSUME NEW i \in Evidence!Tracked
      PROVE  /\ i \in Insts
             /\ Evidence!PowerSignal(Evidence!RawPower(in, i)) \in Evidence!Liveness
             /\ in.probe[i] \in Evidence!Liveness
             /\ Evidence!RawPower(in, i) \in Evidence!Powers
  BY DEF Evidence!Tracked, Evidence!PowerSignal, Evidence!RawPower, Evidence!Inputs, Evidence!Liveness, Evidence!Powers
<1>4. cands \subseteq Evidence!Tracked
  BY Zenon DEF Evidence!Candidates
<1> HIDE DEF runs, cands
<1>5. ASSUME NEW i \in Insts
      PROVE  /\ readings'[i] \in EvidenceLogs /\ RunOK(readings'[i], power'[i])
             /\ readings'[i][Len(readings'[i])].at = now
             /\ power'[i] = runs[i]
  <2>1. readings[i] \in EvidenceLogs /\ RunOK(readings[i], power[i])
    BY DEF EvidenceInv, EvidenceTypeOK, RunsOK
  <2>2. power'[i] = runs[i]
    BY <1>1 DEF Evidence!Publish
  <2>3. CASE i \in Evidence!Tracked
    <3> DEFINE seen == Evidence!PowerSignal(Evidence!RawPower(in, i))
    <3>1. seen \in Evidence!Liveness /\ seen \in Whats
      BY <1>3, <2>3 DEF Whats
    <3>2. readings'[i] = Evidence!Note(readings[i], seen, now) /\ runs[i] = Evidence!Fold(power[i], seen, now)
      BY <1>1, <2>3, Zenon DEF Evidence!Publish, runs, Evidence!PowerRuns
    <3> HIDE DEF seen
    <3>3. RunOK(readings'[i], power'[i])
      BY <1>2, <2>1, <2>2, <3>1, <3>2, FoldKeepsTail
    <3>4. /\ readings'[i] \in EvidenceLogs
          /\ Len(readings'[i]) = Len(readings[i]) + 1
          /\ readings'[i][Len(readings[i]) + 1] = [what |-> seen, at |-> now]
      BY <2>1, <3>1, <3>2, NoteAppends
    <3> QED BY <2>2, <3>3, <3>4
  <2>4. CASE i \notin Evidence!Tracked
    <3>1. readings'[i] = Evidence!Note(readings[i], "forgotten", now) /\ runs[i] = Evidence!NoRun
      BY <1>1, <2>4, Zenon DEF Evidence!Publish, runs, Evidence!PowerRuns
    <3>2. "forgotten" \in Whats
      BY DEF Whats
    <3>3. /\ readings'[i] \in EvidenceLogs
          /\ Len(readings'[i]) = Len(readings[i]) + 1
          /\ readings'[i][Len(readings[i]) + 1] = [what |-> "forgotten", at |-> now]
      BY <2>1, <3>1, <3>2, NoteAppends
    <3> QED BY <2>2, <3>1, <3>3, ForgottenIsTail
  <2> QED BY <2>3, <2>4
<1>6. ASSUME NEW i \in Insts
      PROVE  /\ probes'[i] \in EvidenceLogs /\ RunOK(probes'[i], guests'[i])
             /\ Evidence!Probing(cands) /\ i \in cands =>
                  /\ probes'[i][Len(probes'[i])].at = now
                  /\ guests'[i] = Evidence!Fold(guests[i], in.probe[i], now)
  <2>1. probes[i] \in EvidenceLogs /\ RunOK(probes[i], guests[i])
    BY DEF EvidenceInv, EvidenceTypeOK, RunsOK
  <2>2. CASE ~Evidence!Probing(cands)
    <3>1. probes'[i] = probes[i] /\ guests'[i] = guests[i]
      BY <1>1, <2>2 DEF Evidence!Publish, Evidence!GuestRuns
    <3> QED BY <2>1, <2>2, <3>1
  <2>3. CASE Evidence!Probing(cands) /\ i \in cands
    <3>1. in.probe[i] \in Evidence!Liveness /\ in.probe[i] \in Whats
      BY <1>3, <1>4, <2>3 DEF Whats
    <3>2. /\ probes'[i] = Evidence!Note(probes[i], in.probe[i], now)
          /\ guests'[i] = Evidence!Fold(guests[i], in.probe[i], now)
      BY <1>1, <2>3, Zenon DEF Evidence!Publish, Evidence!GuestRuns
    <3>3. RunOK(probes'[i], guests'[i])
      BY <1>2, <2>1, <3>1, <3>2, FoldKeepsTail
    <3>4. /\ probes'[i] \in EvidenceLogs
          /\ Len(probes'[i]) = Len(probes[i]) + 1
          /\ probes'[i][Len(probes[i]) + 1] = [what |-> in.probe[i], at |-> now]
      BY <2>1, <3>1, <3>2, NoteAppends
    <3> QED BY <3>2, <3>3, <3>4
  <2>4. CASE Evidence!Probing(cands) /\ i \notin cands
    <3>1. /\ probes'[i] = Evidence!Note(probes[i], "forgotten", now)
          /\ guests'[i] = Evidence!NoRun
      BY <1>1, <2>4 DEF Evidence!Publish, Evidence!GuestRuns
    <3>2. "forgotten" \in Whats
      BY DEF Whats
    <3>3. probes'[i] \in EvidenceLogs
      BY <2>1, <3>1, <3>2, NoteAppends, ZenonT(30)
    <3> QED BY <2>4, <3>1, <3>3, ForgottenIsTail
  <2> QED BY <2>2, <2>3, <2>4
<1>7. RunsOK'
  BY <1>5, <1>6 DEF RunsOK
<1>8. EvidenceTypeOK'
  <2>1. \A i \in Insts : power'[i] \in Evidence!Runs /\ guests'[i] \in Evidence!Runs
    BY <1>7 DEF RunsOK, RunOK
  <2>2. power' = [i \in Insts |-> power'[i]]
    BY <1>1, Zenon DEF Evidence!Publish, runs, Evidence!PowerRuns
  <2>3. guests' = [i \in Insts |-> guests'[i]]
    BY <1>1, Zenon DEF Evidence!Publish, Evidence!GuestRuns, EvidenceInv, EvidenceTypeOK
  <2>4. readings' = [i \in Insts |-> readings'[i]] /\ probes' = [i \in Insts |-> probes'[i]]
    BY <1>1 DEF Evidence!Publish
  <2>5. power' \in [Insts -> Evidence!Runs]
    BY <2>1, <2>2
  <2>6. guests' \in [Insts -> Evidence!Runs]
    BY <2>1, <2>3
  <2>7. readings' \in [Insts -> EvidenceLogs] /\ probes' \in [Insts -> EvidenceLogs]
    BY <1>5, <1>6, <2>4
  <2>8. rows' \in [Insts -> Evidence!Rows] /\ clock' \in Nat \ {0}
    BY <1>1, <1>2 DEF EvidenceInv, EvidenceTypeOK
  <2> QED BY <2>5, <2>6, <2>7, <2>8 DEF EvidenceTypeOK
<1>9. ASSUME NEW i \in Insts
      PROVE  report'.fact[i] = IF i \in Evidence!Tracked THEN Evidence!Fact(in, i, runs, cands, now) ELSE Evidence!NoFact
  BY <1>1, Zenon DEF Evidence!Publish
<1>10. report'.at = clock
  BY <1>1 DEF Evidence!Publish
<1>11. Evidence!StoppedIsCorroborated'
  <2> SUFFICES ASSUME NEW i \in Insts, report'.fact[i].power = "stopped",
                      report'.fact[i].state \notin Evidence!TearingDown
               PROVE  \E n \in 1 .. Len(readings'[i]) :
                        /\ n >= PowerPolicy.count
                        /\ Evidence!Unbroken(readings'[i], n,
                                    Evidence!PowerBound(report'.fact[i].retracted).window)
    BY DEF Evidence!StoppedIsCorroborated
  <2> DEFINE bound == Evidence!PowerBound(rows[i].retracted)
  <2>1. i \in Evidence!Tracked
    BY <1>9 DEF Evidence!NoFact
  <2>2. /\ report'.fact[i].retracted = rows[i].retracted
        /\ report'.fact[i].state = rows[i].state
        /\ report'.fact[i].power = Evidence!CorroboratedPower(Evidence!RawPower(in, i), rows[i], runs[i], now)
    <3>1. report'.fact[i] = Evidence!Fact(in, i, runs, cands, now)
      BY <1>9, <2>1, Zenon
    <3> QED BY <3>1, FactFields DEF Evidence!PowerOf
  <2>3. Evidence!Confirmed(bound, runs[i], now)
    BY <2>2, Zenon DEF Evidence!CorroboratedPower
  <2>4. bound.count = PowerPolicy.count /\ bound.count \in Nat /\ bound.window \in Nat
    <3>1. PowerPolicy.count \in Nat /\ PowerPolicy.window \in Nat /\ RetractedFactor \in Nat
      BY DEF EvidenceBounds, Policies
    <3>2. CASE rows[i].retracted
      <4>1. bound = [PowerPolicy EXCEPT !.window = @ * RetractedFactor]
        BY <3>2 DEF Evidence!PowerBound
      <4>2. PowerPolicy = [count |-> PowerPolicy.count, window |-> PowerPolicy.window]
        BY DEF EvidenceBounds, Policies
      <4>3. PowerPolicy.window * RetractedFactor \in Nat
        BY <3>1
      <4>4. bound.count = PowerPolicy.count /\ bound.window = PowerPolicy.window * RetractedFactor
        BY <4>1, <4>2
      <4> QED BY <3>1, <4>3, <4>4
    <3>3. CASE ~rows[i].retracted
      BY <3>1, <3>3 DEF Evidence!PowerBound
    <3> QED BY <3>2, <3>3, Zenon
  <2> HIDE DEF bound
  <2>5. /\ readings'[i] \in EvidenceLogs /\ RunOK(readings'[i], runs[i])
        /\ readings'[i][Len(readings'[i])].at >= now
    BY <1>2, <1>5
  <2>6. \E n \in 1 .. Len(readings'[i]) :
          n >= bound.count /\ Evidence!Unbroken(readings'[i], n, bound.window)
    BY <1>2, <2>3, <2>4, <2>5, ConfirmedIsUnbroken
  <2> QED BY <2>2, <2>4, <2>6, Zenon DEF bound
<1>12. Evidence!DeathIsCorroborated'
  <2> SUFFICES ASSUME NEW i \in Insts, Evidence!GuestUnresponsive(i)'
               PROVE  \E n \in 1 .. Len(probes'[i]) :
                        n >= GuestPolicy.count /\ Evidence!Unbroken(probes'[i], n, GuestPolicy.window)
    BY DEF Evidence!DeathIsCorroborated
  <2>1. /\ report'.fact[i].state = "running"
        /\ Evidence!Confirmed(GuestPolicy, report'.fact[i].guest, clock)
    BY <1>10 DEF Evidence!GuestUnresponsive
  <2>2. GuestPolicy.count \in Nat /\ GuestPolicy.window \in Nat
    BY DEF EvidenceBounds, Policies
  <2>3. i \in Evidence!Tracked
    BY <1>9, <2>1 DEF Evidence!NoFact
  <2>4. report'.fact[i].guest = IF Evidence!Probing(cands) /\ i \in cands
                                THEN Evidence!Fold(guests[i], in.probe[i], now) ELSE Evidence!NoRun
    <3>1. report'.fact[i] = Evidence!Fact(in, i, runs, cands, now)
      BY <1>9, <2>3
    <3> QED BY <3>1, FactFields
  <2>5. report'.fact[i].guest # Evidence!NoRun
    BY <2>1, <2>2 DEF Evidence!Confirmed, Evidence!Enabled, Evidence!NoRun
  <2>6. Evidence!Probing(cands) /\ i \in cands
    BY <2>4, <2>5
  <2>7. /\ probes'[i] \in EvidenceLogs /\ RunOK(probes'[i], guests'[i])
        /\ probes'[i][Len(probes'[i])].at >= clock
        /\ report'.fact[i].guest = guests'[i]
    BY <1>1, <1>2, <1>6, <2>4, <2>6
  <2> QED BY <1>2, <2>1, <2>2, <2>7, ConfirmedIsUnbroken
<1> QED BY <1>7, <1>8, <1>11, <1>12 DEF EvidenceInv

LEMMA EvidenceStep == ASSUME EvidenceBounds PROVE EvidenceInv /\ [Evidence!Next]_(Evidence!vars) => EvidenceInv'
<1> SUFFICES ASSUME EvidenceInv, [Evidence!Next]_(Evidence!vars) PROVE EvidenceInv'
  OBVIOUS
<1> USE DEF EvidenceInv
<1>1. ASSUME NEW in \in Evidence!Inputs, NEW now \in Nat, Evidence!Observe(in, now) PROVE EvidenceInv'
  <2>1. CASE Evidence!Usable(in)
    BY <1>1, <2>1, PublishKeeps
  <2>2. CASE ~Evidence!Usable(in)
    <3>1. /\ clock' \in Nat \ {0} /\ ~report'.fresh
          /\ UNCHANGED <<rows, power, guests, readings, probes>>
      BY <1>1, <2>2 DEF Evidence!Observe, EvidenceTypeOK, Evidence!NoReport
    <3>2. EvidenceTypeOK' /\ RunsOK'
      BY <3>1 DEF EvidenceTypeOK, RunsOK
    <3> QED BY <3>1, <3>2 DEF Evidence!StoppedIsCorroborated, Evidence!DeathIsCorroborated
  <2> QED BY <2>1, <2>2
<1>2. ASSUME UNCHANGED <<power, guests, report, readings, probes>>, EvidenceTypeOK' PROVE EvidenceInv'
  BY <1>2, Zenon DEF RunsOK, Evidence!StoppedIsCorroborated, Evidence!DeathIsCorroborated, Evidence!GuestUnresponsive
<1>3. ASSUME NEW i \in Insts, NEW r \in Evidence!Rows, Evidence!Move(i, r) PROVE EvidenceInv'
  BY <1>2, <1>3 DEF Evidence!Move, EvidenceTypeOK
<1>4. ASSUME NEW now \in Nat, Evidence!Pass(now) PROVE EvidenceInv'
  BY <1>2, <1>4 DEF Evidence!Pass, EvidenceTypeOK
<1>5. ASSUME Evidence!Restart PROVE EvidenceInv'
  <2>1. "restart" \in Whats /\ clock \in Nat
    BY DEF Whats, EvidenceTypeOK
  <2>2. \A i \in Insts : /\ readings'[i] \in EvidenceLogs /\ probes'[i] \in EvidenceLogs
                         /\ power'[i] = Evidence!NoRun /\ guests'[i] = Evidence!NoRun
    BY <1>5, <2>1, NoteAppends, Zenon DEF Evidence!Restart, EvidenceTypeOK
  <2>3. EvidenceTypeOK'
    BY <1>5, <2>2 DEF Evidence!Restart, EvidenceTypeOK, Evidence!Runs, Evidence!NoRun
  <2>4. RunsOK'
    BY <2>2, ForgottenIsTail DEF RunsOK
  <2>5. ~report'.fresh
    BY <1>5 DEF Evidence!Restart, Evidence!NoReport
  <2> QED BY <2>3, <2>4, <2>5 DEF Evidence!StoppedIsCorroborated, Evidence!DeathIsCorroborated
<1>6. CASE UNCHANGED Evidence!vars
  BY <1>2, <1>6 DEF Evidence!vars, EvidenceTypeOK
<1> QED BY <1>1, <1>3, <1>4, <1>5, <1>6 DEF Evidence!Next

\* Whatever the readings, outages, restarts and row changes: no inventory says
\* that a live instance is powered off on less than the row of readings its
\* bound asks for (CorroboratedPower).
THEOREM StoppedIsBacked == ASSUME EvidenceBounds PROVE Evidence!Spec => []Evidence!StoppedIsCorroborated
<1>1. EvidenceInv => Evidence!StoppedIsCorroborated
  BY DEF EvidenceInv
<1> QED BY <1>1, EvidenceInit, EvidenceStep, PTL DEF Evidence!Spec

\* No guest is called dead on less than an unbroken row of refused probes over
\* the configured window (guestUnresponsive).
THEOREM DeathIsBacked == ASSUME EvidenceBounds PROVE Evidence!Spec => []Evidence!DeathIsCorroborated
<1>1. EvidenceInv => Evidence!DeathIsCorroborated
  BY DEF EvidenceInv
<1> QED BY <1>1, EvidenceInit, EvidenceStep, PTL DEF Evidence!Spec

-----------------------------------------------------------------------------
(* Lifecycle: the executors of an instance. None of the properties is      *)
(* inductive. What carries them is who may act: a drain executor always    *)
(* works on the row as it is, a provision executor that has lost its row   *)
(* cannot write it (Held); a job executes only behind a registration and   *)
(* uses it up (Registered); and each step of a teardown leaves behind what *)
(* the next one relies on (Quenched).                                      *)

Torn == {"deregistering", "stopping", "deleted"}
Provisionable == {"planned", "registering", "online_idle"} \cup Provisioning

(* Which row an executor works on: the drain executor on the row itself,   *)
(* the provision executor on it as long as its compare-and-set can win.    *)
Held == /\ exec.kind = "none" => exec.pc = "act"
        /\ Drains => /\ exec.fresh /\ inst.state = exec.state /\ inst.state \in TearingDown
                     /\ exec.pc \in {"act", "stop", "dereg", "confirm", "cas", "delete"}
        /\ Provisions => /\ exec.state \in Provisionable /\ inst.state \notin Torn
                         /\ exec.fresh => inst.state = exec.state
                         /\ exec.pc \in {"act", "jit", "bootstrap", "cas"}

(* A job executes behind the registration it was handed to, one at a time, *)
(* and a fresh registration has served none.                               *)
Registered == /\ \A j \in Jobs : Serving(j) => reg /\ guest.spent
              /\ \A j, k \in Jobs : Serving(j) /\ Serving(k) => j = k
              /\ exec.pc = "jit" => ~reg
              /\ exec.pc = "bootstrap" => ~guest.agent /\ \A j \in Jobs : ~Serving(j)

(* What each step of a teardown has established. *)
Quenched == /\ inst.state \in Torn => ~reg
            /\ Drains /\ exec.pc = "confirm" => ~reg
            /\ Drains /\ At("cas", "draining") => ~reg
            /\ Drains /\ At("stop", "draining") => inst.phase \in {"occupancy", "guest"}
            /\ Drains /\ At("cas", "stopping") => guest.vm = "absent"
            /\ inst.state = "deleted" => guest.vm = "absent"

IInv == TypeOK /\ Held /\ Registered /\ Quenched

USE LifecycleAssumption

----------------------------------------------------------------------------
LEMMA Zero == 0 \in 0 .. 3 * Rung /\ 0 \in 0 .. MaxFaults
BY LifecycleAssumption

LEMMA NoExecutor == /\ NoExec \in Executor /\ NoExec.kind = "none" /\ NoExec.pc = "act"
                    /\ NoExec.fresh = TRUE /\ NoExec.state = "planned"
BY DEF NoExec, Executor, States

----------------------------------------------------------------------------
(* The world: GitHub hands out and ends jobs, guests die. *)

LEMMA WorldQuiet == World => Quiet
BY DEF World, StartHere, StartElsewhere, FinishHere, EndElsewhere,
       CommunicationLost, PowerOff, Hang, GuestDies

LEMMA WorldTypes ==
  ASSUME TypeOK, World
  PROVE  TypeOK'
<1>1. Quiet
  BY WorldQuiet
<1>2. guest' \in Guest /\ reg' \in BOOLEAN
  BY Zenon DEF World, StartHere, StartElsewhere, FinishHere, EndElsewhere,
       CommunicationLost, PowerOff, Hang, GuestDies, TypeOK, Guest
<1>3. job' \in [Jobs -> {"queued", "here", "elsewhere"} \cup Ended]
  BY DEF World, StartHere, StartElsewhere, FinishHere, EndElsewhere,
       CommunicationLost, PowerOff, Hang, GuestDies, TypeOK, Ended
<1>4. faults' \in 0 .. MaxFaults
  BY DEF World, StartHere, StartElsewhere, FinishHere, EndElsewhere,
       CommunicationLost, PowerOff, Hang, GuestDies, TypeOK, Fault
<1>. QED
  BY <1>1, <1>2, <1>3, <1>4 DEF Quiet, TypeOK

(* Only a job handed to this runner starts to execute here, and it needs a *)
(* registration no job has used.                                           *)
LEMMA WorldStep ==
  ASSUME IInv, World
  PROVE  IInv'
<1>. USE DEF IInv
<1>1. TypeOK' /\ Quiet
  BY WorldTypes, WorldQuiet
<1>2. Held'
  BY <1>1 DEF Held, Quiet, Drains, Provisions
<1>3. ASSUME NEW j \in Jobs, StartHere(j)
      PROVE  Registered' /\ Quenched'
  <2>1. /\ guest'.spent /\ guest'.vm = guest.vm /\ reg /\ guest.agent
        /\ \A k \in Jobs : ~Serving(k)
    BY <1>3 DEF StartHere, Registered, TypeOK, Guest
  <2>2. \A k \in Jobs : Serving(k)' => k = j
    BY <1>3, <2>1 DEF StartHere, Serving, TypeOK
  <2>. QED
    BY <1>1, <1>3, <2>1, <2>2 DEF StartHere, Registered, Quenched, Quiet, Drains, At
<1>4. ASSUME NEW j \in Jobs, FinishHere(j)
      PROVE  Registered' /\ Quenched'
  <2>1. guest'.vm = guest.vm /\ ~reg' /\ ~guest'.agent
    BY <1>4 DEF FinishHere, TypeOK, Guest
  <2>2. \A k \in Jobs : ~Serving(k)'
    BY <1>4 DEF FinishHere, Serving, Registered, TypeOK
  <2>. QED
    BY <1>1, <2>1, <2>2 DEF Registered, Quenched, Quiet, Drains, At
<1>5. CASE \E j \in Jobs : StartElsewhere(j) \/ EndElsewhere(j) \/ CommunicationLost(j)
  <2>1. UNCHANGED <<guest, reg>> /\ \A k \in Jobs : Serving(k)' => Serving(k)
    BY <1>5 DEF StartElsewhere, EndElsewhere, CommunicationLost, Serving, TypeOK
  <2>. QED
    BY <1>1, <1>2, <2>1 DEF Registered, Quenched, Quiet, Drains, At
<1>6. CASE PowerOff \/ Hang \/ GuestDies
  <2>1. /\ UNCHANGED <<job, reg>> /\ guest'.spent = guest.spent
        /\ guest'.agent => guest.agent
        /\ guest.vm = "absent" => guest'.vm = "absent"
    BY <1>6, Zenon DEF PowerOff, Hang, GuestDies, Alive, TypeOK, Guest
  <2>. QED
    BY <1>1, <1>2, <2>1 DEF Registered, Quenched, Quiet, Drains, At, Serving
<1>. QED
  BY <1>1, <1>2, <1>3, <1>4, <1>5, <1>6 DEF World

----------------------------------------------------------------------------
(* The demand projection and the recovery plans: transactions of others on *)
(* the row. They leave the world alone, and move only rows that are not    *)
(* being torn down.                                                        *)

LEMMA SameRow ==
  ASSUME IInv, TypeOK', UNCHANGED <<exec, guest, reg, job>>,
         inst'.state = inst.state, inst'.phase = inst.phase
  PROVE  IInv'
BY DEF IInv, Held, Registered, Quenched, Drains, Provisions, At, Serving

LEMMA MovedRow ==
  ASSUME IInv, inst' \in Row, UNCHANGED <<guest, reg, job>>,
         inst.state \notin TearingDown \cup {"deleted"}, inst'.state \notin Torn,
         exec' = [exec EXCEPT !.fresh = exec.kind = "none"]
  PROVE  exec' \in Executor /\ Held' /\ Registered' /\ Quenched'
<1>1. /\ exec' \in Executor /\ exec'.kind = exec.kind /\ exec'.pc = exec.pc
      /\ exec'.state = exec.state /\ (exec'.fresh => exec.kind = "none")
  BY Zenon DEF IInv, TypeOK, Executor
<1>2. ~Drains /\ inst.state \notin Torn
  BY DEF IInv, Held, Torn, TearingDown
<1>3. Held'
  BY <1>1, <1>2 DEF IInv, Held, Drains, Provisions
<1>4. Registered'
  BY <1>1 DEF IInv, Registered, Serving
<1>5. Quenched'
  BY <1>1, <1>2 DEF Quenched, Drains, At, Torn
<1>. QED
  BY <1>1, <1>3, <1>4, <1>5

LEMMA IngestStep ==
  ASSUME IInv, NEW j \in Jobs, Ingest(j)
  PROVE  IInv'
<1>1. ASSUME NEW event \in Reports(j)
      PROVE  event \in Record
  BY <1>1 DEF Reports, Record, Assigned, Started, Completed, IInv, TypeOK, Ended
<1>2. \A event \in Record : mergeDemandEvent(rec[j], event) \in Record
  BY DEF mergeDemandEvent, Record, IInv, TypeOK
<1>3. rec' \in [Jobs -> Record]
  BY <1>1, <1>2 DEF Ingest, IInv, TypeOK
<1>4. TypeOK'
  BY <1>3 DEF Ingest, IInv, TypeOK, world
<1>. QED
  BY <1>4, SameRow DEF Ingest, world

LEMMA EnterDrainStep ==
  ASSUME IInv, NEW phase \in Phases, EnterDrain(phase), Rest,
         proj' \in Jobs \cup {NoJob}, inst.state \notin TearingDown \cup {"deleted"}
  PROVE  IInv'
<1>1. inst' \in Row /\ inst'.state = "draining"
  BY Zenon DEF EnterDrain, IInv, TypeOK, Row, States, TearingDown
<1>2. exec' \in Executor /\ Held' /\ Registered' /\ Quenched'
  BY <1>1, MovedRow DEF EnterDrain, Rest, world, Torn
<1>. QED
  BY <1>1, <1>2 DEF IInv, TypeOK, EnterDrain, Rest, world

LEMMA ProjectStep ==
  ASSUME IInv, Project
  PROVE  IInv'
<1>. USE DEF IInv
<1>1. proj \in Jobs
  BY DEF Project, TypeOK
<1>2. CASE AlignSwap \/ AlignRebind
  <2>1. PICK d \in Jobs : inst' = [inst EXCEPT !.demand = d]
    BY <1>1, <1>2 DEF AlignSwap, AlignRebind, Swappable, TypeOK
  <2>2. /\ inst' \in Row /\ inst'.state = inst.state /\ inst'.phase = inst.phase
        /\ inst.demand \in Jobs
    BY <2>1 DEF TypeOK, Row
  <2>3. TypeOK'
    BY <1>2, <2>2 DEF AlignSwap, AlignRebind, Rest, world, TypeOK
  <2>. QED
    BY <1>2, <2>2, <2>3, SameRow DEF AlignSwap, AlignRebind, Rest, world
<1>3. CASE ProjectAdvance
  <2>1. PICK s \in {"online_idle", "assigned", "running"} : MoveRow(s)
    BY <1>3 DEF ProjectAdvance
  <2>2. inst' \in Row /\ inst'.state = s
    BY <2>1 DEF MoveRow, TypeOK, Row, States
  <2>3. exec' \in Executor /\ Held' /\ Registered' /\ Quenched'
    BY <1>3, <2>1, <2>2, MovedRow
       DEF ProjectAdvance, MoveRow, Rest, world, Torn, TearingDown
  <2>. QED
    BY <1>1, <1>3, <2>2, <2>3 DEF ProjectAdvance, EndProjection, Rest, world, TypeOK
<1>4. CASE ProjectDrain
  BY <1>4, EnterDrainStep DEF ProjectDrain, EndProjection, Phases
<1>5. CASE ProjectEnds \/ ProjectionLost
  <2>1. TypeOK'
    BY <1>5 DEF ProjectEnds, ProjectionLost, EndProjection, Fault, Rest, world, TypeOK
  <2>. QED
    BY <1>5, <2>1, SameRow DEF ProjectEnds, ProjectionLost, Rest, world
<1>. QED
  BY <1>2, <1>3, <1>4, <1>5 DEF Project

LEMMA PlanStep ==
  ASSUME IInv, DrainCompletedRunners \/ \E phase \in Recoveries : PlanDrain(phase)
  PROVE  IInv'
<1>1. CASE DrainCompletedRunners
  BY <1>1, EnterDrainStep DEF DrainCompletedRunners, Phases, TearingDown, IInv, TypeOK
<1>2. ASSUME NEW phase \in Recoveries, PlanDrain(phase)
      PROVE  IInv'
  BY <1>2, EnterDrainStep, Zenon DEF PlanDrain, Phases, TearingDown, Provisioning, IInv, TypeOK
<1>. QED
  BY <1>1, <1>2

----------------------------------------------------------------------------
(* The provision executor: it never acts on a row that has left draining,  *)
(* and it registers the runner only after it has taken back whatever       *)
(* registration there was.                                                 *)

LEMMA LeaveStep ==
  ASSUME IInv, TypeOK', Leave, UNCHANGED <<inst, reg, job>>,
         guest'.spent = guest.spent, guest.vm = "absent" => guest'.vm = "absent"
  PROVE  IInv'
BY NoExecutor DEF IInv, Leave, Held, Registered, Quenched, Drains, Provisions, At, Serving

LEMMA ProvisionTypes ==
  ASSUME TypeOK, Provision
  PROVE  TypeOK'
<1>. USE DEF TypeOK
<1>1. exec' \in Executor
  <2>1. CASE BeginProvision
    BY <2>1 DEF BeginProvision, Load, Executor, Row
  <2>2. CASE BootstrapFails \/ ProvisionBlocked
    BY <2>2, NoExecutor, Zenon DEF BootstrapFails, ProvisionBlocked, Leave
  <2>3. CASE ~(BeginProvision \/ BootstrapFails \/ ProvisionBlocked)
    <3>1. \E q \in {"jit", "bootstrap", "cas"} : Goto(q)
      BY <2>3 DEF Provision, Create, StartVM, Ready, ResetRegistration,
           AcquireAndGenerateJIT, Bootstrap, WaitRegistered, RepairIdle
    <3>. QED
      BY <3>1 DEF Goto, Executor
  <2>. QED
    BY <2>1, <2>2, <2>3
<1>2. guest' \in Guest
  <2>1. CASE Create \/ StartVM \/ AcquireAndGenerateJIT \/ Bootstrap
    BY <2>1, Zenon DEF Create, StartVM, AcquireAndGenerateJIT, Bootstrap, Guest
  <2>2. CASE BootstrapFails
    <3>1. Alive \in BOOLEAN
      BY DEF Alive, Guest
    <3>. QED
      BY <2>2, <3>1 DEF BootstrapFails, Guest
  <2>3. CASE ~(Create \/ StartVM \/ AcquireAndGenerateJIT \/ Bootstrap \/ BootstrapFails)
    BY <2>3 DEF Provision, BeginProvision, Ready, ResetRegistration, WaitRegistered,
         RepairIdle, ProvisionBlocked, world
  <2>. QED
    BY <2>1, <2>2, <2>3
<1>3. reg' \in BOOLEAN /\ UNCHANGED <<inst, rec, proj, sibling, parked, stops, job>>
  BY Zenon DEF Provision, BeginProvision, Create, StartVM, Ready, ResetRegistration,
         AcquireAndGenerateJIT, Bootstrap, BootstrapFails, WaitRegistered,
         RepairIdle, ProvisionBlocked, Stay, world
<1>4. faults' \in 0 .. MaxFaults
  <2>1. CASE BootstrapFails
    BY <2>1 DEF BootstrapFails, Fault
  <2>2. CASE ~BootstrapFails
    BY <2>2 DEF Provision, BeginProvision, Create, StartVM, Ready, ResetRegistration,
         AcquireAndGenerateJIT, Bootstrap, WaitRegistered, RepairIdle,
         ProvisionBlocked, Stay
  <2>. QED
    BY <2>1, <2>2
<1>. QED
  BY <1>1, <1>2, <1>3, <1>4

(* A step of the provision executor within one state of its row. *)
LEMMA WithinProvision ==
  ASSUME IInv, Provisions, inst' = inst,
         NEW q \in {"act", "jit", "bootstrap", "cas"}, Goto(q)
  PROVE  Held' /\ Quenched' /\ exec'.pc = q
<1>1. /\ exec'.kind = exec.kind /\ exec'.pc = q
      /\ exec'.state = exec.state /\ exec'.fresh = exec.fresh
  BY DEF IInv, TypeOK, Executor, Goto
<1>. QED
  BY <1>1 DEF IInv, Held, Quenched, Provisions, Drains, Torn

LEMMA ProvisionStep ==
  ASSUME IInv, Provision
  PROVE  IInv'
<1>. USE DEF IInv
<1>1. TypeOK' /\ UNCHANGED <<inst, job>>
  BY ProvisionTypes, Zenon
     DEF Provision, BeginProvision, Create, StartVM, Ready, ResetRegistration,
         AcquireAndGenerateJIT, Bootstrap, BootstrapFails, WaitRegistered,
         RepairIdle, ProvisionBlocked, Stay, world
<1>2. CASE BeginProvision
  <2>1. /\ exec'.kind = "provision" /\ exec'.pc = "act" /\ exec'.state = inst.state
        /\ UNCHANGED <<guest, reg>>
    BY <1>2 DEF BeginProvision, Load, world
  <2>2. Held' /\ Quenched'
    BY <1>1, <1>2, <2>1
       DEF BeginProvision, Held, Quenched, Provisions, Drains, Torn, Provisionable, Provisioning
  <2>. QED
    BY <1>1, <2>1, <2>2 DEF Registered, Serving
<1>3. CASE Create \/ StartVM \/ Ready \/ WaitRegistered \/ RepairIdle
  <2>1. Provisions /\ Goto("cas") /\ reg' = reg /\ guest'.spent = guest.spent
    BY <1>3 DEF Create, StartVM, Ready, WaitRegistered, RepairIdle, world, TypeOK, Guest
  <2>2. Held' /\ Quenched' /\ exec'.pc = "cas"
    BY <1>1, <2>1, WithinProvision
  <2>. QED
    BY <1>1, <2>1, <2>2 DEF Registered, Serving
<1>4. CASE ResetRegistration
  <2>1. Held' /\ Quenched' /\ exec'.pc = "jit"
    BY <1>1, <1>4, WithinProvision DEF ResetRegistration
  <2>2. ~reg' /\ \A j \in Jobs : ~Serving(j)
    BY <1>4 DEF ResetRegistration, BusyRefusal, Registered
  <2>. QED
    BY <1>1, <2>1, <2>2 DEF Registered, Serving
<1>5. CASE AcquireAndGenerateJIT
  <2>1. Held' /\ Quenched' /\ exec'.pc = "bootstrap"
    BY <1>1, <1>5, WithinProvision DEF AcquireAndGenerateJIT
  <2>2. ~guest'.agent /\ \A j \in Jobs : ~Serving(j)
    BY <1>5 DEF AcquireAndGenerateJIT, At, Registered, TypeOK, Guest
  <2>. QED
    BY <1>1, <2>1, <2>2 DEF Registered, Serving
<1>6. CASE Bootstrap
  <2>1. Held' /\ Quenched' /\ exec'.pc = "cas"
    BY <1>1, <1>6, WithinProvision DEF Bootstrap
  <2>2. \A j \in Jobs : ~Serving(j)
    BY <1>6 DEF Bootstrap, At, Registered
  <2>. QED
    BY <1>1, <2>1, <2>2 DEF Registered, Serving
<1>7. CASE BootstrapFails
  <2>1. Provisions /\ exec' = NoExec /\ \A j \in Jobs : ~Serving(j)
    BY <1>7 DEF BootstrapFails, Leave, At, Registered
  <2>2. Held' /\ Quenched'
    BY <1>1, <2>1, NoExecutor DEF Held, Quenched, Provisions, Drains, Torn
  <2>. QED
    BY <1>1, <2>1, <2>2, NoExecutor DEF Registered, Serving
<1>8. CASE ProvisionBlocked
  BY <1>1, <1>8, LeaveStep DEF ProvisionBlocked, world
<1>. QED
  BY <1>2, <1>3, <1>4, <1>5, <1>6, <1>7, <1>8 DEF Provision

----------------------------------------------------------------------------
(* The drain executor: the registration is gone before the row leaves      *)
(* draining, and the machine before the row is deleted.                    *)

LEMMA StopTypes ==
  ASSUME TypeOK, StopGuest
  PROVE  TypeOK'
<1>. USE DEF TypeOK
<1>1. exec' \in Executor
  <2>1. exec' = NoExec \/ \E q \in {"dereg", "cas"} : Goto(q)
    BY DEF StopGuest, Leave
  <2>. QED
    BY <2>1, NoExecutor DEF Goto, Executor
<1>2. guest' \in Guest
  <2>1. guest' = guest \/ \E vm \in {"absent", "off"} : guest' = Off(vm)
    BY DEF StopGuest
  <2>. QED
    BY <2>1, Zenon DEF Off, Guest
<1>3. stops' \in 0 .. 3 * Rung
  <2>1. StopEscalation # "exhausted" => stops < 3 * Rung
    BY DEF StopEscalation
  <2>2. stops' = stops \/ (StopEscalation # "exhausted" /\ stops' = StopAttempts)
    BY DEF StopGuest
  <2>. QED
    BY <2>1, <2>2 DEF StopAttempts
<1>4. faults' \in 0 .. MaxFaults
  <2>1. faults' = faults \/ Fault
    BY DEF StopGuest
  <2>. QED
    BY <2>1 DEF Fault
<1>5. parked' \in BOOLEAN /\ UNCHANGED <<inst, rec, proj, sibling, reg, job>>
  BY Zenon DEF StopGuest
<1>. QED
  BY <1>1, <1>2, <1>3, <1>4, <1>5

LEMMA DrainTypes ==
  ASSUME TypeOK, Drain
  PROVE  TypeOK'
<1>. USE DEF TypeOK
<1>1. CASE BeginDrain
  BY <1>1 DEF BeginDrain, Load, Stay, world, Executor, Row
<1>2. ASSUME exec' = NoExec \/ \E q \in {"stop", "dereg", "confirm", "cas", "delete"} : Goto(q)
      PROVE  exec' \in Executor
  BY <1>2, NoExecutor DEF Goto, Executor
<1>3. ASSUME inst' = [inst EXCEPT !.state = "running"]
      PROVE  inst' \in Row
  BY <1>3 DEF Row, States
<1>4. CASE DrainGuard
  <2>1. exec' \in Executor
    BY <1>2, <1>4 DEF DrainGuard, Abort, Fails, Leave, FirstStep
  <2>. QED
    BY <1>3, <1>4, <2>1, Zero DEF DrainGuard, Abort, Fails, Stay, world
<1>5. CASE Deregister
  <2>1. exec' \in Executor
    BY <1>2, <1>5 DEF Deregister, Abort, Fails, Leave
  <2>. QED
    BY <1>3, <1>5, <2>1, Zero, Zenon DEF Deregister, Abort, Fails, Stay, world
<1>6. CASE WaitConfirmed
  <2>1. exec' \in Executor
    BY <1>2, <1>6 DEF WaitConfirmed, Fails, Leave
  <2>. QED
    BY <1>6, <2>1 DEF WaitConfirmed, Fails, Stay, world
<1>7. CASE Delete
  <2>1. exec' \in Executor
    BY <1>2, <1>7 DEF Delete, Fails, Leave
  <2>2. guest' \in Guest
    BY <1>7, Zenon DEF Delete, Off, Guest
  <2>. QED
    BY <1>7, <2>1, <2>2 DEF Delete, Fails, Stay
<1>. QED
  BY <1>1, <1>4, <1>5, <1>6, <1>7, StopTypes DEF Drain

(* A step of the drain executor within one state of its row. *)
LEMMA WithinDrain ==
  ASSUME IInv, Drains, inst' = inst,
         NEW q \in {"stop", "dereg", "confirm", "cas", "delete"}, Goto(q)
  PROVE  /\ Held' /\ exec'.kind = "drain" /\ exec'.pc = q
         /\ exec'.state = exec.state
<1>1. /\ exec'.kind = exec.kind /\ exec'.pc = q
      /\ exec'.state = exec.state /\ exec'.fresh = exec.fresh
  BY DEF IInv, TypeOK, Executor, Goto
<1>. QED
  BY <1>1 DEF IInv, Held, Provisions, Drains

(* The drain that contrary evidence ends: the row is running again. *)
LEMMA AbortStep ==
  ASSUME IInv, Drains, inst.state = "draining", TypeOK', Abort
  PROVE  IInv'
<1>1. inst'.state = "running" /\ exec' = NoExec /\ UNCHANGED <<guest, reg, job>>
  BY DEF IInv, TypeOK, Row, Abort, Leave, world
<1>. QED
  BY <1>1, NoExecutor DEF IInv, Held, Registered, Quenched, Drains, Provisions, At,
       Serving, Torn

LEMMA DrainStep ==
  ASSUME IInv, Drain
  PROVE  IInv'
<1>. USE DEF IInv
<1>1. TypeOK'
  BY DrainTypes
<1>2. CASE BeginDrain
  <2>1. /\ exec'.kind = "drain" /\ exec'.pc = "act" /\ exec'.state = inst.state
        /\ exec'.fresh /\ UNCHANGED <<inst, guest, reg, job>>
    BY <1>2 DEF BeginDrain, Load, Stay, world
  <2>. QED
    <3>1. Held'
      BY <1>2, <2>1 DEF BeginDrain, Held, Provisions, Drains
    <3>2. Registered' /\ Quenched'
      BY <2>1 DEF Registered, Quenched, Drains, At, Serving
    <3>. QED
      BY <1>1, <3>1, <3>2
<1>3. Drain /\ ~BeginDrain => Drains /\ exec.state = inst.state
  BY DEF Drain, DrainGuard, Deregister, WaitConfirmed, StopGuest, Delete, Held
<1>4. CASE DrainGuard
  <2>1. CASE Abort
    BY <1>1, <1>3, <1>4, <2>1, AbortStep DEF DrainGuard, Drains, At, Held
  <2>2. CASE Leave /\ inst' = inst /\ UNCHANGED world
    BY <1>1, <2>2, LeaveStep DEF world
  <2>3. CASE Goto(FirstStep(inst.phase)) /\ inst' = inst /\ UNCHANGED world
    <3>1. FirstStep(inst.phase) \in {"stop", "dereg"}
      BY DEF FirstStep
    <3>2. /\ Held' /\ exec'.kind = "drain" /\ exec'.state = exec.state
          /\ exec'.pc = FirstStep(inst.phase)
      BY <1>4, <2>3, <3>1, WithinDrain DEF DrainGuard
    <3>3. exec'.pc = "stop" => inst.phase \in {"occupancy", "guest"}
      BY <3>2 DEF FirstStep, stopsItsGuestFirst
    <3>. QED
      BY <1>1, <2>3, <3>1, <3>2, <3>3 DEF Registered, Quenched, world, At, Serving, Drains
  <2>. QED
    BY <1>4, <2>1, <2>2, <2>3 DEF DrainGuard, Fails, Stay
<1>5. CASE Deregister
  <2>1. CASE Abort
    BY <1>1, <1>3, <1>5, <2>1, AbortStep DEF Deregister, Drains, At, Held
  <2>2. CASE Leave /\ inst' = inst /\ UNCHANGED world
    BY <1>1, <2>2, LeaveStep DEF world
  <2>3. CASE /\ ~BusyRefusal /\ reg' = FALSE /\ Goto("confirm")
             /\ inst' = inst /\ UNCHANGED <<guest, job>>
    <3>1. Held' /\ exec'.kind = "drain" /\ exec'.pc = "confirm" /\ ~reg'
      BY <1>5, <2>3, WithinDrain DEF Deregister
    <3>2. \A j \in Jobs : ~Serving(j)
      BY <2>3 DEF BusyRefusal, Registered
    <3>. QED
      BY <1>1, <2>3, <3>1, <3>2 DEF Registered, Quenched, At, Serving, Drains
  <2>. QED
    BY <1>5, <2>1, <2>2, <2>3, Zenon DEF Deregister, Fails, Stay
<1>6. CASE WaitConfirmed
  <2>1. UNCHANGED <<inst, guest, reg, job>>
    BY <1>6 DEF WaitConfirmed, Stay, world
  <2>2. CASE Leave
    BY <1>1, <2>1, <2>2, LeaveStep
  <2>3. CASE Goto(IF exec.state = "draining" THEN "cas" ELSE "delete")
    <3>1. /\ Held' /\ exec'.kind = "drain" /\ exec'.state = exec.state
          /\ exec'.pc = IF exec.state = "draining" THEN "cas" ELSE "delete"
      BY <1>6, <2>1, <2>3, WithinDrain DEF WaitConfirmed
    <3>2. exec.state = "draining" => ~reg
      BY <1>6 DEF WaitConfirmed, At, Quenched
    <3>. QED
      BY <1>1, <2>1, <3>1, <3>2 DEF Registered, Quenched, At, Serving, Drains
  <2>. QED
    BY <1>6, <2>2, <2>3 DEF WaitConfirmed, Fails
<1>7. CASE StopGuest
  <2>1. /\ UNCHANGED <<inst, reg, job>> /\ guest'.spent = guest.spent
        /\ guest.vm = "absent" => guest'.vm = "absent"
    <3>1. /\ guest' = guest \/ \E vm \in {"absent", "off"} : guest' = Off(vm)
          /\ guest.vm = "absent" => guest' = guest
          /\ UNCHANGED <<inst, reg, job>>
      BY <1>7 DEF StopGuest
    <3>. QED
      BY <3>1, Zenon DEF Off, TypeOK, Guest
  <2>2. CASE Leave
    BY <1>1, <2>1, <2>2, LeaveStep
  <2>3. CASE Goto(IF exec.state = "draining" THEN "dereg" ELSE "cas")
    <3>1. /\ Held' /\ exec'.kind = "drain" /\ exec'.state = exec.state
          /\ exec'.pc = IF exec.state = "draining" THEN "dereg" ELSE "cas"
      BY <1>7, <2>1, <2>3, WithinDrain DEF StopGuest
    <3>2. exec.state \in {"draining", "deregistering"}
      BY <1>7 DEF StopGuest, At
    <3>. QED
      BY <1>1, <2>1, <3>1, <3>2 DEF Registered, Quenched, At, Serving, Drains
  <2>. QED
    BY <1>7, <2>2, <2>3 DEF StopGuest
<1>8. CASE Delete
  <2>1. CASE Leave /\ UNCHANGED <<guest, reg, job, inst>>
    BY <1>1, <2>1, LeaveStep
  <2>2. CASE Goto("cas") /\ guest' = Off("absent") /\ UNCHANGED <<reg, job, inst>>
    <3>1. Held' /\ exec'.kind = "drain" /\ exec'.pc = "cas" /\ exec'.state = "stopping"
      BY <1>8, <2>2, WithinDrain DEF Delete, At
    <3>2. guest'.vm = "absent" /\ guest'.spent = guest.spent
      BY <2>2 DEF Off, TypeOK, Guest
    <3>. QED
      BY <1>1, <2>2, <3>1, <3>2 DEF Registered, Quenched, At, Serving, Drains
  <2>. QED
    BY <1>8, <2>1, <2>2 DEF Delete, Fails, Stay
<1>. QED
  BY <1>2, <1>4, <1>5, <1>6, <1>7, <1>8 DEF Drain

----------------------------------------------------------------------------
(* The compare-and-set: it wins only on the row the executor loaded, and   *)
(* then the row was in the state the executor thinks it is in.             *)

LEMMA Edges ==
  ASSUME IInv, AdvanceFenced
  PROVE  /\ inst.state = exec.state
         /\ \/ /\ Provisions /\ exec.state \in Provisionable
               /\ NextState(exec.state) \in
                    {"cloning", "booting", "reachable", "registering", "assigned"}
            \/ Drains /\ exec.state = "draining" /\ NextState(exec.state) = "deregistering"
            \/ Drains /\ exec.state = "deregistering" /\ NextState(exec.state) = "stopping"
            \/ Drains /\ exec.state = "stopping" /\ NextState(exec.state) = "deleted"
<1>1. Provisions \/ Drains
  BY DEF IInv, TypeOK, Executor, Held, AdvanceFenced, Provisions, Drains
<1>2. CASE Provisions
  BY <1>2 DEF IInv, Held, AdvanceFenced, NextState, ProvisionEdge, Provisionable,
       Provisioning, TearingDown
<1>3. CASE Drains
  BY <1>3 DEF IInv, Held, NextState, DrainEdge, TearingDown
<1>. QED
  BY <1>1, <1>2, <1>3

LEMMA AdvanceStep ==
  ASSUME IInv, Advance
  PROVE  IInv'
<1>. DEFINE s == NextState(exec.state)
<1>1. /\ inst' = [inst EXCEPT !.state = s]
      /\ exec' = IF s \in {"assigned", "deleted"} THEN NoExec
                 ELSE [exec EXCEPT !.state = s, !.pc = "act"]
      /\ UNCHANGED <<rec, proj, sibling, parked, faults, stops, guest, reg, job>>
      /\ exec.pc = "cas" /\ exec.fresh
  BY DEF Advance, AdvanceFenced, world
<1>2. /\ inst.state = exec.state
      /\ \/ /\ Provisions /\ exec.state \in Provisionable
            /\ s \in {"cloning", "booting", "reachable", "registering", "assigned"}
         \/ Drains /\ exec.state = "draining" /\ s = "deregistering"
         \/ Drains /\ exec.state = "deregistering" /\ s = "stopping"
         \/ Drains /\ exec.state = "stopping" /\ s = "deleted"
  BY Edges DEF Advance
<1>. HIDE DEF s
<1>3. s \in States
  BY <1>2 DEF States, Provisioning, TearingDown
<1>4. inst' \in Row /\ inst'.state = s
  BY <1>1, <1>3 DEF IInv, TypeOK, Row
<1>5. /\ exec' \in Executor /\ exec'.pc = "act"
      /\ s \in {"assigned", "deleted"} => exec'.kind = "none"
      /\ s \notin {"assigned", "deleted"} =>
           exec'.kind = exec.kind /\ exec'.state = s /\ exec'.fresh
  <2>1. CASE s \in {"assigned", "deleted"}
    BY <1>1, <2>1, NoExecutor
  <2>2. CASE s \notin {"assigned", "deleted"}
    BY <1>1, <1>3, <2>2, Zenon DEF IInv, TypeOK, Executor
  <2>. QED
    BY <2>1, <2>2
<1>6. TypeOK'
  BY <1>1, <1>4, <1>5 DEF IInv, TypeOK
<1>7. Held'
  BY <1>2, <1>4, <1>5
     DEF Held, Drains, Provisions, Torn, TearingDown, Provisionable, Provisioning
<1>8. Registered'
  BY <1>1, <1>5 DEF IInv, Registered, Serving
<1>9. Quenched'
  <2>1. s \in Torn => ~reg
    BY <1>1, <1>2 DEF IInv, Quenched, Torn, At
  <2>2. s = "deleted" => guest.vm = "absent"
    BY <1>1, <1>2 DEF IInv, Quenched, At
  <2>. QED
    BY <1>1, <1>4, <1>5, <2>1, <2>2 DEF Quenched, At, Torn
<1>. QED
  BY <1>6, <1>7, <1>8, <1>9 DEF IInv

LEMMA FailStep ==
  ASSUME IInv, AdvanceConflicts \/ ExecutorFails
  PROVE  IInv'
<1>1. /\ Leave /\ stops' \in {0, stops} /\ (faults' = faults \/ Fault)
      /\ UNCHANGED <<inst, rec, proj, sibling, parked, guest, reg, job>>
  BY DEF AdvanceConflicts, ExecutorFails, Fails, Stay, world
<1>2. TypeOK'
  BY <1>1, NoExecutor, Zero DEF IInv, TypeOK, Leave, Fault
<1>. QED
  BY <1>1, <1>2, LeaveStep

----------------------------------------------------------------------------
LEMMA InitIInv == Init => IInv
<1>. SUFFICES ASSUME Init PROVE IInv
  OBVIOUS
<1>1. inst \in Row
  BY DEF Init, Row, States, Phases
<1>2. rec \in [Jobs -> Record]
  BY DEF Init, Record, Available
<1>3. guest \in Guest /\ exec \in Executor
  BY NoExecutor DEF Init, Guest
<1>4. job \in [Jobs -> {"queued", "here", "elsewhere"} \cup Ended]
  BY DEF Init
<1>5. TypeOK
  BY <1>1, <1>2, <1>3, <1>4, Zero, Zenon DEF Init, TypeOK
<1>6. Held /\ Quenched
  BY NoExecutor DEF Init, Held, Quenched, Drains, Provisions, Torn
<1>7. Registered
  BY NoExecutor DEF Init, Registered, Serving
<1>. QED
  BY <1>5, <1>6, <1>7 DEF IInv

LEMMA NextIInv == IInv /\ [Next]_vars => IInv'
<1>. SUFFICES ASSUME IInv, [Next]_vars PROVE IInv'
  OBVIOUS
<1>1. CASE UNCHANGED vars
  BY <1>1 DEF vars, IInv, TypeOK, Held, Registered, Quenched, Drains, Provisions, At, Serving
<1>. QED
  BY <1>1, WorldStep, IngestStep, ProjectStep, PlanStep, ProvisionStep, DrainStep,
     AdvanceStep, FailStep DEF Next

(* The inductive invariant. *)
THEOREM Invariance == Spec => []IInv
BY InitIInv, NextIInv, PTL DEF Spec

(* Every variable of the instance stays in its domain, the stop counter    *)
(* within the three rungs of the ladder (StopEscalation).                  *)
THEOREM TypeCorrect == Spec => []TypeOK
<1>1. IInv => TypeOK
  BY DEF IInv
<1>. QED
  BY <1>1, Invariance, PTL

(* Past draining the runner executes no job and has no registration that   *)
(* could be handed one, whatever observation planned the drain and whoever *)
(* else touched the row in between (DrainExecutor.Execute).                *)
THEOREM TeardownIsIdle == Spec => []TornDownIsIdle
<1>1. IInv => TornDownIsIdle
  BY DEF IInv, Registered, Quenched, Torn, TornDownIsIdle
<1>. QED
  BY <1>1, Invariance, PTL

(* A deleted row leaves neither a machine nor a runner record behind.      *)
THEOREM DeletionIsClean == Spec => []DeletedIsClean
<1>1. IInv => DeletedIsClean
  BY DEF IInv, Quenched, Torn, DeletedIsClean
<1>. QED
  BY <1>1, Invariance, PTL

----------------------------------------------------------------------------
(* An executor's step that takes a live guest down: only StopGuest and     *)
(* Delete do, and past draining no job is executing any more.              *)
LEMMA CutStep ==
  ASSUME IInv, Next, NEW j \in Jobs, Serving(j), Alive, guest'.vm # "on", exec' # exec
  PROVE  inst.phase \in {"occupancy", "guest"}
<1>. USE DEF IInv
<1>1. guest.vm = "on" /\ reg /\ guest' # guest
  BY DEF Alive, Registered
<1>2. ~World
  BY WorldQuiet DEF Quiet
<1>3. ~Provision
  <2>1. Provision => guest'.vm = guest.vm
    BY <1>1, Zenon DEF Provision, BeginProvision, Create, StartVM, Ready, ResetRegistration,
         AcquireAndGenerateJIT, Bootstrap, BootstrapFails, WaitRegistered, RepairIdle,
         ProvisionBlocked, world, TypeOK, Guest
  <2>. QED
    BY <1>1, <2>1
<1>4. StopGuest \/ Delete
  BY <1>1, <1>2, <1>3, Zenon DEF Next, Ingest, Project, AlignSwap, AlignRebind, ProjectAdvance,
       ProjectDrain, ProjectEnds, ProjectionLost, DrainCompletedRunners, PlanDrain, Rest,
       Drain, BeginDrain, DrainGuard, Deregister, WaitConfirmed, Abort,
       Advance, AdvanceConflicts, ExecutorFails, world
<1>5. inst.state \notin Torn
  BY <1>1 DEF Quenched
<1>6. Drains /\ At("stop", "draining")
  BY <1>4, <1>5 DEF StopGuest, Delete, At, Held, Torn
<1>. QED
  BY <1>6 DEF Quenched

(* No drain, whatever planned it, takes a live guest away from the job it  *)
(* is executing, except the two reclaims meant to (stopsItsGuestFirst).    *)
THEOREM JobsAreNotCut == Spec => NoJobCut
<1>1. IInv /\ [Next]_vars
        => [(\E j \in Jobs : Serving(j)) /\ Alive /\ guest'.vm # "on" /\ exec' # exec
            => inst.phase \in {"occupancy", "guest"}]_vars
  BY CutStep
<1>. QED
  BY <1>1, Invariance, PTL DEF Spec, NoJobCut

LEMMA OneWayStep ==
  ASSUME IInv, Next
  PROVE  /\ inst.state \in TearingDown => inst'.state \in TearingDown \cup {"running", "deleted"}
         /\ inst.state = "deleted" => inst'.state = "deleted"
<1>. USE DEF IInv
<1>1. CASE Project \/ DrainCompletedRunners \/ \E phase \in Recoveries : PlanDrain(phase)
  <2>1. CASE inst.state \in TearingDown \cup {"deleted"}
    <3>1. inst' = inst \/ \E d \in Jobs : inst' = [inst EXCEPT !.demand = d]
      BY <1>1, <2>1 DEF Project, AlignSwap, AlignRebind, Swappable, ProjectAdvance,
           ProjectDrain, ProjectEnds, ProjectionLost, DrainCompletedRunners, PlanDrain,
           TearingDown, Provisioning, TypeOK
    <3>. QED
      BY <3>1 DEF TypeOK, Row
  <2>. QED
    BY <2>1
<1>2. CASE World \/ (\E j \in Jobs : Ingest(j)) \/ Provision \/ AdvanceConflicts \/ ExecutorFails
  BY <1>2, WorldQuiet, Zenon
     DEF Quiet, Ingest, Provision, BeginProvision, Create, StartVM, Ready,
         ResetRegistration, AcquireAndGenerateJIT, Bootstrap, BootstrapFails,
         WaitRegistered, RepairIdle, ProvisionBlocked, Stay, AdvanceConflicts, ExecutorFails
<1>3. CASE Drain
  <2>1. CASE inst' = inst
    BY <2>1
  <2>2. CASE inst' # inst
    <3>1. Drains /\ Abort
      BY <1>3, <2>2 DEF Drain, BeginDrain, DrainGuard, Deregister, WaitConfirmed,
           StopGuest, Delete, Stay
    <3>2. inst.state \in TearingDown /\ inst'.state = "running"
      BY <3>1 DEF Abort, Held, TypeOK, Row
    <3>. QED
      BY <3>2 DEF TearingDown
  <2>. QED
    BY <2>1, <2>2
<1>4. CASE Advance
  <2>1. inst'.state = NextState(exec.state)
    BY <1>4 DEF Advance, TypeOK, Row
  <2>. QED
    BY <1>4, <2>1, Edges DEF Advance, TearingDown, Provisionable, Provisioning
<1>. QED
  BY <1>1, <1>2, <1>3, <1>4 DEF Next

(* No transaction takes a row back out of its teardown but the drain's own *)
(* abort, and none revives a deleted row (Store.Advance).                  *)
THEOREM TeardownNeverReverts == Spec => TeardownIsOneWay
<1>1. IInv /\ [Next]_vars
        => [/\ inst.state \in TearingDown
                 => inst'.state \in TearingDown \cup {"running", "deleted"}
            /\ inst.state = "deleted" => inst'.state = "deleted"]_vars
  BY OneWayStep
<1>. QED
  BY <1>1, Invariance, PTL DEF Spec, TeardownIsOneWay
=============================================================================
