-------------------------------- MODULE Node --------------------------------
(***************************************************************************)
(* A node's place in the fleet: who decides that a binding's session is    *)
(* held, and what the decisions rest on.                                   *)
(*                                                                         *)
(*   - the ingester of the binding polls and recovers (boundIngester and   *)
(*     recoveringScaleSetSource.Handle, module Session);                   *)
(*   - the auditor asks GitHub which sets it starves, on its own cadence   *)
(*     (parkedScaleSetAuditor and package scalesetaudit);                  *)
(*   - the engine tick folds the audit into the membership ladder, folds   *)
(*     the host's admission into the yield policy, and drives the session  *)
(*     to what both ask for (package membership, sessionyield.go).         *)
(*                                                                         *)
(* Instants are kept as ages, which stop growing at the bound they are     *)
(* compared with; the clock itself never stops.                            *)
(***************************************************************************)
EXTENDS Session

CONSTANTS BlockedFor, HealthyFor,     \* sessionYieldPolicy
          HealAttempts, ExclusionBase, ExclusionCap, FreshFor, Cadence,
          Boot,                       \* how long a runner may take to register
          Modes,                      \* membership.Mode: off, or a ladder is declared
          MaxFlips                    \* bound: turns of the host's admission

ASSUME NodeAssumption ==
  {BlockedFor, HealthyFor, HealAttempts, ExclusionBase, ExclusionCap, FreshFor,
   Cadence, Boot, MaxFlips} \subseteq Nat \ {0}

VARIABLES ses,     \* the session and whom the broker grants it (module Session)
          ing,     \* the ingester: [pc, discard]
          yield,   \* sessionYieldState: [yielded, observed, blocked, age]
          ladder,  \* membership.Binding: [stage, age, attempts, exclusions, judged]
          aud,     \* the auditor: [pc, next, holding, wedged]
          pub,     \* what it published: [wedged, age, used]; age -1: never
          host,    \* the node: [mode, allowed, busy, flips]
          quiet    \* age of the last tick that saw the host admit or work

vars == <<ses, ing, yield, ladder, aud, pub, host, quiet>>

Idle == [pc |-> "idle", discard |-> FALSE]
NoYield == [yielded |-> FALSE, observed |-> FALSE, blocked |-> FALSE, age |-> 0]
Serving == [stage |-> "serving", age |-> 0, attempts |-> 0, exclusions |-> 0, judged |-> FALSE]
NoAudit == [pc |-> "idle", next |-> 0, holding |-> -1, wedged |-> FALSE]
Unaudited == [wedged |-> FALSE, age |-> -1, used |-> FALSE]

Init == /\ ses \in Start(NewSource(FALSE, "none", 0))
        /\ ing = Idle /\ yield = NoYield /\ ladder = Serving
        /\ aud = NoAudit /\ pub = Unaudited
        /\ \E mode \in Modes :
             host = [mode |-> mode, allowed |-> TRUE, busy |-> FALSE, flips |-> 0]
        /\ quiet = 0

----------------------------------------------------------------------------
(* Time. An age below zero is an instant that was never set.               *)
MinOf(a, b) == IF a <= b THEN a ELSE b
Aged(a, bound) == IF a < 0 THEN a ELSE MinOf(a + 1, bound)
ExcludedFor(n) == Cadence * MinOf(ExclusionBase * 2^(n - 1), ExclusionCap)
StreakBound == IF BlockedFor > HealthyFor THEN BlockedFor ELSE HealthyFor

Clock ==
  /\ yield' = [yield EXCEPT !.age = Aged(@, StreakBound)]
  /\ ladder' = [ladder EXCEPT !.age = Aged(@, Cadence * ExclusionCap)]
  /\ aud' = [aud EXCEPT !.next = IF @ > 0 THEN @ - 1 ELSE 0, !.holding = Aged(@, Boot + 1)]
  /\ pub' = [pub EXCEPT !.age = Aged(@, FreshFor * Cadence + 1)]
  /\ ses' = [ses EXCEPT !.window = IF @ = 0 THEN 0 ELSE Aged(@, FailureWindow + 1)]
  /\ quiet' = Aged(quiet, BlockedFor)
  /\ UNCHANGED <<ing, host>>

HostTurns == /\ host.flips < MaxFlips
             /\ \E a, b \in BOOLEAN : /\ <<a, b>> # <<host.allowed, host.busy>>
                                      /\ host' = [host EXCEPT !.allowed = a, !.busy = b, !.flips = @ + 1]
             /\ UNCHANGED <<ses, ing, yield, ladder, aud, pub, quiet>>

----------------------------------------------------------------------------
(* The ingester. A withdrawn or suspended binding is not polled.           *)
Others == <<yield, ladder, aud, pub, host, quiet>>
Polls == ~yield.yielded /\ ~ses.suspended /\ ~ses.abandoned

HandlePending == /\ ing.pc = "idle" /\ Polls /\ PendingOpen(ses)
                 /\ ses' \in OpenPending(ses)
                 /\ UNCHANGED <<ing, Others>>

HandleBegins == /\ ing.pc = "idle" /\ Polls /\ Acquirable(ses)
                /\ ing' = [pc |-> "poll", discard |-> FALSE]
                /\ UNCHANGED <<ses, Others>>

HandleOk == /\ ing.pc = "poll" /\ ses.holder = "current"
            /\ ses' = ClearFailures(ses) /\ ing' = Idle
            /\ UNCHANGED Others

HandleFails == \E kind \in {"terminal", "conflict", "transient"} :
  /\ ing.pc = "poll"
  /\ \/ /\ ses.holder # "current" /\ kind = "terminal" /\ ses' = RecordFailure(ses)
     \/ /\ CanFail(ses) /\ ses' = RecordFailure(Fault(ses))
  /\ ing' = [pc |-> "replace", discard |-> OnFailureDiscards(ses', kind)
                                            \/ ReleaseRefusalsExceeded(ses')]
  /\ UNCHANGED Others

HandleReplaces == /\ ing.pc = "replace"
                  /\ ses' \in Replace(ses, ing.discard) /\ ing' = Idle
                  /\ UNCHANGED Others

----------------------------------------------------------------------------
(* The auditor. The verdict is what GitHub's counters and this node's own  *)
(* read together; it is published in two calls, first the verdicts, then   *)
(* the instant the audit completed. used: a session was healed or opened   *)
(* again on these very verdicts (a history variable).                      *)
AuditOthers == <<ses, ing, yield, host, quiet>>

Wedging(starving) == starving /\ aud.holding > Boot
Track(starving) == IF starving THEN IF aud.holding < 0 THEN 0 ELSE aud.holding ELSE -1

AuditReads == /\ host.mode # "off" /\ aud.pc = "idle" /\ aud.next = 0
              /\ \E starving \in BOOLEAN :
                   aud' = [pc |-> "read", next |-> Cadence, holding |-> Track(starving),
                           wedged |-> Wedging(starving)]
              /\ UNCHANGED <<pub, ladder, AuditOthers>>

AuditFails == /\ host.mode # "off" /\ aud.pc = "idle" /\ aud.next = 0 /\ aud' = [aud EXCEPT !.next = Cadence]
              /\ UNCHANGED <<pub, ladder, AuditOthers>>

SetStrandedScaleSets == /\ aud.pc = "read" /\ aud' = [aud EXCEPT !.pc = "findings"]
                        /\ pub' = [pub EXCEPT !.wedged = aud.wedged, !.used = FALSE]
                        /\ UNCHANGED <<ladder, AuditOthers>>

SetParkedScaleSets == /\ aud.pc = "findings" /\ aud' = [aud EXCEPT !.pc = "idle"]
                      /\ pub' = [pub EXCEPT !.age = 0]
                      /\ ladder' = [ladder EXCEPT !.judged = FALSE]
                      /\ UNCHANGED AuditOthers

----------------------------------------------------------------------------
(* The membership ladder (membership.Step for one bound set), which a node *)
(* that declares no mode never feeds: nothing is published. judged: the  *)
(* published audit is the one behind the last transition.                  *)
Fresh == pub.age \in 0..(FreshFor * Cadence)
Judged(b) == Fresh /\ ~b.judged
To(stage, b, n) == [stage |-> stage, age |-> 0, attempts |-> 0, exclusions |-> n, judged |-> TRUE]
ExclusionSteps == CHOOSE n \in 1..ExclusionCap :
                    /\ ExclusionBase * 2^(n - 1) >= ExclusionCap
                    /\ \A k \in 1..(n - 1) : ExclusionBase * 2^(k - 1) < ExclusionCap
Excluded(b) == To("excluded", b, MinOf(b.exclusions + 1, ExclusionSteps))

ExclusionJudged(b) == b.age >= ExcludedFor(b.exclusions) /\ Judged(b)  \* mutant
ExclusionOver(b) == b.age >= ExcludedFor(b.exclusions)

Advance(b) ==
  CASE b.stage = "excluded" /\ ExclusionOver(b) ->
         [next |-> [To("probation", b, b.exclusions) EXCEPT !.judged = TRUE], action |-> "rejoin"]
    [] b.stage = "healing" /\ Judged(b) /\ ~pub.wedged -> [next |-> To("serving", b, 0), action |-> "none"]
    [] b.stage = "healing" /\ Judged(b) /\ pub.wedged /\ b.attempts < HealAttempts ->
         [next |-> [b EXCEPT !.attempts = @ + 1, !.judged = TRUE], action |-> "heal"]
    [] b.stage = "healing" /\ Judged(b) /\ pub.wedged /\ b.attempts >= HealAttempts ->
         [next |-> Excluded(b), action |-> "exclude"]
    [] b.stage = "probation" /\ Judged(b) /\ pub.wedged -> [next |-> Excluded(b), action |-> "exclude"]
    [] b.stage = "probation" /\ Judged(b) /\ ~pub.wedged -> [next |-> To("serving", b, 0), action |-> "none"]
    [] b.stage = "serving" /\ Judged(b) /\ pub.wedged ->
         [next |-> [To("healing", b, b.exclusions) EXCEPT !.attempts = 1], action |-> "heal"]
    [] OTHER -> [next |-> b, action |-> "none"]

(* membershipController.Apply stands still while the node is withdrawn. A  *)
(* heal closes and reopens the session; a failed reopen is left to the     *)
(* yield controller's next pass.                                           *)
MembershipStep == IF yield.yielded THEN [next |-> ladder, action |-> "none"] ELSE Advance(ladder)
Heal(s) == UNION {IF t.suspended THEN Resume(t) ELSE {t} : t \in Suspend(s)}

----------------------------------------------------------------------------
(* The yield policy: sessionYieldState.Observe on one tick's facts.        *)
Streak == IF ~yield.observed \/ yield.blocked # ~host.allowed
            THEN [yield EXCEPT !.observed = TRUE, !.blocked = ~host.allowed, !.age = 0]
            ELSE yield
KeepsClock(y) == y                                                    \* mutant
RestartsClock(y) == [y EXCEPT !.age = 0]
Observe ==
  LET y == Streak
  IN CASE y.yielded /\ ~y.blocked /\ y.age >= HealthyFor -> [y EXCEPT !.yielded = FALSE, !.age = 0]
       [] ~y.yielded /\ y.blocked /\ host.busy -> RestartsClock(y)
       [] ~y.yielded /\ y.blocked /\ ~host.busy /\ y.age >= BlockedFor -> [y EXCEPT !.yielded = TRUE, !.age = 0]
       [] OTHER -> y

(* sessionYieldController.Apply: level-triggered, every tick.              *)
Wanted(y, b) == y.yielded \/ b.stage = "excluded"
ReconcileEdge(s, want) ==                                             \* mutant
  IF want = Wanted(yield, ladder) THEN {s} ELSE IF want THEN Suspend(s) ELSE Resume(s)
Reconcile(s, want) == IF s.suspended = want THEN {s} ELSE IF want THEN Suspend(s) ELSE Resume(s)

(* engineTicker.applySessionYield. The tick waits for a poll in progress   *)
(* whenever it has to take the session's lock.                             *)
ApplySessionYield ==
  LET step == MembershipStep
      acts == step.action \in {"heal", "rejoin"}
  IN /\ ladder' = step.next
     /\ yield' = Observe
     /\ \E s \in IF step.action = "heal" THEN Heal(ses) ELSE {ses} :
          ses' \in Reconcile(s, Wanted(yield', ladder'))
     /\ ing.pc # "poll" \/ (ses' = ses /\ step.action # "heal")
     /\ pub' = [pub EXCEPT !.used = @ \/ acts]
     /\ quiet' = IF host.allowed \/ host.busy THEN 0 ELSE quiet
     /\ UNCHANGED <<ing, host, aud>>

----------------------------------------------------------------------------
(* Restarts and the broker. A process that ends forgets all but the        *)
(* session GitHub still holds.                                             *)
RestartNode == /\ CanFail(ses) /\ ses' \in Restart(Fault(ses))
               /\ ing' = Idle /\ yield' = NoYield /\ ladder' = Serving
               /\ aud' = NoAudit /\ pub' = Unaudited /\ quiet' = 0
               /\ UNCHANGED host

BrokerExpires == ses' \in Expire(ses) /\ UNCHANGED <<ing, Others>>
BrokerLoses == ses' \in Lose(ses) \cup PeerOpens(ses) /\ UNCHANGED <<ing, Others>>
PeerGoes == ses' \in PeerLeaves(ses) /\ UNCHANGED <<ing, Others>>

Ingest == HandlePending \/ HandleBegins \/ HandleOk \/ HandleFails \/ HandleReplaces
Audit == AuditReads \/ SetStrandedScaleSets \/ SetParkedScaleSets
Next == \/ Clock \/ HostTurns \/ Ingest \/ Audit \/ AuditFails \/ ApplySessionYield
        \/ RestartNode \/ BrokerExpires \/ BrokerLoses \/ PeerGoes

(* Every loop of the process runs on; a tick that waits for the session's  *)
(* lock keeps new polls out (sync.RWMutex), hence the strong fairness.     *)
(* GitHub forgets a session nobody polls, and a sibling that holds the set *)
(* leaves it in the end.                                                   *)
Fairness == /\ WF_vars(Clock) /\ WF_vars(Ingest) /\ SF_vars(ApplySessionYield)
            /\ WF_vars(BrokerExpires) /\ WF_vars(PeerGoes)
Spec == Init /\ [][Next]_vars /\ Fairness

----------------------------------------------------------------------------
(* A binding reads suspended only when its session is gone from GitHub, or *)
(* was given up before because GitHub would not release it: a close that   *)
(* was refused never passes for a withdrawal (Suspend, replace).           *)
SuspendedWasReleased == ses.suspended => ses.holder # "current"

(* GitHub is asked in vain for the release of one session no more often    *)
(* than the bound, however many polls of it succeed in between             *)
(* (recordReleaseRefusal, clearFailures; issue #292).                      *)
RefusalsAreBounded == ses.refused <= ReleaseRefusalBound

(* A node withdraws only after every tick of the whole bound saw admission *)
(* refused and no work in flight (sessionYieldState.Observe).              *)
WithdrawalIsEarned == [][~yield.yielded /\ yield'.yielded => quiet' >= BlockedFor]_vars

(* Once GitHub and the host stop failing, the session ends up where the    *)
(* node wants it: a node that may admit serves infinitely often, whatever  *)
(* the audits say and whatever was lost, refused or orphaned before; a     *)
(* node that may not, and is idle, holds no session for good               *)
(* (level-triggered Apply, replace, openPending). An abandoned binding     *)
(* waits for an operator.                                                  *)
SettlesAsWished ==
  /\ []<>(ses.holder = "current" \/ ~host.allowed \/ ses.abandoned)
  /\ <>[](host.allowed \/ host.busy \/ ses.holder # "current")

(* Time ends every exclusion, an auditor that fails for good included,     *)
(* unless the whole node withdraws (Policy.advance).                       *)
ExclusionEnds == (ladder.stage = "excluded") ~> (ladder.stage # "excluded" \/ yield.yielded)

(* "A suspended source holds no session at all" (runtime.go:75).           *)
SuspendedHoldsNoSession == ses.suspended => ses.holder \notin {"current", "discarded"}

(* "an action is always judged by evidence gathered after it was taken"    *)
(* (watchdog.go, Binding.JudgedAt).                                        *)
JudgedByLaterEvidence ==
  [][ladder'.stage = "excluded" /\ ladder.stage # "excluded" => ~pub.used]_vars
=============================================================================
