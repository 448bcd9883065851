------------------------------- MODULE Session -------------------------------
(***************************************************************************)
(* One binding's message session: recoveringScaleSetSource of              *)
(* internal/daemon/runtime.go under the recovery policy of                 *)
(* internal/adapters/githubscaleset/session.go, against a broker that      *)
(* grants one session per scale set (ADR 0034).                            *)
(*                                                                         *)
(* Every method holds the source's mutex, so each is one step: an operator *)
(* from a session record to the set of records it may leave, over what     *)
(* GitHub may answer. Only the long poll holds the read half across its    *)
(* call: no step that takes the lock happens during it (module Node).      *)
(*                                                                         *)
(* Failures of the environment spend a budget, so that what must happen    *)
(* once GitHub answers again can be stated.                                *)
(***************************************************************************)
EXTENDS Integers

CONSTANTS MaxConsecutiveFailures,  \* SessionRecoveryPolicy
          FailureWindow,
          MaxFaults                \* bound: failures the environment may inject

ASSUME SessionAssumption ==
  {MaxConsecutiveFailures, FailureWindow, MaxFaults} \subseteq Nat \ {0}

(* Whose session the broker holds for the set: the one the source names,   *)
(* one the source discarded although GitHub refused its release, one of an *)
(* earlier process or of an open whose answer was lost, a sibling's.       *)
Holders == {"none", "current", "discarded", "orphan", "peer"}

(* client: a session was opened and its client kept. same: a failed poll's *)
(* session is still the installed one. refused: how often GitHub refused   *)
(* the release of this very session (what releaseRefusals is to count).    *)
NewSource(client, holder, faults) ==
  [client |-> client, released |-> ~client, suspended |-> FALSE, abandoned |-> FALSE,
   fails |-> 0, window |-> 0, refusals |-> 0,
   holder |-> holder, same |-> FALSE, refused |-> 0, faults |-> faults]

CanFail(s) == s.faults < MaxFaults
Fault(s) == [s EXCEPT !.faults = @ + 1]

(* GitHub's answers. A release may be refused, or take effect and time     *)
(* out; GitHub refuses to delete a session it no longer knows. An open     *)
(* needs the set to be free, and its answer too may be lost.               *)
CloseOk(s) == IF s.holder = "current" THEN {[s EXCEPT !.holder = "none"]} ELSE {}
CloseFails(s) ==
  IF s.holder # "current" THEN {s}
  ELSE IF CanFail(s) THEN {Fault(s), [Fault(s) EXCEPT !.holder = "none"]} ELSE {}
OpenOk(s) == IF s.holder = "none" THEN {[s EXCEPT !.holder = "current"]} ELSE {}
OpenFails(s) ==
  IF s.holder # "none" THEN {s}
  ELSE IF CanFail(s) THEN {Fault(s), [Fault(s) EXCEPT !.holder = "orphan"]} ELSE {}

(* Installing an opened client, which every path does the same way; only a *)
(* replacement forgets the refusals that were counted.                     *)
Install(s) == [s EXCEPT !.client = TRUE, !.released = FALSE, !.fails = 0, !.window = 0,
                        !.same = FALSE, !.refused = 0]

(* A close that fails leaves the session counted as this node's own, unless *)
(* the caller gives it up.                                                  *)
GiveUp(s) == [s EXCEPT !.released = TRUE,
                       !.holder = IF @ = "current" THEN "discarded" ELSE @]

----------------------------------------------------------------------------
PendingOpen(s) == ~s.suspended /\ ~s.client
Acquirable(s) == ~s.suspended /\ s.client
AdminAvailable(s) == s.client        \* survives a suspension (issue #432)

(* openPending: a refusal that retrying cannot cure ends the attempts.     *)
OpenPending(s) ==
  {Install(t) : t \in OpenOk(s)} \cup OpenFails(s)
  \cup {[t EXCEPT !.abandoned = TRUE] : t \in IF CanFail(s) THEN {Fault(s)} ELSE {}}

ClearsRefusals(s) == [s EXCEPT !.fails = 0, !.window = 0, !.refusals = 0]  \* mutant
ClearFailures(s) == [s EXCEPT !.fails = 0, !.window = 0]

(* SessionRecoveryPolicy.OnFailure. window is the age of the first failure *)
(* of the streak plus one, zero when there is none.                        *)
RecordFailure(s) == [s EXCEPT !.fails = IF @ < MaxConsecutiveFailures THEN @ + 1 ELSE @,
                              !.window = IF @ = 0 THEN 1 ELSE @, !.same = TRUE]
OnFailureDiscards(s, kind) ==
  \/ kind = "terminal"
  \/ kind = "transient" /\ (s.fails >= MaxConsecutiveFailures \/ s.window > FailureWindow)
ReleaseRefusalBound == MaxConsecutiveFailures
ReleaseRefusalsExceeded(s) == s.refusals >= ReleaseRefusalBound

Refuse(s) == [s EXCEPT !.refusals = IF @ < ReleaseRefusalBound THEN @ + 1 ELSE @,
                       !.refused = @ + 1]

(* replace: release the failed session, unless that was done before, then  *)
(* open another. Discarding goes on without the release.                   *)
Reopen(s) == {[Install(t) EXCEPT !.refusals = 0] : t \in OpenOk(s)} \cup OpenFails(s)
Release(s, discard) ==
  IF s.released THEN {s}
  ELSE {GiveUp(t) : t \in CloseOk(s) \cup IF discard THEN CloseFails(s) ELSE {}}
Replace(s, discard) ==
  IF s.suspended \/ ~s.same THEN {s}
  ELSE {Refuse(t) : t \in IF s.released \/ discard THEN {} ELSE CloseFails(s)}
       \cup UNION {Reopen(t) : t \in Release(s, discard)}

(* Suspend: a refused release is reported, and the caller retries.         *)
SuspendAnyway(s) ==                                                   \* mutant
  IF s.suspended THEN {s}
  ELSE IF s.client /\ ~s.released
         THEN {[t EXCEPT !.suspended = TRUE, !.released = TRUE] :
                 t \in CloseOk(s) \cup CloseFails(s)}
  ELSE {[s EXCEPT !.suspended = TRUE]}
Suspend(s) ==
  IF s.suspended THEN {s}
  ELSE IF s.client /\ ~s.released
         THEN {[t EXCEPT !.suspended = TRUE, !.released = TRUE] : t \in CloseOk(s)}
              \cup CloseFails(s)
  ELSE {[s EXCEPT !.suspended = TRUE]}

Resume(s) ==
  IF ~s.suspended THEN {s}
  ELSE {[Install(t) EXCEPT !.suspended = FALSE, !.abandoned = FALSE] : t \in OpenOk(s)}
       \cup OpenFails(s)

(* Close at shutdown, or a crash, and the start of the next process: a     *)
(* deferrable refusal starts the binding pending, any other ends the       *)
(* process again.                                                          *)
Close(s) == IF ~s.client \/ s.released THEN {s} ELSE CloseOk(s) \cup CloseFails(s)
Orphaned(s) == [s EXCEPT !.holder = IF @ \in {"current", "discarded"} THEN "orphan" ELSE @]
Start(s) == {NewSource(TRUE, t.holder, t.faults) : t \in OpenOk(s)}
            \cup {NewSource(FALSE, t.holder, t.faults) : t \in OpenFails(s)}
Restart(s) == UNION {Start(Orphaned(t)) : t \in Close(s) \cup {s}}

(* What the broker does on its own: it forgets a session nobody polls, or  *)
(* one in use, and siblings come and go.                                   *)
Expire(s) == IF s.holder \in {"discarded", "orphan"} THEN {[s EXCEPT !.holder = "none"]} ELSE {}
Lose(s) == IF s.holder = "current" /\ CanFail(s) THEN {[Fault(s) EXCEPT !.holder = "none"]} ELSE {}
PeerOpens(s) == IF s.holder = "none" /\ CanFail(s) THEN {[Fault(s) EXCEPT !.holder = "peer"]} ELSE {}
PeerLeaves(s) == IF s.holder = "peer" THEN {[s EXCEPT !.holder = "none"]} ELSE {}
=============================================================================
