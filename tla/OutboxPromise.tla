--------------------------- MODULE OutboxPromise ---------------------------
(***************************************************************************)
(* What the operation outbox promises to the code that enqueues work: each *)
(* row is settled once, never before the rows it needs are done, and is    *)
(* given up only on its own account or because a row it needs was given    *)
(* up, whether that one is still parked or was discharged since. Leases,   *)
(* workers, retries, crashes and restarts are invisible.                   *)
(***************************************************************************)
CONSTANT Ops

VARIABLES phase,  \* [Ops -> Phases]
          needs   \* [Ops -> SUBSET Ops]

promiseVars == <<phase, needs>>

\* open: may still run; done; parked: given up, waiting for an operator or the
\* recovery tick; closed: discharged.
Phases == {"absent", "open", "done", "parked", "closed"}

GivenUp == {"parked", "closed"}

PromiseInit == phase = [o \in Ops |-> "absent"] /\ needs = [o \in Ops |-> {}]

Move(S, to) == phase' = [o \in Ops |-> IF o \in S THEN to ELSE phase[o]]

Submit(S) ==
  /\ \A o \in S : phase[o] = "absent"
  /\ Move(S, "open")
  /\ needs' \in [Ops -> SUBSET Ops]
  /\ \A o \in Ops \ S : needs'[o] = needs[o]

Finish(o) ==
  /\ phase[o] = "open"
  /\ \A d \in needs[o] : phase[d] = "done"
  /\ Move({o}, "done") /\ UNCHANGED needs

\* S is given up together: each on its own account, or behind a row it needs.
Park(S) ==
  /\ \A o \in S : /\ phase[o] = "open"
                  /\ \/ \A d \in needs[o] : phase[d] = "done"
                     \/ \E d \in needs[o] : phase[d] \in GivenUp \/ d \in S
  /\ Move(S, "parked") /\ UNCHANGED needs

Close(o) ==
  /\ phase[o] = "parked"
  /\ Move({o}, "closed") /\ UNCHANGED needs

\* A fresh row n takes the place of o, for o's open successors too.
Supersede(o, n) ==
  /\ phase[o] = "parked" /\ phase[n] = "absent"
  /\ phase' = [phase EXCEPT ![o] = "closed", ![n] = "open"]
  /\ needs' = [x \in Ops |-> IF phase[x] = "open" /\ o \in needs[x]
                             THEN (needs[x] \ {o}) \cup {n} ELSE needs[x]]

PromiseNext == \/ \E S \in SUBSET Ops : Submit(S) \/ Park(S)
               \/ \E o \in Ops : Finish(o) \/ Close(o)
               \/ \E o, n \in Ops : Supersede(o, n)

PromiseSpec == PromiseInit /\ [][PromiseNext]_promiseVars
=============================================================================
