--------------------------- MODULE AuthorityLease ---------------------------
(***************************************************************************)
(* The singleton controller authority: the row of `leases` that controller *)
(* processes acquire, renew and release, the guard that renews it inside   *)
(* each process, and the service that runs under the guard.                *)
(*                                                                         *)
(* All processes share one SQLite file and so one clock. Time is counted   *)
(* in ticks; a timer never fires early, and on a starved host it may fire  *)
(* late; `host` remembers whether one has.                                 *)
(***************************************************************************)
EXTENDS Integers

CONSTANTS Procs,         \* lease owners: sessionOwner/pid
          NoProc,        \* owner of the absent row
          TTL,           \* authorityLeaseTTL
          Interval,      \* authorityLeaseRenewInterval
          Window,        \* authorityLeaseAcquireWindow
          AcquireRetry,  \* authorityLeaseAcquireRetry
          RenewRetry,    \* authorityLeaseRenewRetry
          RecoverBound,  \* on a prompt host, longest RecoverExpired
          MaxTime,       \* bound on the clock
          MaxToken       \* bound on acquisitions

ASSUME LeaseAssumption ==
  /\ {TTL, Interval, Window, AcquireRetry, RenewRetry, RecoverBound,
      MaxToken} \subseteq Nat \ {0}
  /\ Interval < TTL /\ TTL <= Window
  /\ MaxTime \in Nat /\ NoProc \notin Procs

VARIABLES now,      \* the clock
          host,     \* "prompt" until a timer or a deadline is missed
          row,      \* the lease row; token 0 stands for no row
          pc,       \* [Procs -> Pcs], where run and the renew goroutine are
          lease,    \* [Procs -> the guard's copy of its lease]
          began,    \* [Procs -> instant the renewal in flight was stamped with]
          wake,     \* [Procs -> when the pending timer fires]
          start,    \* [Procs -> when acquireAuthorityLease was entered]
          service   \* [Procs -> BOOLEAN], app.Service.Run has not returned

vars == <<now, host, row, pc, lease, began, wake, start, service>>

\* acquire: between two attempts; recover: lease acquired, RecoverExpired not yet
\* run; hold: guard asleep; renew: renewal in flight; lost: the guard reported an
\* error and the run is cancelled; closing: Close was called; exiting: released.
Pcs == {"off", "acquire", "recover", "hold", "renew", "lost", "closing", "exiting"}
Time == 0 .. MaxTime
Expiry == 0 .. MaxTime + TTL
NoRow == [owner |-> NoProc, token |-> 0, exp |-> 0]
NoLease == [token |-> 0, exp |-> 0]

TypeOK == /\ now \in Time
          /\ host \in {"prompt", "starved"}
          /\ row \in [owner : Procs \cup {NoProc}, token : 0 .. MaxToken, exp : Expiry]
          /\ pc \in [Procs -> Pcs]
          /\ lease \in [Procs -> [token : 0 .. MaxToken, exp : Expiry]]
          /\ began \in [Procs -> Time]
          /\ wake \in [Procs -> Nat]
          /\ start \in [Procs -> Time]
          /\ service \in [Procs -> BOOLEAN]

Init == /\ now = 0
        /\ host = "prompt"
        /\ row = NoRow
        /\ pc = [p \in Procs |-> "off"]
        /\ lease = [p \in Procs |-> NoLease]
        /\ began = [p \in Procs |-> 0]
        /\ wake = [p \in Procs |-> 0]
        /\ start = [p \in Procs |-> 0]
        /\ service = [p \in Procs |-> FALSE]

Goto(p, l) == pc' = [pc EXCEPT ![p] = l]
Sleep(p, t) == wake' = [wake EXCEPT ![p] = t]
Awake(p) == Sleep(p, 0)

\* The process is gone, and with it everything it held in memory.
Off(p) == /\ Goto(p, "off") /\ Awake(p)
          /\ lease' = [lease EXCEPT ![p] = NoLease]
          /\ began' = [began EXCEPT ![p] = 0]
          /\ start' = [start EXCEPT ![p] = 0]
          /\ service' = [service EXCEPT ![p] = FALSE]

-----------------------------------------------------------------------------
(* acquireAuthorityLease and startAuthorityLease *)

Start(p) ==
  /\ pc[p] = "off"
  /\ Goto(p, "acquire") /\ Sleep(p, now)
  /\ start' = [start EXCEPT ![p] = now]
  /\ UNCHANGED <<now, host, row, lease, began, service>>

\* AcquireLease: no row, an expired row, or a row this very owner left behind.
FreeEarly(p) == row.token = 0 \/ row.exp <= now + 1 \/ row.owner = p  \* mutant
Free(p) == row.token = 0 \/ row.exp <= now \/ row.owner = p

Acquire(p) ==
  /\ pc[p] = "acquire" /\ now >= wake[p]
  /\ Free(p) /\ row.token < MaxToken
  /\ row' = [owner |-> p, token |-> row.token + 1, exp |-> now + TTL]
  /\ lease' = [lease EXCEPT ![p] = [token |-> row.token + 1, exp |-> now + TTL]]
  /\ Goto(p, "recover") /\ Awake(p)
  /\ start' = [start EXCEPT ![p] = 0]
  /\ UNCHANGED <<now, host, began, service>>

\* ErrLeaseHeld: try again while the window is open, else give up.
WindowClosedEarly(p) == now >= start[p] + AcquireRetry  \* mutant
WindowClosed(p) == now >= start[p] + Window

AcquireHeld(p) ==
  /\ pc[p] = "acquire" /\ now >= wake[p]
  /\ ~Free(p) /\ ~WindowClosed(p)
  /\ Sleep(p, now + AcquireRetry)
  /\ UNCHANGED <<now, host, row, pc, lease, began, start, service>>

GiveUp(p) ==
  /\ pc[p] = "acquire" /\ now >= wake[p]
  /\ ~Free(p) /\ WindowClosed(p)
  /\ Off(p)
  /\ UNCHANGED <<now, host, row>>

\* Any other store error ends the process; a lost commit may still have landed.
AcquireFails(p) ==
  /\ pc[p] = "acquire" /\ now >= wake[p]
  /\ Off(p)
  /\ \/ UNCHANGED row
     \/ /\ Free(p) /\ row.token < MaxToken
        /\ row' = [owner |-> p, token |-> row.token + 1, exp |-> now + TTL]
  /\ UNCHANGED <<now, host>>

Recovered(p) ==
  /\ pc[p] = "recover"
  /\ Goto(p, "hold") /\ Sleep(p, now + Interval)
  /\ service' = [service EXCEPT ![p] = TRUE]
  /\ UNCHANGED <<now, host, row, lease, began, start>>

\* ReleaseLease deletes the row of this owner and token, and may itself fail.
Mine(p) == row.owner = p /\ row.token = lease[p].token
Release(p) == row' \in {row} \cup (IF Mine(p) THEN {NoRow} ELSE {})

RecoverFails(p) ==
  /\ pc[p] = "recover"
  /\ Release(p) /\ Off(p)
  /\ UNCHANGED <<now, host>>

-----------------------------------------------------------------------------
(* authorityLease.renew *)

BeginRenew(p) ==
  /\ pc[p] = "hold" /\ now >= wake[p]
  /\ IF lease[p].exp <= now
     THEN Goto(p, "lost") /\ UNCHANGED began
     ELSE Goto(p, "renew") /\ began' = [began EXCEPT ![p] = now]
  /\ Awake(p)
  /\ UNCHANGED <<now, host, row, lease, start, service>>

\* RenewLease's WHERE clause: fenced by owner, token and an unexpired row.
RenewableUnfenced(p) == row.token > 0 /\ row.exp > began[p]  \* mutant
Renewable(p) == Mine(p) /\ row.exp > began[p]

\* The instant a renewal is stamped with is the one at which it began.
Stamp(p) == began[p] + TTL

Later(a, b) == IF a > b THEN a ELSE b
nextRenewal(exp) == Later(now, exp + Interval - TTL)

\* An attempt's context is cancelled at the expiry of the lease it renews.
Renewed(p) ==
  /\ pc[p] = "renew" /\ now <= lease[p].exp
  /\ Renewable(p)
  /\ row' = [row EXCEPT !.exp = Stamp(p)]
  /\ lease' = [lease EXCEPT ![p].exp = Stamp(p)]
  /\ Goto(p, "hold") /\ Sleep(p, nextRenewal(Stamp(p)))
  /\ began' = [began EXCEPT ![p] = 0]
  /\ UNCHANGED <<now, host, start, service>>

RenewalFenced(p) ==
  /\ pc[p] = "renew"
  /\ ~Renewable(p)
  /\ Goto(p, "lost")
  /\ began' = [began EXCEPT ![p] = 0]
  /\ UNCHANGED <<now, host, row, lease, wake, start, service>>

\* renewRetryFits: a further attempt must land before the lease expires.
RetryAlwaysFits(p) == TRUE  \* mutant
renewRetryFits(p) == now + RenewRetry < lease[p].exp

\* A transient failure, whether or not the update was committed.
RenewalFails(p) ==
  /\ pc[p] = "renew"
  /\ \/ UNCHANGED row
     \/ /\ now <= lease[p].exp /\ Renewable(p)
        /\ row' = [row EXCEPT !.exp = Stamp(p)]
  /\ IF renewRetryFits(p)
     THEN Goto(p, "hold") /\ Sleep(p, now + RenewRetry)
     ELSE Goto(p, "lost") /\ UNCHANGED wake
  /\ began' = [began EXCEPT ![p] = 0]
  /\ UNCHANGED <<now, host, lease, start, service>>

-----------------------------------------------------------------------------
(* run: the end of the service, of the guard and of the process *)

ServiceReturns(p) ==
  /\ service[p] /\ pc[p] \in {"hold", "renew", "lost"}
  /\ service' = [service EXCEPT ![p] = FALSE]
  /\ UNCHANGED <<now, host, row, pc, lease, began, wake, start>>

\* Close waits for the renew goroutine, then releases. run calls it once the
\* service returned, or, after an API server failed and the service took longer
\* than five seconds to stop, with the service still running.
Close(p) ==
  /\ pc[p] \in {"hold", "lost"}
  /\ pc[p] = "lost" => ~service[p]
  /\ Goto(p, "closing") /\ Awake(p)
  /\ UNCHANGED <<now, host, row, lease, began, start, service>>

CloseReleases(p) ==
  /\ pc[p] = "closing"
  /\ Release(p) /\ Goto(p, "exiting")
  /\ UNCHANGED <<now, host, lease, began, wake, start, service>>

\* The process ends, by returning from run or by crashing anywhere.
Exit(p) ==
  /\ pc[p] # "off"
  /\ Off(p)
  /\ UNCHANGED <<now, host, row>>

-----------------------------------------------------------------------------
\* A timer is due, a renewal has reached its deadline, or RecoverExpired has
\* taken as long as it can.
TimerDue(p) == \/ pc[p] \in {"acquire", "hold"} /\ now >= wake[p]
               \/ pc[p] = "renew" /\ now >= lease[p].exp
               \/ pc[p] = "recover" /\ now >= lease[p].exp - TTL + RecoverBound

Tick ==
  /\ now < MaxTime
  /\ host' = IF \E p \in Procs : TimerDue(p) THEN "starved" ELSE host
  /\ now' = now + 1
  /\ UNCHANGED <<row, pc, lease, began, wake, start, service>>

Next == \/ Tick
        \/ \E p \in Procs :
             \/ Start(p) \/ Acquire(p) \/ AcquireHeld(p) \/ GiveUp(p)
             \/ AcquireFails(p) \/ Recovered(p) \/ RecoverFails(p)
             \/ BeginRenew(p) \/ Renewed(p) \/ RenewalFenced(p) \/ RenewalFails(p)
             \/ ServiceReturns(p) \/ Close(p) \/ CloseReleases(p) \/ Exit(p)

Spec == Init /\ [][Next]_vars

-----------------------------------------------------------------------------
(* Properties *)

\* p can prove from its own copy of the lease that it holds authority.
Proven(p) == pc[p] \in {"recover", "hold", "renew"} /\ now < lease[p].exp

\* No two controllers can prove authority at once, however slow their renewals,
\* ambiguous their commits and late their timers (acquireAuthorityLease, renew).
SoleAuthority ==
  \A p, q \in Procs : Proven(p) /\ Proven(q) => p = q

\* The guard's copy never outlives the durable row: while it is unexpired the row
\* names this owner and token and expires no earlier. This is what makes
\* SoleAuthority inductive.
GuardBacked ==
  \A p \in Procs : Proven(p) => Mine(p) /\ row.exp >= lease[p].exp

\* A live incumbent is never robbed: the row passes to another owner only after
\* it expired or was released.
NeverSteals ==
  [][row'.owner # row.owner /\ row'.token # 0 => row.token = 0 \/ row.exp <= now]_vars

\* A starting controller gives up only against an incumbent that wrote the row
\* after the wait began: the lease of a dead predecessor always drains inside
\* the window (authorityLeaseAcquireWindow = 1.5 TTL).
PatientSuccessor ==
  [][\A p \in Procs : GiveUp(p) => row.exp - TTL > start[p]]_vars

\* p's service is not running past the expiry of its guard's lease, unless it has
\* been told to stop.
InTime(p) == pc[p] \in {"hold", "renew"} => now <= lease[p].exp

\* The guard fails closed: as long as timers are on time and RecoverExpired leaves
\* room for one renewal interval, a service that has not been told to stop never
\* runs past the expiry of its guard's lease (renew, nextRenewal, renewRetryFits).
FailsClosed ==
  host = "prompt" /\ RecoverBound + Interval <= TTL => \A p \in Procs : InTime(p)

\* What renew says of the guard: "the daemon stops acting at that expiry", however
\* long RecoverExpired took.
StopsAtExpiry == host = "prompt" => \A p \in Procs : InTime(p)
=============================================================================
