-------------------------- MODULE ControllerProofs --------------------------
(***************************************************************************)
(* Proofs about the controller process of a node: the lease that makes it  *)
(* the only one to act (AuthorityLease), for every set of processes, every *)
(* value of the timing constants and every length of a run; and what it    *)
(* says of itself in its log (Status), for every set of instances,         *)
(* profiles and components, every window and budget.                       *)
(*                                                                         *)
(* AuthorityLease is extended.  Status is instantiated, its step counter   *)
(* called step and its window LogWindow, under the assumptions it makes of *)
(* its constants (Status!Constants).  The two share no variable.           *)
(***************************************************************************)
EXTENDS AuthorityLease, FiniteSets, TLAPS

CONSTANTS Instances, Profiles, Components, Observations, Reasons, Demands, LogWindow, Budget,
          Required, SilenceWindow, MaxRows, TickTTL, ObservationTTL, None
VARIABLES clock, last, exits, counts, step, tick, shown, raised, said, named, drained, refused

Status == INSTANCE Status WITH pc <- step, Window <- LogWindow

-----------------------------------------------------------------------------
(* The authority lease. A process proves authority from its own copy of    *)
(* the lease; the copy is useful only because the durable row backs it     *)
(* (GuardBacked), and two processes cannot both own the row. GuardBacked   *)
(* alone is not inductive: a renewal whose commit landed but was reported  *)
(* as a failure moves the row and not the copy, and must not move it       *)
(* behind the copy. Guarded adds what excludes that.                       *)

Holding == {"recover", "hold", "renew"}

\* The guard's copy carries a real token and never promises more than a TTL from
\* now, nor, while a renewal is in flight, more than that renewal would grant.
Guarded ==
  \A p \in Procs :
    /\ began[p] <= now
    /\ pc[p] \in Holding => lease[p].token >= 1 /\ lease[p].exp <= now + TTL
    /\ pc[p] = "renew" => lease[p].exp <= began[p] + TTL

IInv == TypeOK /\ GuardBacked /\ Guarded

\* The initial state satisfies the inductive invariant.
LEMMA InitIInv == Init => IInv
  BY LeaseAssumption DEF Init, IInv, TypeOK, GuardBacked, Guarded, Proven, Mine,
     Holding, Pcs, Time, Expiry, NoRow, NoLease

\* Every step keeps the types.
LEMMA TypeStep == TypeOK /\ [Next]_vars => TypeOK'
<1> SUFFICES ASSUME TypeOK, [Next]_vars PROVE TypeOK'
  OBVIOUS
<1> USE LeaseAssumption DEF TypeOK, Pcs, Time, Expiry, NoRow, NoLease, Goto, Sleep, Awake
<1>1. CASE UNCHANGED vars
  BY <1>1 DEF vars
<1>2. CASE Tick
  BY <1>2 DEF Tick
<1>3. ASSUME NEW p \in Procs, Start(p) PROVE TypeOK'
  BY <1>3 DEF Start
<1>4. ASSUME NEW p \in Procs, Acquire(p) PROVE TypeOK'
  BY <1>4 DEF Acquire
<1>5. ASSUME NEW p \in Procs, AcquireHeld(p) PROVE TypeOK'
  BY <1>5 DEF AcquireHeld
<1>6. ASSUME NEW p \in Procs, GiveUp(p) PROVE TypeOK'
  BY <1>6 DEF GiveUp, Off
<1>7. ASSUME NEW p \in Procs, AcquireFails(p) PROVE TypeOK'
  BY <1>7 DEF AcquireFails, Off
<1>8. ASSUME NEW p \in Procs, Recovered(p) PROVE TypeOK'
  BY <1>8 DEF Recovered
<1>9. ASSUME NEW p \in Procs, RecoverFails(p) PROVE TypeOK'
  BY <1>9 DEF RecoverFails, Off, Release
<1>10. ASSUME NEW p \in Procs, BeginRenew(p) PROVE TypeOK'
  <2>1. \E l \in {"lost", "renew"} : pc' = [pc EXCEPT ![p] = l]
    BY <1>10 DEF BeginRenew
  <2>2. pc' \in [Procs -> Pcs]
    BY <2>1
  <2>3. began' = began \/ began' = [began EXCEPT ![p] = now]
    BY <1>10 DEF BeginRenew
  <2>4. began' \in [Procs -> Time]
    BY <2>3
  <2> QED
    BY <1>10, <2>2, <2>4 DEF BeginRenew
<1>11. ASSUME NEW p \in Procs, Renewed(p) PROVE TypeOK'
  <2>1. Stamp(p) \in Expiry /\ Stamp(p) \in Int
    BY DEF Stamp
  <2>2. nextRenewal(Stamp(p)) \in Nat
    BY <2>1 DEF nextRenewal, Later
  <2>3. row' \in [owner : Procs \cup {NoProc}, token : 0 .. MaxToken, exp : Expiry]
    BY Zenon, <1>11, <2>1 DEF Renewed
  <2>4. lease' \in [Procs -> [token : 0 .. MaxToken, exp : Expiry]]
    BY <1>11, <2>1 DEF Renewed
  <2> QED
    BY <1>11, <2>2, <2>3, <2>4 DEF Renewed
<1>12. ASSUME NEW p \in Procs, RenewalFenced(p) PROVE TypeOK'
  BY <1>12 DEF RenewalFenced
<1>13. ASSUME NEW p \in Procs, RenewalFails(p) PROVE TypeOK'
  <2>1. Stamp(p) \in Expiry
    BY DEF Stamp
  <2>2. row' \in [owner : Procs \cup {NoProc}, token : 0 .. MaxToken, exp : Expiry]
    BY <1>13, <2>1 DEF RenewalFails
  <2>3. wake' \in [Procs -> Nat] /\ pc' \in [Procs -> Pcs]
    <3>1. CASE renewRetryFits(p)
      BY <1>13, <3>1 DEF RenewalFails
    <3>2. CASE ~renewRetryFits(p)
      BY <1>13, <3>2 DEF RenewalFails
    <3> QED
      BY <3>1, <3>2
  <2> QED
    BY <1>13, <2>2, <2>3 DEF RenewalFails
<1>14. ASSUME NEW p \in Procs, ServiceReturns(p) PROVE TypeOK'
  BY <1>14 DEF ServiceReturns
<1>15. ASSUME NEW p \in Procs, Close(p) PROVE TypeOK'
  BY <1>15 DEF Close
<1>16. ASSUME NEW p \in Procs, CloseReleases(p) PROVE TypeOK'
  BY <1>16 DEF CloseReleases, Release
<1>17. ASSUME NEW p \in Procs, Exit(p) PROVE TypeOK'
  BY <1>17 DEF Exit, Off
<1> QED
  BY <1>1, <1>2, <1>3, <1>4, <1>5, <1>6, <1>7, <1>8, <1>9, <1>10, <1>11, <1>12,
     <1>13, <1>14, <1>15, <1>16, <1>17 DEF Next

\* Every step keeps the bounds on the guard's copy.
LEMMA GuardedStep == TypeOK /\ Guarded /\ [Next]_vars => Guarded'
<1> SUFFICES ASSUME TypeOK, Guarded, [Next]_vars PROVE Guarded'
  OBVIOUS
<1> USE LeaseAssumption DEF TypeOK, Guarded, Holding, Pcs, Time, Expiry, NoRow, NoLease,
        Goto, Sleep, Awake
<1>1. CASE UNCHANGED vars
  BY <1>1 DEF vars
<1>2. CASE Tick
  BY <1>2 DEF Tick
<1>3. ASSUME NEW p \in Procs, Start(p) PROVE Guarded'
  BY <1>3 DEF Start
<1>4. ASSUME NEW p \in Procs, Acquire(p) PROVE Guarded'
  BY <1>4 DEF Acquire
<1>5. ASSUME NEW p \in Procs, AcquireHeld(p) PROVE Guarded'
  BY <1>5 DEF AcquireHeld
<1>6. ASSUME NEW p \in Procs, GiveUp(p) PROVE Guarded'
  BY <1>6 DEF GiveUp, Off
<1>7. ASSUME NEW p \in Procs, AcquireFails(p) PROVE Guarded'
  BY <1>7 DEF AcquireFails, Off
<1>8. ASSUME NEW p \in Procs, Recovered(p) PROVE Guarded'
  BY <1>8 DEF Recovered
<1>9. ASSUME NEW p \in Procs, RecoverFails(p) PROVE Guarded'
  BY <1>9 DEF RecoverFails, Off
<1>10. ASSUME NEW p \in Procs, BeginRenew(p) PROVE Guarded'
  BY <1>10 DEF BeginRenew
<1>11. ASSUME NEW p \in Procs, Renewed(p) PROVE Guarded'
  BY <1>11 DEF Renewed, Stamp
<1>12. ASSUME NEW p \in Procs, RenewalFenced(p) PROVE Guarded'
  BY <1>12 DEF RenewalFenced
<1>13. ASSUME NEW p \in Procs, RenewalFails(p) PROVE Guarded'
  BY <1>13 DEF RenewalFails
<1>14. ASSUME NEW p \in Procs, ServiceReturns(p) PROVE Guarded'
  BY <1>14 DEF ServiceReturns
<1>15. ASSUME NEW p \in Procs, Close(p) PROVE Guarded'
  BY <1>15 DEF Close
<1>16. ASSUME NEW p \in Procs, CloseReleases(p) PROVE Guarded'
  BY <1>16 DEF CloseReleases
<1>17. ASSUME NEW p \in Procs, Exit(p) PROVE Guarded'
  BY <1>17 DEF Exit, Off
<1> QED
  BY <1>1, <1>2, <1>3, <1>4, <1>5, <1>6, <1>7, <1>8, <1>9, <1>10, <1>11, <1>12,
     <1>13, <1>14, <1>15, <1>16, <1>17 DEF Next

\* While q can prove authority, the row belongs to q: it is neither free for another
\* process nor that process's to renew or release.
LEMMA ProvenExcludes ==
  ASSUME TypeOK, GuardBacked, Guarded, NEW p \in Procs, NEW q \in Procs, p # q, Proven(q)
  PROVE  ~Free(p) /\ ~Mine(p)
  BY SMTT(30), LeaseAssumption DEF TypeOK, GuardBacked, Guarded, Proven, Mine, Free, Holding, Expiry, Time

\* Every step keeps the guard's copy backed by the row.
LEMMA BackedStep == TypeOK /\ GuardBacked /\ Guarded /\ [Next]_vars => GuardBacked'
<1> SUFFICES ASSUME TypeOK, GuardBacked, Guarded, [Next]_vars,
                    NEW q \in Procs, Proven(q)'
             PROVE  (Mine(q) /\ row.exp >= lease[q].exp)'
  BY DEF GuardBacked
<1>0. Proven(q) => Mine(q) /\ row.exp >= lease[q].exp
  BY DEF GuardBacked
<1>T. TypeOK'
  BY TypeStep
<1> USE LeaseAssumption DEF TypeOK, Proven, Mine, Pcs, Time, Expiry, NoRow, NoLease,
        Goto, Sleep, Awake
<1>1. CASE UNCHANGED vars
  BY <1>0, <1>1 DEF vars
<1>2. CASE Tick
  BY <1>0, <1>2 DEF Tick
<1>3. ASSUME NEW p \in Procs, Start(p) PROVE (Mine(q) /\ row.exp >= lease[q].exp)'
  BY <1>0, <1>3 DEF Start
<1>4. ASSUME NEW p \in Procs, Acquire(p) PROVE (Mine(q) /\ row.exp >= lease[q].exp)'
  <2>1. CASE p = q
    BY <1>0, <1>4, <2>1 DEF Acquire
  <2>2. CASE p # q
    <3>1. Proven(q)
      BY <1>4, <2>2 DEF Acquire
    <3>2. ~Free(p) /\ ~Mine(p)
      BY <2>2, <3>1, ProvenExcludes
    <3> QED
      BY <1>0, <1>4, <2>2, <3>1, <3>2 DEF Acquire
  <2> QED
    BY <2>1, <2>2
<1>5. ASSUME NEW p \in Procs, AcquireHeld(p) PROVE (Mine(q) /\ row.exp >= lease[q].exp)'
  BY <1>0, <1>5 DEF AcquireHeld
<1>6. ASSUME NEW p \in Procs, GiveUp(p) PROVE (Mine(q) /\ row.exp >= lease[q].exp)'
  BY <1>0, <1>6 DEF GiveUp, Off
<1>7. ASSUME NEW p \in Procs, AcquireFails(p) PROVE (Mine(q) /\ row.exp >= lease[q].exp)'
  <2>1. CASE p = q
    BY <1>0, <1>7, <2>1 DEF AcquireFails, Off
  <2>2. CASE p # q
    <3>1. Proven(q)
      BY <1>7, <2>2 DEF AcquireFails, Off
    <3>2. ~Free(p) /\ ~Mine(p)
      BY <2>2, <3>1, ProvenExcludes
    <3> QED
      BY <1>0, <1>7, <2>2, <3>1, <3>2 DEF AcquireFails, Off
  <2> QED
    BY <2>1, <2>2
<1>8. ASSUME NEW p \in Procs, Recovered(p) PROVE (Mine(q) /\ row.exp >= lease[q].exp)'
  BY <1>0, <1>8 DEF Recovered
<1>9. ASSUME NEW p \in Procs, RecoverFails(p) PROVE (Mine(q) /\ row.exp >= lease[q].exp)'
  <2>1. CASE p = q
    BY <1>0, <1>9, <2>1 DEF RecoverFails, Off, Release
  <2>2. CASE p # q
    <3>1. Proven(q)
      BY <1>9, <2>2 DEF RecoverFails, Off
    <3>2. ~Free(p) /\ ~Mine(p)
      BY <2>2, <3>1, ProvenExcludes
    <3> QED
      BY <1>0, <1>9, <2>2, <3>1, <3>2 DEF RecoverFails, Off, Release
  <2> QED
    BY <2>1, <2>2
<1>10. ASSUME NEW p \in Procs, BeginRenew(p) PROVE (Mine(q) /\ row.exp >= lease[q].exp)'
  BY <1>0, <1>10 DEF BeginRenew
<1>11. ASSUME NEW p \in Procs, Renewed(p) PROVE (Mine(q) /\ row.exp >= lease[q].exp)'
  <2>1. CASE p = q
    BY <1>0, <1>11, <2>1 DEF Renewed, Renewable, Stamp
  <2>2. CASE p # q
    <3>1. Proven(q)
      BY <1>11, <2>2 DEF Renewed, Stamp
    <3>2. ~Free(p) /\ ~Mine(p)
      BY <2>2, <3>1, ProvenExcludes
    <3> QED
      BY <1>0, <1>11, <2>2, <3>1, <3>2 DEF Renewed, Stamp, Renewable
  <2> QED
    BY <2>1, <2>2
<1>12. ASSUME NEW p \in Procs, RenewalFenced(p) PROVE (Mine(q) /\ row.exp >= lease[q].exp)'
  BY <1>0, <1>12 DEF RenewalFenced
<1>13. ASSUME NEW p \in Procs, RenewalFails(p) PROVE (Mine(q) /\ row.exp >= lease[q].exp)'
  <2>1. CASE p = q
    BY <1>0, <1>13, <2>1 DEF RenewalFails, Renewable, Guarded, Stamp
  <2>2. CASE p # q
    <3>1. Proven(q)
      BY <1>13, <2>2 DEF RenewalFails
    <3>2. ~Free(p) /\ ~Mine(p)
      BY <2>2, <3>1, ProvenExcludes
    <3> QED
      BY <1>0, <1>13, <2>2, <3>1, <3>2 DEF RenewalFails, Renewable
  <2> QED
    BY <2>1, <2>2
<1>14. ASSUME NEW p \in Procs, ServiceReturns(p) PROVE (Mine(q) /\ row.exp >= lease[q].exp)'
  BY <1>0, <1>14 DEF ServiceReturns
<1>15. ASSUME NEW p \in Procs, Close(p) PROVE (Mine(q) /\ row.exp >= lease[q].exp)'
  BY <1>0, <1>15 DEF Close
<1>16. ASSUME NEW p \in Procs, CloseReleases(p) PROVE (Mine(q) /\ row.exp >= lease[q].exp)'
  <2>1. CASE p = q
    BY <1>0, <1>16, <2>1 DEF CloseReleases, Release
  <2>2. CASE p # q
    <3>1. Proven(q)
      BY <1>16, <2>2 DEF CloseReleases
    <3>2. ~Free(p) /\ ~Mine(p)
      BY <2>2, <3>1, ProvenExcludes
    <3> QED
      BY <1>0, <1>16, <2>2, <3>1, <3>2 DEF CloseReleases, Release
  <2> QED
    BY <2>1, <2>2
<1>17. ASSUME NEW p \in Procs, Exit(p) PROVE (Mine(q) /\ row.exp >= lease[q].exp)'
  BY <1>0, <1>17 DEF Exit, Off
<1> QED
  BY Zenon, <1>1, <1>2, <1>3, <1>4, <1>5, <1>6, <1>7, <1>8, <1>9, <1>10, <1>11, <1>12,
     <1>13, <1>14, <1>15, <1>16, <1>17 DEF Next

\* IInv holds in every reachable state.
LEMMA Inductive == Spec => []IInv
<1>1. IInv /\ [Next]_vars => IInv'
  BY TypeStep, GuardedStep, BackedStep DEF IInv
<1> QED
  BY InitIInv, <1>1, PTL DEF Spec

\* Every variable of the lease protocol stays in its domain.
THEOREM TypeCorrect == Spec => []TypeOK
<1>1. IInv => TypeOK
  BY DEF IInv
<1> QED
  BY Inductive, <1>1, PTL

\* The guard's copy of the lease is always backed by the durable row.
THEOREM CopyIsBacked == Spec => []GuardBacked
<1>1. IInv => GuardBacked
  BY DEF IInv
<1> QED
  BY Inductive, <1>1, PTL

\* No two controllers can prove authority at once (acquireAuthorityLease, renew).
THEOREM AuthorityIsSole == Spec => []SoleAuthority
<1>1. IInv => SoleAuthority
  BY DEF IInv, GuardBacked, SoleAuthority, Mine
<1> QED
  BY Inductive, <1>1, PTL

\* The row passes to another owner only after it expired or was released
\* (AcquireLease).
THEOREM IncumbentIsSafe == Spec => NeverSteals
<1> DEFINE Kept == row'.owner # row.owner /\ row'.token # 0
                     => row.token = 0 \/ row.exp <= now
<1>1. ASSUME TypeOK, [Next]_vars PROVE Kept
  <2> USE LeaseAssumption DEF TypeOK
  <2>1. CASE row' = row
    BY <2>1
  <2>2. ASSUME NEW p \in Procs, Acquire(p) \/ AcquireFails(p), row' # row PROVE Kept
    BY <2>2 DEF Acquire, AcquireFails, Free
  <2>3. ASSUME NEW p \in Procs, RecoverFails(p) \/ CloseReleases(p) PROVE Kept
    BY <2>3 DEF RecoverFails, CloseReleases, Release, NoRow
  <2>4. ASSUME NEW p \in Procs, Renewed(p) \/ RenewalFails(p) PROVE row'.owner = row.owner
    <3>1. row' = row \/ row' = [row EXCEPT !.exp = Stamp(p)]
      BY <2>4 DEF Renewed, RenewalFails
    <3>2. [row EXCEPT !.exp = Stamp(p)].owner = row.owner
      BY DEF TypeOK
    <3> QED
      BY Zenon, <3>1, <3>2
  <2>5. ASSUME NEW p \in Procs,
               \/ Start(p) \/ AcquireHeld(p) \/ GiveUp(p) \/ Recovered(p)
               \/ BeginRenew(p) \/ RenewalFenced(p) \/ ServiceReturns(p)
               \/ Close(p) \/ Exit(p)
        PROVE  row' = row
    BY <2>5 DEF Start, AcquireHeld, GiveUp, Recovered, BeginRenew, RenewalFenced,
       ServiceReturns, Close, Exit
  <2>6. CASE Tick \/ UNCHANGED vars
    BY <2>6 DEF Tick, vars
  <2> QED
    <3>1. CASE UNCHANGED vars
      BY <2>6, <3>1
    <3>2. CASE Next
      BY <2>1, <2>2, <2>3, <2>4, <2>5, <2>6, <3>2 DEF Next
    <3> QED
      BY <1>1, <3>1, <3>2
<1>2. TypeOK /\ [Next]_vars => [Kept]_vars
  BY <1>1
<1> QED
  BY TypeCorrect, <1>2, PTL DEF Spec, NeverSteals

\* A starting controller gives up only against an incumbent that wrote the row
\* after the wait began (acquireAuthorityLease; the window is no shorter than
\* the TTL).
THEOREM SuccessorIsPatient == Spec => PatientSuccessor
<1> DEFINE Patient == \A p \in Procs : GiveUp(p) => row.exp - TTL > start[p]
<1>1. TypeOK => Patient
  BY LeaseAssumption DEF TypeOK, GiveUp, Free, WindowClosed, Time, Expiry
<1>2. TypeOK /\ [Next]_vars => [Patient]_vars
  BY <1>1
<1> QED
  BY TypeCorrect, <1>2, PTL DEF Spec, PatientSuccessor

-----------------------------------------------------------------------------
(* The guard fails closed. On a host whose timers fire on time, and whose    *)
(* store recovers fast enough to leave room for one renewal interval, every  *)
(* pending deadline of a holder lies before the expiry of its lease.         *)

PromptHost == host = "prompt" /\ RecoverBound + Interval <= TTL

OnTime ==
  \A p \in Procs :
    /\ pc[p] = "recover" => now <= lease[p].exp - TTL + RecoverBound
    /\ pc[p] = "hold" => now <= wake[p] /\ wake[p] <= lease[p].exp
    /\ pc[p] = "renew" => now <= lease[p].exp

\* A host that is prompt after a step was prompt before it, and missed no timer.
LEMMA PromptFirst ==
  ASSUME TypeOK, [Next]_vars, PromptHost'
  PROVE  PromptHost /\ (Tick => \A p \in Procs : ~TimerDue(p))
<1>1. CASE Tick
  BY <1>1 DEF Tick, PromptHost
<1>2. CASE ~Tick
  <2>1. host' = host
    BY <1>2 DEF Next, vars, Start, Acquire, AcquireHeld, GiveUp, AcquireFails, Recovered,
       RecoverFails, BeginRenew, Renewed, RenewalFenced, RenewalFails, ServiceReturns,
       Close, CloseReleases, Exit
  <2> QED
    BY <1>2, <2>1 DEF PromptHost
<1> QED
  BY <1>1, <1>2

\* Every step of a prompt host keeps its holders on time.
LEMMA OnTimeStep ==
  ASSUME PromptHost', TypeOK, Guarded, PromptHost => OnTime, [Next]_vars PROVE OnTime'
<1>0. PromptHost /\ OnTime /\ (Tick => \A p \in Procs : ~TimerDue(p))
  BY PromptFirst
<1> USE <1>0, LeaseAssumption DEF TypeOK, PromptHost, OnTime, Pcs, Time, Expiry, NoRow, NoLease,
        Goto, Sleep, Awake
<1>1. CASE UNCHANGED vars
  BY <1>1 DEF vars
<1>2. CASE Tick
  BY <1>2 DEF Tick, TimerDue
<1>3. ASSUME NEW p \in Procs, Start(p) PROVE OnTime'
  BY SMTT(30), <1>3 DEF Start
<1>4. ASSUME NEW p \in Procs, Acquire(p) PROVE OnTime'
  BY SMTT(30), <1>4 DEF Acquire
<1>5. ASSUME NEW p \in Procs, AcquireHeld(p) PROVE OnTime'
  BY <1>5 DEF AcquireHeld
<1>6. ASSUME NEW p \in Procs, GiveUp(p) PROVE OnTime'
  BY <1>6 DEF GiveUp, Off
<1>7. ASSUME NEW p \in Procs, AcquireFails(p) PROVE OnTime'
  BY <1>7 DEF AcquireFails, Off
<1>8. ASSUME NEW p \in Procs, Recovered(p) PROVE OnTime'
  BY <1>8 DEF Recovered
<1>9. ASSUME NEW p \in Procs, RecoverFails(p) PROVE OnTime'
  BY <1>9 DEF RecoverFails, Off
<1>10. ASSUME NEW p \in Procs, BeginRenew(p) PROVE OnTime'
  BY <1>10 DEF BeginRenew
<1>11. ASSUME NEW p \in Procs, Renewed(p) PROVE OnTime'
  BY <1>11 DEF Renewed, Stamp, nextRenewal, Later, Guarded
<1>12. ASSUME NEW p \in Procs, RenewalFenced(p) PROVE OnTime'
  BY <1>12 DEF RenewalFenced
<1>13. ASSUME NEW p \in Procs, RenewalFails(p) PROVE OnTime'
  BY <1>13 DEF RenewalFails, renewRetryFits
<1>14. ASSUME NEW p \in Procs, ServiceReturns(p) PROVE OnTime'
  BY <1>14 DEF ServiceReturns
<1>15. ASSUME NEW p \in Procs, Close(p) PROVE OnTime'
  BY <1>15 DEF Close
<1>16. ASSUME NEW p \in Procs, CloseReleases(p) PROVE OnTime'
  BY <1>16 DEF CloseReleases
<1>17. ASSUME NEW p \in Procs, Exit(p) PROVE OnTime'
  BY <1>17 DEF Exit, Off
<1> QED
  BY Zenon, <1>1, <1>2, <1>3, <1>4, <1>5, <1>6, <1>7, <1>8, <1>9, <1>10, <1>11, <1>12,
     <1>13, <1>14, <1>15, <1>16, <1>17 DEF Next

\* On a prompt host a service that has not been told to stop never runs past the
\* expiry of its guard's lease (renew, nextRenewal, renewRetryFits).
THEOREM GuardFailsClosed == Spec => []FailsClosed
<1>1. Init => (PromptHost => OnTime)
  BY Zenon DEF Init, OnTime
<1>2. IInv /\ (PromptHost => OnTime) /\ [Next]_vars => (PromptHost => OnTime)'
  BY OnTimeStep DEF IInv
<1>3. IInv /\ (PromptHost => OnTime) => FailsClosed
  BY LeaseAssumption
     DEF IInv, TypeOK, PromptHost, OnTime, FailsClosed, InTime, Time, Expiry
<1> QED
  BY Inductive, <1>1, <1>2, <1>3, PTL DEF Spec

-----------------------------------------------------------------------------
(* Status: the log. *)

\* The limiter's memory is the newest line of its key, and each line is some
\* key's; what was reported is said, and lines of a key keep their distance.
LogInv ==
  /\ clock \in Nat
  /\ last \in [Status!Keys -> Status!Instant]
  /\ \A k \in Status!Keys : last[k] # None => last[k] <= clock /\ [key |-> k, at |-> last[k]] \in said
  /\ \A l \in said : l.key \in Status!Keys /\ l.at \in Nat /\ last[l.key] # None /\ l.at <= last[l.key]
  /\ \A c \in raised : c.at \in Nat
  /\ Status!NothingGoesUnsaid
  /\ Status!NeverDrowned

\* Reporting any keys at one instant keeps the log's invariant.
LEMMA SayKeeps ==
  ASSUME Status!Constants, LogInv, NEW keys \in SUBSET Status!Keys, Status!Say(keys), clock' = clock
  PROVE  LogInv'
PROOF
<1> DEFINE through == {k \in keys : Status!Admits(k)}
<1>1. /\ clock \in Nat /\ LogWindow \in Nat \ {0} /\ None \notin Nat
      /\ last \in [Status!Keys -> Nat \cup {None}]
      /\ last' = [k \in Status!Keys |-> IF k \in through THEN clock ELSE last[k]]
      /\ said' = said \cup Status!Said(through)
      /\ raised' = raised \cup Status!Said(keys)
  BY DEF Status!Constants, LogInv, Status!Say, Status!Instant
<1>2. \A k \in Status!Keys : k \in through <=> k \in keys /\ (last[k] = None \/ clock - last[k] >= LogWindow)
  BY DEF Status!Admits
<1>3. \A l : l \in Status!Said(through) <=> \E k \in through : l = [key |-> k, at |-> clock]
  BY DEF Status!Said
<1>4. \A c : c \in Status!Said(keys) <=> \E k \in keys : c = [key |-> k, at |-> clock]
  BY DEF Status!Said
<1>5. \A k \in Status!Keys : last[k] # None => last[k] \in Nat /\ last[k] <= clock /\ [key |-> k, at |-> last[k]] \in said
  BY <1>1 DEF LogInv
<1>6. \A l \in said : l.key \in Status!Keys /\ l.at \in Nat /\ last[l.key] # None /\ l.at <= last[l.key]
  BY DEF LogInv
<1>7. \A k \in Status!Keys : last'[k] = IF k \in through THEN clock ELSE last[k]
  BY <1>1
<1>8. last' \in [Status!Keys -> Status!Instant]
  BY <1>1 DEF Status!Instant
<1> HIDE DEF through
<1>9. \A k \in Status!Keys : last'[k] # None => last'[k] <= clock' /\ [key |-> k, at |-> last'[k]] \in said'
  <2> SUFFICES ASSUME NEW k \in Status!Keys, last'[k] # None
               PROVE  last'[k] <= clock' /\ [key |-> k, at |-> last'[k]] \in said'
    OBVIOUS
  <2>1. CASE k \in through
    BY <2>1, <1>1, <1>3, <1>7
  <2>2. CASE k \notin through
    BY <2>2, <1>1, <1>5, <1>7
  <2> QED BY <2>1, <2>2
<1>10. \A l \in said' : l.key \in Status!Keys /\ l.at \in Nat /\ last'[l.key] # None /\ l.at <= last'[l.key]
  <2> SUFFICES ASSUME NEW l \in said'
               PROVE  l.key \in Status!Keys /\ l.at \in Nat /\ last'[l.key] # None /\ l.at <= last'[l.key]
    OBVIOUS
  <2>1. CASE l \in Status!Said(through)
    <3>1. PICK k \in through : l = [key |-> k, at |-> clock]
      BY <2>1, <1>3
    <3>2. k \in Status!Keys
      BY DEF through
    <3> QED BY <3>1, <3>2, <1>1, <1>7
  <2>2. CASE l \in said
    <3>1. l.key \in Status!Keys /\ l.at \in Nat /\ last[l.key] # None /\ l.at <= last[l.key]
      BY <2>2, <1>6
    <3>2. last[l.key] \in Nat /\ last[l.key] <= clock
      BY <3>1, <1>5, Zenon
    <3> QED BY <3>1, <3>2, <1>1, <1>7
  <2> QED BY <2>1, <2>2, <1>1
<1>11. \A c \in raised' : c.at \in Nat
  BY <1>1, <1>4 DEF LogInv
<1>12. Status!NothingGoesUnsaid'
  <2> SUFFICES ASSUME NEW c \in raised'
               PROVE  \E l \in said' : l.key = c.key /\ l.at <= c.at /\ c.at - l.at < LogWindow
    BY DEF Status!NothingGoesUnsaid
  <2>1. CASE c \in raised
    BY <2>1, <1>1 DEF LogInv, Status!NothingGoesUnsaid
  <2>2. CASE c \in Status!Said(keys)
    <3>1. PICK k \in keys : c = [key |-> k, at |-> clock]
      BY <2>2, <1>4
    <3>2. k \in Status!Keys
      OBVIOUS
    <3>3. CASE k \in through
      <4> DEFINE l == [key |-> k, at |-> clock]
      <4>1. l \in said'
        BY <3>3, <1>1, <1>3
      <4>2. l.key = c.key /\ l.at <= c.at /\ c.at - l.at < LogWindow
        BY <3>1, <1>1
      <4> QED BY <4>1, <4>2
    <3>4. CASE k \notin through
      <4> DEFINE l == [key |-> k, at |-> last[k]]
      <4>1. last[k] # None /\ ~(clock - last[k] >= LogWindow)
        BY <3>2, <3>4, <1>2
      <4>2. last[k] \in Nat /\ last[k] <= clock /\ l \in said'
        BY <3>2, <4>1, <1>1, <1>5
      <4>3. l.key = c.key /\ l.at <= c.at /\ c.at - l.at < LogWindow
        BY <3>1, <4>1, <4>2, <1>1
      <4> QED BY <4>2, <4>3
    <3> QED BY <3>3, <3>4
  <2> QED BY <2>1, <2>2, <1>1
<1>13. Status!NeverDrowned'
  <2> SUFFICES ASSUME NEW l \in said', NEW m \in said', l.key = m.key, l.at < m.at
               PROVE  m.at - l.at >= LogWindow
    BY DEF Status!NeverDrowned
  <2>1. CASE l \in said /\ m \in said
    BY <2>1 DEF LogInv, Status!NeverDrowned
  <2>2. CASE m \in Status!Said(through)
    <3>1. PICK k \in through : m = [key |-> k, at |-> clock]
      BY <2>2, <1>3
    <3>2. k \in Status!Keys /\ (last[k] = None \/ clock - last[k] >= LogWindow)
      BY <1>2 DEF through
    <3>3. l \in said
      <4>1. CASE l \in Status!Said(through)
        BY <4>1, <3>1, <1>1, <1>3
      <4> QED BY <4>1, <1>1
    <3>4. last[k] # None /\ l.at <= last[k] /\ l.at \in Nat /\ last[k] \in Nat
      BY <3>1, <3>2, <3>3, <1>5, <1>6, Zenon
    <3> QED BY <3>1, <3>2, <3>4, <1>1
  <2>3. CASE l \in Status!Said(through) /\ m \in said
    <3>1. PICK k \in through : l = [key |-> k, at |-> clock]
      BY <2>3, <1>3
    <3>2. k \in Status!Keys
      BY DEF through
    <3>3. m.at \in Nat /\ last[k] # None /\ m.at <= last[k]
      BY <2>3, <3>1, <3>2, <1>6
    <3>4. last[k] \in Nat /\ last[k] <= clock
      BY <3>2, <3>3, <1>5, Zenon
    <3> QED BY <3>1, <3>3, <3>4, <1>1
  <2> QED BY <2>1, <2>2, <2>3, <1>1
<1> QED BY <1>1, <1>8, <1>9, <1>10, <1>11, <1>12, <1>13 DEF LogInv

\* A step that says nothing and does not turn the clock back keeps it too.
LEMMA QuietKeeps ==
  ASSUME Status!Constants, LogInv, UNCHANGED <<last, said, raised>>, clock' \in Nat, clock <= clock'
  PROVE  LogInv'
PROOF
<1>1. \A k \in Status!Keys : last[k] # None => last[k] \in Nat /\ last[k] <= clock
  BY Zenon DEF LogInv, Status!Instant
<1>2. \A k \in Status!Keys : last'[k] # None => last'[k] <= clock'
  BY <1>1 DEF LogInv
<1> QED BY <1>2 DEF LogInv, Status!NothingGoesUnsaid, Status!NeverDrowned

-----------------------------------------------------------------------------
(* What the ticker holds *)

\* The result in hand is one a tick returned.
TickInv ==
  /\ tick.at \in Nat
  /\ tick.facts \in [Instances -> Status!Fact]
  /\ tick.plan \in SUBSET Status!Operation
  /\ Status!PlannedOnVerdict(tick)

LEMMA NoTickIsOne == Status!Constants => TickInv \/ tick # Status!NoTick
PROOF
<1> SUFFICES ASSUME Status!Constants, tick = Status!NoTick PROVE TickInv
  OBVIOUS
<1>1. Status!NoFact \in Status!Fact
  BY DEF Status!NoFact, Status!Fact, Status!States, Status!Powers, Status!Instant
<1> QED BY <1>1 DEF TickInv, Status!NoTick, Status!PlannedOnVerdict

\* The keys a tick reports are keys of the limiter.
LEMMA TickKeysAreKeys == ASSUME TickInv PROVE Status!TickKeys(tick) \in SUBSET Status!Keys
PROOF
<1>1. Status!OccupancyKeys(tick) \subseteq Status!Keys
  <2> SUFFICES ASSUME NEW h \in Status!Occupancies(tick)
               PROVE  <<"occupancy", h.instance, IF h.overBudget THEN "exceeded" ELSE "approaching">> \in Status!Keys
    BY DEF Status!OccupancyKeys
  <2>1. h.instance \in Instances
    BY DEF Status!Occupancies
  <2>2. (IF h.overBudget THEN "exceeded" ELSE "approaching") \in {"exceeded", "approaching"}
    OBVIOUS
  <2> QED BY <2>1, <2>2 DEF Status!Keys
<1>2. Status!SilenceKeys(tick) \subseteq Status!Keys
  <2> SUFFICES ASSUME NEW s \in Status!GuestSilences(tick)
               PROVE  <<"guest", s.instance, IF s.unresponsive THEN "unresponsive" ELSE "silent">> \in Status!Keys
    BY DEF Status!SilenceKeys
  <2>1. s.instance \in Instances
    BY DEF Status!GuestSilences
  <2>2. (IF s.unresponsive THEN "unresponsive" ELSE "silent") \in {"unresponsive", "silent"}
    OBVIOUS
  <2> QED BY <2>1, <2>2 DEF Status!Keys
<1>3. Status!RetractedKeys(tick) \subseteq Status!Keys
  <2> SUFFICES ASSUME NEW i \in Instances PROVE <<"retracted", i, "">> \in Status!Keys
    BY DEF Status!RetractedKeys
  <2> QED BY DEF Status!Keys
<1>4. Status!UnreadableKeys(tick) \subseteq Status!Keys
  <2> SUFFICES ASSUME NEW i \in Instances, tick.facts[i].unreadable # None
               PROVE  <<"unreadable", i, tick.facts[i].unreadable>> \in Status!Keys
    BY DEF Status!UnreadableKeys
  <2>1. tick.facts[i] \in Status!Fact
    BY DEF TickInv
  <2>2. tick.facts[i].unreadable \in Reasons
    BY <2>1 DEF Status!Fact
  <2> QED BY <2>2 DEF Status!Keys
<1> QED BY <1>1, <1>2, <1>3, <1>4 DEF Status!TickKeys

\* A guest the plan reclaims as unanswering is one the tick reports so.
LEMMA VerdictIsReported ==
  ASSUME TickInv, NEW o \in tick.plan, "GuestUnresponsive" \in o.flags
  PROVE  <<"guest", o.instance, "unresponsive">> \in Status!TickKeys(tick)
PROOF
<1> DEFINE f == tick.facts[o.instance]
<1>1. o.instance \in Instances
  BY DEF TickInv, Status!Operation
<1>2. Status!GuestUnresponsive(f, tick.at)
  BY DEF TickInv, Status!PlannedOnVerdict
<1>3. Status!Live(f) /\ Status!Silent(f, tick.at)
  BY <1>2 DEF Status!GuestUnresponsive, Status!Confirmed, Status!Live
<1> HIDE DEF f
<1>4. [instance |-> o.instance, unresponsive |-> Status!GuestUnresponsive(f, tick.at)] \in Status!GuestSilences(tick)
  BY <1>1, <1>3 DEF Status!GuestSilences, f
<1> DEFINE s == [instance |-> o.instance, unresponsive |-> Status!GuestUnresponsive(f, tick.at)]
<1>5. s \in Status!GuestSilences(tick) /\ s.instance = o.instance /\ s.unresponsive
  BY <1>2, <1>4
<1> HIDE DEF s
<1>6. <<"guest", s.instance, IF s.unresponsive THEN "unresponsive" ELSE "silent">> \in Status!SilenceKeys(tick)
  BY <1>5 DEF Status!SilenceKeys
<1> QED BY <1>5, <1>6 DEF Status!TickKeys

\* A hold the plan reclaims as over its budget is one the tick reports so.
LEMMA ExceededIsReported ==
  ASSUME Status!Constants, TickInv, NEW o \in tick.plan, "OccupancyExceeded" \in o.flags
  PROVE  <<"occupancy", o.instance, "exceeded">> \in Status!TickKeys(tick)
PROOF
<1> DEFINE f == tick.facts[o.instance]
<1>1. o.instance \in Instances
  BY DEF TickInv, Status!Operation
<1>2. Status!OccupancyExceeded(f, tick.at)
  BY DEF TickInv, Status!PlannedOnVerdict
<1>3. f \in Status!Fact
  BY <1>1 DEF TickInv
<1>4. Status!Held(f, tick.at) /\ Status!OverBudget(f, tick.at) /\ f.profile \in Profiles
  BY <1>2 DEF Status!OccupancyExceeded
<1>5. f.occupiedSince \in Nat /\ tick.at \in Nat /\ f.occupiedSince <= tick.at
  BY <1>3, <1>4 DEF Status!Held, Status!Fact, Status!Instant, TickInv
<1>6. Status!BudgetOf(f) \in Nat
  BY <1>4 DEF Status!BudgetOf, Status!Constants
<1>7. (3 * Status!BudgetOf(f)) \div 4 \in Nat /\ (3 * Status!BudgetOf(f)) \div 4 <= Status!BudgetOf(f)
  BY <1>6
<1>8. Status!Warned(f, tick.at)
  BY <1>4, <1>5, <1>6, <1>7 DEF Status!Warned, Status!OverBudget
<1> DEFINE h == [instance |-> o.instance, warned |-> Status!Warned(f, tick.at),
                 overBudget |-> Status!OverBudget(f, tick.at), starves |-> f.fitsQueued]
<1>9. h \in Status!Occupancies(tick)
  BY <1>1, <1>4, Zenon DEF Status!Occupancies
<1>10. h.instance = o.instance /\ h.warned /\ h.overBudget
  BY <1>4, <1>8, Zenon
<1> HIDE DEF h
<1>11. <<"occupancy", h.instance, IF h.overBudget THEN "exceeded" ELSE "approaching">> \in Status!OccupancyKeys(tick)
  BY <1>9, <1>10 DEF Status!OccupancyKeys
<1> QED BY <1>10, <1>11 DEF Status!TickKeys
-----------------------------------------------------------------------------
(* The invariant of the log, step by step *)

\* What the ticker holds, what the log holds, and that a reclaim on a verdict
\* was reported at its own instant.
SayInv == TickInv /\ LogInv /\ drained \subseteq raised

LEMMA SayInit == Status!Constants /\ Status!Init => SayInv
PROOF
<1> SUFFICES ASSUME Status!Constants, Status!Init PROVE SayInv
  OBVIOUS
<1>1. TickInv
  BY NoTickIsOne DEF Status!Init
<1>2. LogInv
  BY DEF Status!Init, LogInv, Status!Instant, Status!NothingGoesUnsaid, Status!NeverDrowned
<1> QED BY <1>1, <1>2 DEF SayInv, Status!Init

LEMMA SayStep == ASSUME Status!Constants, SayInv, [Status!Next]_(Status!vars) PROVE SayInv'
PROOF
<1>1. TickInv /\ LogInv /\ drained \subseteq raised /\ clock \in Nat
  BY DEF SayInv, LogInv
<1>2. ASSUME UNCHANGED <<last, said, raised, drained>>, clock' \in Nat, clock <= clock', TickInv'
      PROVE  SayInv'
  BY <1>1, <1>2, QuietKeeps DEF SayInv
<1>3. ASSUME UNCHANGED tick PROVE TickInv'
  BY <1>1, <1>3 DEF TickInv, Status!PlannedOnVerdict
<1>4. CASE Status!Advance
  BY <1>1, <1>2, <1>3, <1>4 DEF Status!Advance
<1>5. CASE Status!TickFails
  BY <1>1, <1>2, <1>3, <1>5 DEF Status!TickFails
<1>6. CASE Status!TickReturns
  <2>1. PICK r \in Status!Result :
          /\ Status!PlannedOnVerdict(r)
          /\ tick' = [at |-> r.at, facts |-> r.facts, plan |-> r.plan, ready |-> r.ready,
                      holds |-> r.holds, letters |-> {}, retrying |-> 0]
    BY <1>6, Zenon DEF Status!TickReturns
  <2>2. r.at \in Nat /\ r.facts \in [Instances -> Status!Fact] /\ r.plan \in SUBSET Status!Operation
    BY DEF Status!Result
  <2>3. tick'.at = r.at /\ tick'.facts = r.facts /\ tick'.plan = r.plan
    BY <2>1
  <2>4. TickInv'
    BY <2>1, <2>2, <2>3 DEF TickInv, Status!PlannedOnVerdict
  <2> QED BY <1>1, <1>2, <1>6, <2>4 DEF Status!TickReturns
<1>7. CASE Status!CountInstances
  BY <1>1, <1>2, <1>3, <1>7 DEF Status!CountInstances
<1>8. CASE Status!Speak
  <2>1. Status!Say(Status!TickKeys(tick)) /\ clock' = clock /\ tick' = tick
    BY <1>8 DEF Status!Speak
  <2>2. LogInv'
    BY <1>1, <2>1, SayKeeps, TickKeysAreKeys
  <2>3. raised' = raised \cup {[key |-> k, at |-> clock] : k \in Status!TickKeys(tick)}
    BY <2>1, Zenon DEF Status!Say, Status!Said
  <2>4. Status!VerdictsOf(tick.plan) \subseteq Status!TickKeys(tick)
    BY <1>1, VerdictIsReported, ExceededIsReported DEF Status!VerdictsOf
  <2>5. drained' = drained \cup {[key |-> k, at |-> clock] : k \in Status!VerdictsOf(tick.plan)}
    BY <1>8 DEF Status!Speak, Status!Said
  <2>6. drained' \subseteq raised'
    BY <1>1, <2>3, <2>4, <2>5
  <2> QED BY <1>3, <2>1, <2>2, <2>6 DEF SayInv
<1>9. CASE Status!ReadFails
  BY <1>1, <1>2, <1>3, <1>9 DEF Status!ReadFails
<1>10. CASE Status!ReadReturns
  <2>1. tick'.at = tick.at /\ tick'.facts = tick.facts /\ tick'.plan = tick.plan
    BY <1>10 DEF Status!ReadReturns
  <2>2. TickInv'
    BY <1>1, <2>1 DEF TickInv, Status!PlannedOnVerdict
  <2> QED BY <1>1, <1>2, <1>10, <2>2 DEF Status!ReadReturns
<1>11. CASE Status!SetOperations
  BY <1>1, <1>2, <1>3, <1>11 DEF Status!SetOperations
<1>12. CASE Status!SetDeadLetters
  BY <1>1, <1>2, <1>3, <1>12 DEF Status!SetDeadLetters
<1>13. CASE Status!MarkFresh
  BY <1>1, <1>2, <1>3, <1>13 DEF Status!MarkFresh
<1>14. ASSUME NEW keys \in SUBSET Status!Keys, Status!Say(keys), UNCHANGED <<clock, tick, drained>>
       PROVE  SayInv'
  <2>1. LogInv'
    BY <1>1, <1>14, SayKeeps
  <2>2. drained' \subseteq raised'
    BY <1>1, <1>14 DEF Status!Say
  <2> QED BY <1>3, <1>14, <2>1, <2>2 DEF SayInv
<1>15. ASSUME NEW c \in Components, NEW reason \in Reasons \cup {None}, Status!Report(c, reason)
       PROVE  SayInv'
  <2>a. <<"component", c, reason>> \in {"component"} \X Components \X (Reasons \cup {None})
    OBVIOUS
  <2>1. {<<"component", c, reason>>} \in SUBSET Status!Keys
    BY <2>a, Zenon DEF Status!Keys, Status!LoopKeys
  <2> QED BY <1>14, <1>15, <2>1 DEF Status!Report
<1>16. ASSUME NEW o \in Observations, NEW reason \in Reasons,
              Status!ReportReconcile(o, reason) \/ Status!ReportBinding(o, reason)
       PROVE  SayInv'
  <2>1. /\ <<"reconcile", o, reason>> \in {"reconcile", "binding"} \X Observations \X Reasons
        /\ <<"binding", o, reason>> \in {"reconcile", "binding"} \X Observations \X Reasons
    OBVIOUS
  <2>2. {<<"reconcile", o, reason>>} \in SUBSET Status!Keys /\ {<<"binding", o, reason>>} \in SUBSET Status!Keys
    BY <2>1, Zenon DEF Status!Keys, Status!LoopKeys
  <2> QED BY <1>14, <1>16, <2>2 DEF Status!ReportReconcile, Status!ReportBinding
<1>17. CASE UNCHANGED Status!vars
  BY <1>1, <1>2, <1>3, <1>17 DEF Status!vars
<1> QED BY <1>4, <1>5, <1>6, <1>7, <1>8, <1>9, <1>10, <1>11, <1>12, <1>13, <1>15, <1>16, <1>17 DEF Status!Next

LEMMA SayAlways == ASSUME Status!Constants PROVE Status!Spec => []SayInv
PROOF
<1>1. Status!Init => SayInv
  BY SayInit
<1>2. SayInv /\ [Status!Next]_(Status!vars) => SayInv'
  BY SayStep
<1> QED BY <1>1, <1>2, PTL DEF Status!Spec

\* failureReporter.admit never swallows the first report of a condition: each
\* one reported has a line of its own key less than a window older.
THEOREM ReportsAreSaid == ASSUME Status!Constants PROVE Status!Spec => []Status!NothingGoesUnsaid
PROOF
<1>1. SayInv => Status!NothingGoesUnsaid
  BY DEF SayInv, LogInv
<1> QED BY <1>1, SayAlways, PTL

\* failureReporter.admit keeps the lines of one key a window apart.
THEOREM LogIsBounded == ASSUME Status!Constants PROVE Status!Spec => []Status!NeverDrowned
PROOF
<1>1. SayInv => Status!NeverDrowned
  BY DEF SayInv, LogInv
<1> QED BY <1>1, SayAlways, PTL

\* A reclaim planned on a verdict has the verdict's line: recordGuestLiveness
\* and recordOccupancy report from the predicates the plan was made with.
THEOREM DrainsAreAnnounced == ASSUME Status!Constants PROVE Status!Spec => []Status!DrainIsAnnounced
PROOF
<1>1. SayInv => Status!DrainIsAnnounced
  BY DEF SayInv, LogInv, Status!NothingGoesUnsaid, Status!DrainIsAnnounced
<1> QED BY <1>1, SayAlways, PTL
=============================================================================
