------------------------------ MODULE Headroom ------------------------------
(***************************************************************************)
(* What a node tells GitHub it could still start: the partition of its     *)
(* residual envelope among the scale sets that draw on it                  *)
(* (scheduler.PartitionHeadroom), and the capacity each set advertises on  *)
(* its next poll (app.AdvertisedCapacity).                                 *)
(*                                                                         *)
(* A claim is [profile, room, waiting]; a binding is                       *)
(* [scope, profile, capacity, assigned, fresh, undelivered]: GitHub's count *)
(* of the set's assigned jobs and whether it is recent enough to be used.  *)
(***************************************************************************)
EXTENDS Planner

Unsized == -1
Unbounded == 1000000   \* math.MaxInt

Exhaust(free, owed) == [x \in Dims |-> Max({0, free[x] - owed[x]})]
ExhaustAll(free, in, S) == Exhaust(free, TotalOf(LAMBDA d : Vector(in, d), S))
Unserved(in, S) == {d \in S : \A i \in in.inst : IncarnatesDemand(i) => i.demand # d}
CohortSize(in, p) ==
  MacActive(in, p) + Cardinality({d \in Unserved(in, in.demands) : Job[d].profile = p})

\* What is left once every queued demand has been charged its vector.
Residual(in) == ExhaustAll(LinuxFreeAged(in), in, Unserved(in, in.demands))
IsUnsized(in, c) == c.profile \notin DOMAIN in.cfg.profiles
CohortRoom(in, p) ==
  IF in.cfg.profiles[p].platform # "macos" THEN in.cfg.capacity.slots
  ELSE Max({0, MacProfileLimit(in, p) - CohortSize(in, p)})

\* One attempt to grant one unit to claim k, up to a limit: the shares so far
\* are the whole state, since what they charge is what is gone.
SharesOf(claims, shares, p) ==
  MapThenSumSet(LAMBDA k : IF claims[k].profile = p THEN shares[k] ELSE 0, DOMAIN claims)
Charges(in, claims, shares) ==
  [x \in Dims |-> MapThenSumSet(LAMBDA k : IF shares[k] = Unsized THEN 0
                     ELSE shares[k] * in.cfg.profiles[claims[k].profile].res[x], DOMAIN claims)]
CanGrant(in, claims, shares, k) ==
  /\ CanFit(Exhaust(Residual(in), Charges(in, claims, shares)), in.cfg.profiles[claims[k].profile].res)
  /\ SharesOf(claims, shares, claims[k].profile) < CohortRoom(in, claims[k].profile)
Grant(in, claims, Limit(_), shares, k) ==
  IF shares[k] # Unsized /\ shares[k] < Limit(claims[k]) /\ CanGrant(in, claims, shares, k)
  THEN [shares EXCEPT ![k] = @ + 1] ELSE shares

Urgent(c) == Min({c.room, c.waiting})
Rotated(claims, start) == [n \in DOMAIN claims |-> ((start + n - 1) % Len(claims)) + 1]
\* A refused unit is refused for good, so as many rounds as there are slots
\* end both passes.
PartitionHeadroom(in, claims, start) ==
  LET round == Rotated(claims, start)
      rounds == FlattenSeq([n \in 1 .. in.cfg.capacity.slots |-> round])
      First(s, k) == Grant(in, claims, Urgent, s, k)
      Second(s, k) == Grant(in, claims, LAMBDA c : c.room, s, k)
      none == [k \in DOMAIN claims |-> IF IsUnsized(in, claims[k]) THEN Unsized ELSE 0]
  IN FoldLeft(Second, FoldLeft(First, none, rounds), rounds)

----------------------------------------------------------------------------
(* Could a Linux profile start here once this node's Linux work is over?   *)
HoldsMeasuredMemory(s) == s \notin {"planned", "cloning"}
DrainedMemory(in) ==
  Max({0, in.avail.mem}) +
  MapThenSumSet(LAMBDA i : i.res.mem, {i \in OnLinux(in) : HoldsMeasuredMemory(i.state)})
FitsOnceLinuxDrains(in, p) ==
  LET drained == [in EXCEPT !.avail = [cpu |-> Unbounded, mem |-> DrainedMemory(in), slots |-> Unbounded]]
      staying == {i \in in.inst : PlatformOf(in, i) # "linux"}
      macos == {d \in Unserved(in, in.demands) : Profile(in, d).platform = "macos"}
  IN \/ p \notin DOMAIN in.cfg.profiles
     \/ in.cfg.profiles[p].platform # "linux"
     \/ CanFit(ExhaustAll(FreeCapacity(drained, staying, TRUE), in, macos), in.cfg.profiles[p].res)

----------------------------------------------------------------------------
(* The advertisement.                                                      *)
AdvertisedCapacity(configured, row, known) ==
  LET offered == row.held + Max({0, row.fit})
      standing == IF row.gated \/ row.stranded THEN offered ELSE Max({offered, row.placed + 1})
  IN IF known THEN Max({0, Min({configured, standing})}) ELSE configured

ServedBy(b, d) == Job[d].scope = b.scope /\ Job[d].profile = b.profile
BrokerHeld(b) == IF b.fresh THEN b.assigned ELSE 0
HeadroomRow(in, b, gated) ==
  LET placed == Cardinality({i \in in.inst : /\ HoldsAssignment(i) /\ i.profile = b.profile
                                             /\ i.scope = b.scope})
      queued == Cardinality({d \in in.demands : ServedBy(b, d)})
  IN [held |-> Max({queued + placed, BrokerHeld(b)}), placed |-> placed, gated |-> gated,
      stranded |-> ~FitsOnceLinuxDrains(in, b.profile), fit |-> 0]
ScaleSetHeadroom(in, bindings, gated, start) ==
  LET rows == [k \in DOMAIN bindings |-> HeadroomRow(in, bindings[k], gated)]
      claims == [k \in DOMAIN bindings |->
                   [profile |-> bindings[k].profile,
                    room |-> IF bindings[k].capacity > 0
                             THEN Max({0, bindings[k].capacity - rows[k].held}) ELSE in.cfg.capacity.slots,
                    waiting |-> bindings[k].undelivered]]
      shares == PartitionHeadroom(in, claims, start)
  IN [k \in DOMAIN bindings |-> [rows[k] EXCEPT !.fit = shares[k]]]
=============================================================================
