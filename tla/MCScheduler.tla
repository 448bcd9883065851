---------------------------- MODULE MCScheduler ----------------------------
EXTENDS Scheduler, Headroom

Vec(c, m) == [cpu |-> c, mem |-> m, slots |-> 1]
Prof(platform, v, max) == [platform |-> platform, res |-> v, max |-> max]
J(repo, profile) == [repo |-> repo, scope |-> repo, profile |-> profile, pull |-> TRUE, rank |-> 0]

Profiles == [small |-> Prof("linux", Vec(1, 1), 0), large |-> Prof("linux", Vec(2, 2), 0),
             builder |-> Prof("macos", Vec(2, 2), 1), maestro |-> Prof("macos", Vec(1, 1), 2), tester |-> Prof("macos", Vec(1, 1), 1)]
Calm == [press |-> 0, faults |-> 0, cancels |-> 0, forget |-> 0]
Node(jobs, mishaps, flags) ==
  [jobs |-> jobs, mishaps |-> mishaps,
   capacity |-> [cpu |-> 2, mem |-> 2, slots |-> 2], total |-> [cpu |-> 2, mem |-> 2, slots |-> 2],
   budget |-> Zero, profiles |-> Profiles, fairness |-> 1, escalation |-> 0,
   caps |-> [r \in Repos |-> IF "wide" \in flags THEN 2 ELSE 1], control |-> [r \in Repos |-> FALSE],
   exclusive |-> "exclusive" \in flags, mixed |-> "mixed" \in flags,
   cohorts |-> "cohorts" \in flags, elastic |-> "elastic" \in flags,
   blind |-> "blind" \in flags]

\* s1 and s2 are jobs of one repository and one scale set: their runners may
\* trade jobs, and a cap of one guest lets only one of them start.
MCJob == [s1 |-> J(1, "small"), s2 |-> J(1, "small"), s3 |-> J(2, "small"),
          l1 |-> J(3, "large"), m1 |-> J(4, "maestro"), b1 |-> J(5, "builder"), t1 |-> J(6, "tester")]
Three == {"s1", "l1", "m1"}
MCNodes ==
  {Node({"l1", "m1"}, Calm, {}), Node(Three, Calm, {"mixed"}),
   Node({"s1", "m1", "t1"}, Calm, {"exclusive"}),
   Node({"m1", "b1"}, Calm, {"mixed", "cohorts"}),
   Node({"s1", "l1"}, [Calm EXCEPT !.press = 1], {"elastic"}),
   Node({"l1", "m1"}, [Calm EXCEPT !.faults = 1], {"mixed", "cohorts", "elastic"}),
   Node({"s1", "s2"}, Calm, {"wide", "blind"}),
   Node({"s1", "b1"}, [Calm EXCEPT !.forget = 1], {}),
   Node({"s1", "s2", "s3"}, Calm, {}),
   Node({"s1", "m1"}, [Calm EXCEPT !.cancels = 1], {})}
\* Two macOS profiles waiting behind one Linux guest.
TwoProfiles == {Node({"s1", "m1", "b1"}, Calm, {"mixed"})}

----------------------------------------------------------------------------
(* The partition of the headroom, against what it promises, over small     *)
(* nodes: some guests, some queued demands, any claims.                    *)
Guest1(d, state, cf) ==
  [id |-> <<d, 1>>, demand |-> d, repo |-> Job[d].repo, scope |-> Job[d].scope,
   profile |-> Job[d].profile, res |-> cf.profiles[Job[d].profile].res, state |-> state,
   power |-> "running", late |-> FALSE, charge |-> FALSE, ready |-> FALSE,
   inactive |-> FALSE, over |-> FALSE, dead |-> FALSE]
Observed(cf, guests, queued, idle) ==
  [cfg |-> cf, demands |-> queued, since |-> [d \in DOMAIN Job |-> 1],
   age |-> [d \in DOMAIN Job |-> 0], inst |-> guests,
   avail |-> [cf.total EXCEPT !.cpu = idle], total |-> cf.total, prior |-> NoState]
Inputs ==
  LET cf == Node({}, Calm, {"elastic"})
      G(d) == {Guest1(d, st, cf) : st \in {"booting", "draining"}}
  IN {Observed(cf, g, q, idle) :
        g \in {{}} \cup {{i} : i \in G("s1") \cup G("m1")} \cup {{i, j} : i \in G("s1"), j \in G("m1")},
        q \in SUBSET {"s3", "t1"}, idle \in {0, 2}}
Claims == {<<[profile |-> "small", room |-> r, waiting |-> w],
             [profile |-> "maestro", room |-> 2, waiting |-> 1 - w],
             [profile |-> "gone", room |-> 2, waiting |-> 1],
             [profile |-> "tester", room |-> r, waiting |-> 0]>> : r \in 0 .. 2, w \in 0 .. 1}
\* Everything offered could start at once; no set is refused what still fits;
\* and no set is offered a speculative unit before the jobs GitHub shows
\* waiting for another set that the same room would hold.
PartitionKeepsItsPromise ==
  \A in \in Inputs, claims \in Claims, start \in 0 .. 3 :
    LET shares == PartitionHeadroom(in, claims, start)
        Capped(k) == Min({shares[k], Urgent(claims[k])})
        urgent == [k \in DOMAIN claims |-> Capped(k)]
    IN /\ CanFit(Residual(in), Charges(in, claims, shares))
       /\ \A k \in DOMAIN claims : shares[k] = Unsized <=> claims[k].profile = "gone"
       /\ \A k \in DOMAIN claims :
            0 <= shares[k] /\ shares[k] < claims[k].room => ~CanGrant(in, claims, shares, k)
       /\ \A k, l \in DOMAIN claims :
            /\ 0 <= shares[k] /\ shares[k] < Urgent(claims[k])
            /\ shares[l] > Urgent(claims[l])
            => ~CanGrant(in, claims, urgent, k)
\* A set never advertises more than it is configured for, nor less than it
\* holds, and an ungated set with no work waiting always has one free slot.
AdvertisesWhatItHolds ==
  \A in \in Inputs, capacity \in 0 .. 3, assigned \in 0 .. 2, fresh, gated \in BOOLEAN :
    LET bindings == <<[scope |-> 1, profile |-> "small", capacity |-> capacity,
                       assigned |-> assigned, fresh |-> fresh, undelivered |-> 0]>>
        row == ScaleSetHeadroom(in, bindings, gated, 0)[1]
        sent == AdvertisedCapacity(capacity, row, TRUE)
    IN /\ sent <= capacity /\ sent >= Min({capacity, row.held})
       /\ ~gated /\ ~row.stranded /\ row.held = row.placed /\ capacity > row.held => sent > row.held
ASSUME HeadroomExamples == PartitionKeepsItsPromise /\ AdvertisesWhatItHolds

\* A stream of small jobs beside one large one.
StreamNodes == {Node({"s1", "s3", "l1"}, Calm, {})}
=============================================================================
