------------------------------- MODULE MCDemand -------------------------------
(* A small instance of Demand: one binding on a shared label beside one of *)
(* another profile, a job that is re-run under a second request and a      *)
(* second job of the shared label.                                         *)
EXTENDS Demand

CONSTANTS k1, k2

Label(shape, os, id) == [shape |-> shape, os |-> os, id |-> id]
Small == Label("route", "linux", "trf-linux-2x4")
Large == Label("route", "linux", "trf-linux-4x8")
Set(profile, os, set, labels, shared) ==
  [scope |-> "s", set |-> set, profile |-> profile, platform |-> os,
   route |-> CHOOSE l \in labels : TRUE, targets |-> {"r"},
   labels |-> {SelfHosted} \cup labels, required |-> {}, shared |-> shared]
MCOwn == Set("small", "linux", 1, {Small}, TRUE)
MCBindings == {MCOwn, Set("large", "linux", 2, {Large}, FALSE)}
MCJob == [k \in Jobs |-> [repo |-> "r", id |-> IF k = k1 THEN 1 ELSE 2,
                          labels |-> {SelfHosted, Small}]]
MCShares == {[available |-> 0, held |-> 0], [available |-> 1, held |-> 0]}
TwoAttempts == [r \in Requests |-> [job |-> k1, attempt |-> r, preassigned |-> r = 2]]

----------------------------------------------------------------------------
(* The routing cases the repository's tests pin (demand_foreign_size,      *)
(* _foreign_os_label and _sibling_alias tests of internal/app).            *)
Asking(labels) == [repo |-> "r", labels |-> {SelfHosted} \cup labels]
Gpu == Label("plain", "none", "gpu")
Alias == Label("alias", "linux", "linux-go-4x8")
Builder == Label("plain", "linux", "linux-builder")
OS(os) == Label("os", os, os)
MacSet == Set("mac", "macos", 12, {Label("route", "macos", "trf-macos-4x7")}, FALSE)
Peer(scope, set, name, labels) ==
  [scope |-> scope, set |-> set, name |-> name, labels |-> {SelfHosted} \cup labels]
Mini == Label("plain", "none", "trf-mini-go")
Sibling == Peer("s", 20, Mini, {Alias, Mini})

ASSUME RoutingExamples ==
  /\ ~Unroutable({MCOwn}, Asking({Large}), {})
  /\ ~Unroutable({MCOwn}, Asking({OS("linux"), Large}), {})
  /\ \A L \in {{Large, Gpu}, {Large, Label("route", "linux", "trf-linux-8x16")}, {Builder}} :
       Unroutable({MCOwn}, Asking(L), {})
  /\ ~Unroutable({MacSet}, Asking({OS("linux"), Builder}), {})
  /\ Unroutable({MacSet, MCOwn}, Asking({OS("linux"), Builder}), {})
  /\ \A b \in {MCOwn, MacSet} : Unroutable({b}, Asking({OS("macos"), Builder}), {})
  /\ ~Unroutable({MCOwn}, Asking({Alias}), {Sibling})
  /\ \A P \in {{}, {Peer("other", 20, Mini, {Alias})}, {Peer("s", 1, Mini, {Alias})},
               {Peer("s", 20, Small, {Alias})}} : Unroutable({MCOwn}, Asking({Alias}), P)
  /\ Unroutable({MCOwn}, Asking({Alias, Gpu}),
                {Sibling, Peer("s", 21, Label("plain", "none", "trf-gpu"), {Gpu})})
=============================================================================
