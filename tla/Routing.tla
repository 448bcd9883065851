------------------------------- MODULE Routing -------------------------------
(***************************************************************************)
(* How a queued job of GitHub's REST inventory finds the scale sets of     *)
(* this node that may receive it (internal/app/demand.go), and when a job  *)
(* no local set matches is proven another node's work instead of failing   *)
(* the whole observation.                                                  *)
(*                                                                         *)
(* A label is a record: its shape (`self` is self-hosted, `os` GitHub's    *)
(* standard OS label, `route` a canonical trf-<os>-<arch>-<size>, `alias`  *)
(* an <os>-<word>-<size>, `plain` anything else), the platform its text    *)
(* starts with, and its identity. Comparison is case-folded in the code,   *)
(* so identities stand for folded names.                                   *)
(*                                                                         *)
(* A binding has: scope, set (the scale-set id), profile, platform, route, *)
(* targets, labels, required, shared.  A job has: repo, labels.            *)
(***************************************************************************)
EXTENDS FiniteSets

Platforms == {"linux", "macos"}
Other(platform) == CHOOSE p \in Platforms : p # platform
SelfHosted == [shape |-> "self", os |-> "none", id |-> "self-hosted"]

Accepts(b, repo) == b.targets = {} \/ repo \in b.targets
AcceptsLabels(b, labels) == b.required \subseteq labels

(* GitHub gives a job to a set that advertises every label it asks for.    *)
MatchesRESTLabels(b, labels) ==
  /\ AcceptsLabels(b, labels)
  /\ IF b.labels = {} THEN b.route \in labels ELSE labels \subseteq b.labels

Matching(bs, job) ==
  {b \in bs : Accepts(b, job.repo) /\ MatchesRESTLabels(b, job.labels)}

(* Federated peers serve one queue; any other double match is a conflict.  *)
Interchangeable(l, r) == l.scope = r.scope /\ l.profile = r.profile
Conflicting(bs, job) ==
  \E l, r \in Matching(bs, job) : ~Interchangeable(l, r)

Accepting(bs, job) == {b \in bs : Accepts(b, job.repo)}

UnservedPlatform(bs, job, platform) ==
  /\ Accepting(bs, job) # {}
  /\ \A b \in Accepting(bs, job) : b.platform # platform

(* The platform named by a standard OS label no other label contradicts.   *)
StandardOS(job) ==
  {p \in Platforms :
     /\ \E l \in job.labels : l.shape = "os" /\ l.os = p
     /\ \A l \in job.labels : l.os # Other(p)}

Routed(job) == job.labels \ {SelfHosted}

(* The canonical route of the job, when its other labels only repeat the   *)
(* platform: a set of at most one label.                                   *)
CanonicalRoute(job) ==
  LET routes == {l \in job.labels : l.shape = "route"}
  IN {r \in routes : /\ Cardinality(routes) = 1
                     /\ \A l \in job.labels \ {r, SelfHosted} :
                          l.shape = "os" /\ l.os = r.os}

(* A set of the route's own platform that advertises no canonical route at *)
(* all may still be the one the job means.                                 *)
RouteUnserved(bs, job, r) ==
  /\ Accepting(bs, job) # {}
  /\ \A b \in Accepting(bs, job) :
       /\ r \notin b.labels
       /\ b.platform = r.os =>
            \E l \in b.labels : l.shape = "route" /\ l.os = r.os

(* The alias a job is routed by, when it is the only label that routes.     *)
SoleRouteLabel(job) == {l \in Routed(job) : l.shape = "alias" /\ Routed(job) = {l}}

RequiresUnservedCapability(bs, job) ==
  IF SoleRouteLabel(job) # {}
    THEN \A l \in SoleRouteLabel(job) : UnservedPlatform(bs, job, l.os)
    ELSE \/ \E p \in StandardOS(job) : UnservedPlatform(bs, job, p)
         \/ \E r \in CanonicalRoute(job) : RouteUnserved(bs, job, r)

(* `peers`: freshly audited sets this node does not serve, each with scope, *)
(* set, name (a label) and labels.                                          *)
SelectsForeignSet(bs, job, peers) ==
  \E peer \in peers :
    LET local == {b \in bs : b.scope = peer.scope}
    IN /\ \/ peer.name \in job.labels
          \/ Routed(job) # {} /\ Routed(job) \subseteq peer.labels
       /\ Accepting(local, job) # {}
       /\ \A b \in local : b.set # peer.set /\ peer.name \notin b.labels

(* A self-hosted job nobody can be named for: the observation fails closed. *)
Unroutable(bs, job, peers) ==
  /\ Matching(bs, job) = {}
  /\ SelfHosted \in job.labels
  /\ ~RequiresUnservedCapability(bs, job)
  /\ ~SelectsForeignSet(bs, job, peers)

RoutingFails(bs, jobs, peers) ==
  \E job \in jobs : Conflicting(bs, job) \/ Unroutable(bs, job, peers)

(* A set is not alone on its labels: it says so, or a job matched two.     *)
Contended(bs, jobs, b) ==
  b.shared \/ \E job \in jobs : b \in Matching(bs, job) /\ Matching(bs, job) # {b}
=============================================================================
