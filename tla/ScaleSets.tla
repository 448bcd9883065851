----------------------------- MODULE ScaleSets -----------------------------
(***************************************************************************)
(* The guarded operator commands that change runner scale sets on GitHub   *)
(* and the ids the node's configuration binds: `fleet scale-sets           *)
(* provision`, `recreate` and `retire` (internal/cli, internal/provision,  *)
(* internal/adapters/githubscaleset).                                      *)
(*                                                                         *)
(* Each command reads the configuration file once, works on its clone,     *)
(* talks to GitHub one call at a time, and replaces the file at the end.   *)
(* Nothing locks the file: Exclusive says whether the operators take turns *)
(* themselves.  Every call can fail, a mutating call can be applied and    *)
(* its answer lost, and the process can be killed between any two calls.   *)
(*                                                                         *)
(* Not modelled: capacities, targets and installations of a scope (checked *)
(* by ValidateAuthority, unused by these commands), the App key, the       *)
(* confirmation flags (a command that lacks them changes nothing), and     *)
(* deletion of a scale set by hand on GitHub.                              *)
(***************************************************************************)
EXTENDS Naturals, FiniteSets

CONSTANTS
    Ops,            \* shells an operator may run a command in
    Scopes,         \* scope names of the configuration
    Urls,           \* configUrls, one element per ScopeURLKey
    Repos,          \* the configUrls that name a repository
    Groups,         \* runner groups
    DefaultGroup,   \* the group every repository has, and only it
    Names,          \* scale-set names
    Labels,         \* normalised label lists a set can advertise
    Ids,            \* ids GitHub can issue; 0 stands for "no id"
    None,           \* no entry, no URL
    Exclusive       \* operators run one command, or edit, at a time

VARIABLES
    config,      \* the configuration file
    cmd,         \* the command each shell is running
    live,        \* ids of the scale sets GitHub holds
    obj,         \* what GitHub stores for an id
    recreated,   \* ids `recreate` deleted
    retired      \* ids `retire` deleted

vars == <<config, cmd, live, obj, recreated, retired>>

Entries == Scopes \X Names

Configs == [url : [Scopes -> Urls], group : [Scopes -> Groups],
            listed : SUBSET Entries, id : [Entries -> Ids \cup {0}],
            labels : [Entries -> Labels]]

Objects == [url : Urls, group : Groups, name : Names, labels : Labels,
            tuned : BOOLEAN,     \* RunnerSetting.DisableUpdate
            counted : BOOLEAN,   \* GitHub answers with statistics
            busy : BOOLEAN]      \* assigned or running jobs, busy or registered runners

Plans == [action : {"create", "reuse", "update"}, id : Ids \cup {0}]

NoPlan == [action |-> "create", id |-> 0]

Steps == {"idle", "plan", "apply", "inspect", "look", "act", "current", "old",
          "stats", "delete", "write"}

Commands == [kind : {"none", "provision", "recreate", "retire"}, pc : Steps,
             conf : Configs, entry : Entries \cup {None}, from : Urls \cup {None},
             apply : BOOLEAN, drift : BOOLEAN, todo : SUBSET Entries,
             plans : [Entries -> Plans], plan : Plans]

Bound(c) == {c.id[e] : e \in c.listed} \ {0}

Issued == live \cup recreated \cup retired

(***************************************************************************)
(* ValidateAuthority, as far as the commands depend on it: two scopes      *)
(* never share a configUrl, a repository scope uses the default group, and *)
(* every scope lists a scale set.                                          *)
(***************************************************************************)
ScopeOK(c, s) == c.url[s] \in Repos => c.group[s] = DefaultGroup

Valid(c) ==
    /\ Scopes # {}
    /\ \A s, t \in Scopes : c.url[s] = c.url[t] => s = t
    /\ \A s \in Scopes : ScopeOK(c, s) /\ \E n \in Names : <<s, n>> \in c.listed

(***************************************************************************)
(* GitHub as the admin client sees it.                                     *)
(***************************************************************************)
Wanted(c, e) == [url |-> c.url[e[1]], group |-> c.group[e[1]], name |-> e[2],
                 labels |-> c.labels[e]]

At(u, g) == {i \in live : obj[i].url = u /\ obj[i].group = g}

Held(w) == {i \in At(w.url, w.group) : obj[i].name = w.name}

ExactScaleSet(i, w) == obj[i].labels = w.labels /\ obj[i].tuned

(* Inspect: the plans it can answer; none when drift is refused. *)
Inspect(w, drift) ==
    IF Held(w) = {}
    THEN {NoPlan}
    ELSE {[action |-> IF ExactScaleSet(i, w) THEN "reuse" ELSE "update", id |-> i] :
             i \in {j \in Held(w) : ExactScaleSet(j, w) \/ drift}}

(* The tap either hears the group's whole listing or nothing at all. *)
Hears(u, g) == {[observed |-> TRUE, sets |-> At(u, g)], [observed |-> FALSE, sets |-> {}]}

FindScaleSet(answer, n) == {i \in answer.sets : answer.observed /\ obj[i].name = n}

Drained(i) == i \in live /\ obj[i].counted /\ ~obj[i].busy

-----------------------------------------------------------------------------
Fresh(kind, pc) ==
    [kind |-> kind, pc |-> pc, conf |-> config, entry |-> None,
     from |-> None, apply |-> FALSE, drift |-> FALSE,
     todo |-> {}, plans |-> [e \in Entries |-> NoPlan], plan |-> NoPlan]

Running(o) == cmd[o].pc # "idle"

MayBegin == Exclusive => \A o \in Ops : ~Running(o)

Begin(o, c) == ~Running(o) /\ MayBegin /\ Valid(config) /\ cmd' = [cmd EXCEPT ![o] = c]

Continue(o, c) == cmd' = [cmd EXCEPT ![o] = c]

End(o) == cmd' = [cmd EXCEPT ![o] = [@ EXCEPT !.pc = "idle"]]

GitHubUnchanged == UNCHANGED <<live, obj, recreated, retired>>

(* Any error return, and any kill: what GitHub already did stays done. *)
Fail(o) == Running(o) /\ End(o) /\ UNCHANGED config /\ GitHubUnchanged

(***************************************************************************)
(* provision: inspect every listed set, then apply every plan, then write. *)
(***************************************************************************)
Provision(o, apply, drift) ==
    /\ Begin(o, [Fresh("provision", "plan") EXCEPT !.todo = config.listed,
                                                   !.apply = apply, !.drift = drift])
    /\ UNCHANGED config /\ GitHubUnchanged

AfterPlanning(c) ==
    IF c.todo # {} THEN c
    ELSE IF c.apply THEN [c EXCEPT !.pc = "apply", !.todo = c.conf.listed]
    ELSE [c EXCEPT !.pc = "idle"]

PlanOne(o, e) ==
    LET c == cmd[o] IN
    /\ c.pc = "plan" /\ e \in c.todo
    /\ \E p \in Inspect(Wanted(c.conf, e), c.drift) :
          /\ c.conf.id[e] # 0 /\ p.id # 0 => c.conf.id[e] = p.id
          /\ Continue(o, AfterPlanning([c EXCEPT !.plans[e] = p, !.todo = @ \ {e}]))
    /\ UNCHANGED config /\ GitHubUnchanged

(* The same id back is no replacement: the recreation ends without a write. *)
Replace(c, e, i) ==
    [c EXCEPT !.conf.id[e] = i, !.pc = IF i = c.conf.id[e] THEN "idle" ELSE "write"]

(* The command's clone takes an id for the set it is working on. *)
Bind(c, e, i) ==
    IF c.kind = "recreate"
    THEN Replace(c, e, i)
    ELSE [c EXCEPT !.conf.id[e] = i, !.todo = @ \ {e},
                   !.pc = IF c.todo \ {e} = {} THEN "write" ELSE "apply"]

ApplyOne(o, e) ==
    LET c == cmd[o] IN
    /\ c.pc = "apply" /\ e \in c.todo
    /\ IF c.plans[e].action = "reuse"
       THEN c.plans[e].id # 0 /\ Continue(o, Bind(c, e, c.plans[e].id))
       ELSE Continue(o, [c EXCEPT !.pc = "look", !.entry = e])
    /\ UNCHANGED config /\ GitHubUnchanged

(***************************************************************************)
(* Ensure: inspect again, then reuse, repair in place or create.  GitHub   *)
(* may keep the old labels of a set it says it updated.                    *)
(***************************************************************************)
Look(o) ==
    LET c == cmd[o] IN
    /\ c.pc = "look"
    /\ \E p \in Inspect(Wanted(c.conf, c.entry), c.drift) :
          Continue(o, IF p.action = "reuse" THEN Bind(c, c.entry, p.id)
                      ELSE [c EXCEPT !.pc = "act", !.plan = p])
    /\ UNCHANGED config /\ GitHubUnchanged

Create(o, i, answered) ==
    LET c == cmd[o]
        w == Wanted(c.conf, c.entry) IN
    /\ c.pc = "act" /\ c.plan.action = "create"
    /\ Held(w) = {} /\ i \notin Issued
    /\ live' = live \cup {i}
    /\ obj' = [obj EXCEPT ![i] = [url |-> w.url, group |-> w.group, name |-> w.name,
                                  labels |-> w.labels, tuned |-> TRUE,
                                  counted |-> TRUE, busy |-> FALSE]]
    /\ IF answered THEN Continue(o, Bind(c, c.entry, i)) ELSE End(o)
    /\ UNCHANGED <<config, recreated, retired>>

Update(o, kept, answered) ==
    LET c == cmd[o]
        w == Wanted(c.conf, c.entry)
        i == c.plan.id IN
    /\ c.pc = "act" /\ c.plan.action = "update" /\ i \in live
    /\ obj' = [obj EXCEPT ![i].tuned = TRUE,
                          ![i].labels = IF kept THEN @ ELSE w.labels]
    /\ IF answered /\ obj'[i].labels = w.labels
       THEN Continue(o, Bind(c, c.entry, i)) ELSE End(o)
    /\ UNCHANGED <<config, live, recreated, retired>>

(***************************************************************************)
(* recreate: delete the configured object, ensure a replacement, write.    *)
(* Without --scope the name must belong to one scope only.                 *)
(***************************************************************************)
Locate(c, ss, n) == {e \in c.listed : e[1] \in ss /\ e[2] = n}

Recreate(o, ss, n, e) ==
    /\ Locate(config, ss, n) = {e}
    /\ config.id[e] # 0
    /\ Begin(o, [Fresh("recreate", "inspect") EXCEPT !.entry = e, !.drift = TRUE])
    /\ UNCHANGED config /\ GitHubUnchanged

RecreateInspect(o) ==
    LET c == cmd[o] IN
    /\ c.pc = "inspect"
    /\ \E p \in Inspect(Wanted(c.conf, c.entry), c.drift) :
          Continue(o, [c EXCEPT !.pc = IF p.id = c.conf.id[c.entry] THEN "delete" ELSE "look"])
    /\ UNCHANGED config /\ GitHubUnchanged

RecreateDelete(o, answered) ==
    LET c == cmd[o]
        i == c.conf.id[c.entry] IN
    /\ c.pc = "delete" /\ c.kind = "recreate" /\ i \in live
    /\ live' = live \ {i} /\ recreated' = recreated \cup {i}
    /\ IF answered THEN Continue(o, [c EXCEPT !.pc = "look"]) ELSE End(o)
    /\ UNCHANGED <<config, obj, retired>>

(***************************************************************************)
(* retire: delete the set a scope left at its former configUrl, after the  *)
(* replacement, the binding and the counters were read.                    *)
(***************************************************************************)
RetiredScope(c, e) == e \in c.listed /\ c.id[e] # 0

Retire(o, e, from) ==
    /\ RetiredScope(config, e)
    /\ \A s \in Scopes : config.url[s] # from
    /\ Begin(o, [Fresh("retire", "current") EXCEPT !.entry = e, !.from = from])
    /\ UNCHANGED config /\ GitHubUnchanged

FindReplacement(o) ==
    LET c == cmd[o]
        w == Wanted(c.conf, c.entry) IN
    /\ c.pc = "current"
    /\ \E a \in Hears(w.url, w.group) : c.conf.id[c.entry] \in FindScaleSet(a, w.name)
    /\ Continue(o, [c EXCEPT !.pc = "old"])
    /\ UNCHANGED config /\ GitHubUnchanged

FindOld(o) ==
    LET c == cmd[o]
        w == Wanted(c.conf, c.entry)
        group == IF c.from \in Repos THEN DefaultGroup ELSE w.group IN
    /\ c.pc = "old"
    /\ \E a \in Hears(c.from, group) : \E i \in FindScaleSet(a, w.name) :
          /\ i \notin Bound(c.conf)
          /\ Continue(o, [c EXCEPT !.pc = "stats", !.plan.id = i])
    /\ UNCHANGED config /\ GitHubUnchanged

ReadStatistics(o) ==
    LET c == cmd[o] IN
    /\ c.pc = "stats" /\ Drained(c.plan.id)
    /\ Continue(o, [c EXCEPT !.pc = "delete"])
    /\ UNCHANGED config /\ GitHubUnchanged

RetireDelete(o) ==
    LET c == cmd[o] IN
    /\ c.pc = "delete" /\ c.kind = "retire" /\ c.plan.id \in live
    /\ live' = live \ {c.plan.id} /\ retired' = retired \cup {c.plan.id}
    /\ End(o)
    /\ UNCHANGED <<config, obj, recreated>>

(* The file is replaced by a rename, so a reader sees one version or the other. *)
Write(o) ==
    /\ cmd[o].pc = "write"
    /\ config' = cmd[o].conf
    /\ End(o) /\ GitHubUnchanged

(***************************************************************************)
(* The operator's editor and GitHub's own changes.                         *)
(***************************************************************************)
Edit(c) == MayBegin /\ config' = c /\ UNCHANGED cmd /\ GitHubUnchanged

MoveScope(s, u, g, keep) ==
    Edit([config EXCEPT !.url[s] = u, !.group[s] = g,
          !.id = [e \in Entries |-> IF e[1] = s /\ ~keep THEN 0 ELSE config.id[e]]])

ListSet(e) == e \notin config.listed
              /\ Edit([config EXCEPT !.listed = @ \cup {e}, !.id[e] = 0])

UnlistSet(e) == Edit([config EXCEPT !.listed = @ \ {e}])

Relabel(e, l) == Edit([config EXCEPT !.labels[e] = l])

(* A refused write leaves the operator to bind the printed id by hand. *)
BindByHand(e, i) == i \in live /\ obj[i].name = e[2] /\ Edit([config EXCEPT !.id[e] = i])

Drift(i, l, t, k, b) ==
    /\ i \in live
    /\ obj' = [obj EXCEPT ![i].labels = l, ![i].tuned = t, ![i].counted = k, ![i].busy = b]
    /\ UNCHANGED <<config, cmd, live, recreated, retired>>

Init ==
    /\ config \in {c \in Configs : \A e \in Entries : c.id[e] = 0}
    /\ cmd = [o \in Ops |-> Fresh("none", "idle")]
    /\ live = {} /\ recreated = {} /\ retired = {}
    /\ obj \in [Ids -> Objects]

Step(o) ==
    \/ Fail(o)
    \/ \E apply, drift \in BOOLEAN : Provision(o, apply, drift)
    \/ \E e \in Entries : PlanOne(o, e) \/ ApplyOne(o, e)
    \/ Look(o)
    \/ \E answered \in BOOLEAN : \/ \E i \in Ids : Create(o, i, answered)
                                 \/ \E kept \in BOOLEAN : Update(o, kept, answered)
                                 \/ RecreateDelete(o, answered)
    \/ \E n \in Names, e \in Entries : \E ss \in {Scopes} \cup {{s} : s \in Scopes} : Recreate(o, ss, n, e)
    \/ RecreateInspect(o)
    \/ \E e \in Entries, u \in Urls : Retire(o, e, u)
    \/ FindReplacement(o)
    \/ FindOld(o)
    \/ ReadStatistics(o)
    \/ RetireDelete(o)
    \/ Write(o)

Operator ==
    \/ \E s \in Scopes, u \in Urls, g \in Groups, keep \in BOOLEAN : MoveScope(s, u, g, keep)
    \/ \E e \in Entries : \/ ListSet(e)
                          \/ UnlistSet(e)
                          \/ \E l \in Labels : Relabel(e, l)
                          \/ \E i \in Ids : BindByHand(e, i)

GitHub == \E i \in Ids, l \in Labels, t, k, b \in BOOLEAN : Drift(i, l, t, k, b)

Next == (\E o \in Ops : Step(o)) \/ Operator \/ GitHub

Spec == Init /\ [][Next]_vars

-----------------------------------------------------------------------------
(***************************************************************************)
(* Every id the configuration binds was issued by GitHub for a scale set   *)
(* of that name.  Recreate writes last because "a configuration naming an  *)
(* id that was never created would leave the node polling nothing at all"; *)
(* this holds however commands, edits and lost answers interleave.         *)
(***************************************************************************)
BoundWasIssued ==
    \A e \in config.listed :
        config.id[e] # 0 => config.id[e] \in Issued /\ obj[config.id[e]].name = e[2]

(***************************************************************************)
(* With operators taking turns, an id the configuration binds is a scale   *)
(* set GitHub still holds, or one a recreation deleted and has yet to      *)
(* replace in the file.  It was never retired: Retire's guards keep "the   *)
(* set the node binds" out of its reach through every move of a scope.     *)
(***************************************************************************)
BoundIsHeld ==
    \A e \in config.listed :
        config.id[e] # 0 => config.id[e] \in live \cup recreated /\ config.id[e] \notin retired

(***************************************************************************)
(* A command changes an existing scale set in place only when it was       *)
(* allowed to reconcile drift: "a run intended to create missing scale     *)
(* sets can never silently mutate existing ones".                          *)
(***************************************************************************)
RepairsOnlyWhenAllowed ==
    \A i \in live :
        obj'[i] # obj[i] => UNCHANGED cmd \/ \E o \in Ops : cmd[o].drift /\ cmd[o].plan.id = i
=============================================================================
