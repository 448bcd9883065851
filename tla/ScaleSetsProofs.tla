-------------------------- MODULE ScaleSetsProofs --------------------------
(***************************************************************************)
(* Proofs about the scale-set commands, for every set of shells, scopes,   *)
(* names and ids.                                                          *)
(*                                                                         *)
(* Names: an id GitHub issued keeps its name for ever, and every id a      *)
(* command carries (in its clone of the configuration, in its plans) is 0  *)
(* or was issued for the set it is meant for.  That is inductive as it     *)
(* stands and yields BoundWasIssued.                                       *)
(*                                                                         *)
(* Exclusive operators: a lone command's clone only holds ids GitHub holds *)
(* or a recreation deleted, and while a retirement runs its clone is still *)
(* the file, so the id it deletes is bound nowhere.                        *)
(***************************************************************************)
EXTENDS ScaleSets, TLAPS

Constants ==
    /\ Ids \subseteq Nat \ {0}
    /\ DefaultGroup \in Groups
    /\ None \notin Entries

Working == {"look", "act", "inspect", "current", "old", "stats", "delete"}

Retiring == {"idle", "current", "old", "stats", "delete"}

Named(i, n, I, ob) == i = 0 \/ (i \in I /\ ob[i].name = n)

NamedIds(f, I, ob) == \A e \in Entries : Named(f[e], e[2], I, ob)

OK(c, I, ob) ==
    /\ c \in Commands
    /\ c.pc \in Working => c.entry \in Entries
    /\ c.kind = "retire" => c.pc \in Retiring
    /\ NamedIds(c.conf.id, I, ob)
    /\ \A e \in Entries : Named(c.plans[e].id, e[2], I, ob)
    /\ c.pc = "act" => Named(c.plan.id, c.entry[2], I, ob)
    /\ c.pc = "act" /\ c.plan.action = "update" => c.drift

TypeOK ==
    /\ config \in Configs
    /\ live \subseteq Ids /\ recreated \subseteq Ids /\ retired \subseteq Ids
    /\ obj \in [Ids -> Objects]
    /\ DOMAIN cmd = Ops

IInv ==
    /\ TypeOK
    /\ NamedIds(config.id, Issued, obj)
    /\ \A o \in Ops : OK(cmd[o], Issued, obj)

(* Nothing GitHub issued is forgotten or renamed. *)
Grows(I, ob, J, ob2) == I \subseteq J /\ \A i \in I : ob2[i].name = ob[i].name

-----------------------------------------------------------------------------
(* What a command carries stays well named while GitHub moves on. *)
LEMMA StaysOK ==
    ASSUME NEW c, NEW I, NEW ob, NEW J, NEW ob2, OK(c, I, ob), Grows(I, ob, J, ob2)
    PROVE  OK(c, J, ob2)
  BY DEF OK, Grows, NamedIds, Named

LEMMA StaysNamed ==
    ASSUME NEW f, NEW I, NEW ob, NEW J, NEW ob2, NamedIds(f, I, ob), Grows(I, ob, J, ob2)
    PROVE  NamedIds(f, J, ob2)
  BY DEF Grows, NamedIds, Named

(* The fields of the records the commands are built from. *)
LEMMA CommandFields ==
    ASSUME NEW c \in Commands
    PROVE  /\ c.conf \in Configs /\ c.conf.id \in [Entries -> Ids \cup {0}]
           /\ c.conf.listed \subseteq Entries
           /\ c.plans \in [Entries -> Plans] /\ c.plan \in Plans
           /\ c.todo \subseteq Entries /\ c.pc \in Steps
           /\ c.kind \in {"none", "provision", "recreate", "retire"}
           /\ c.entry \in Entries \cup {None} /\ c.drift \in BOOLEAN /\ c.apply \in BOOLEAN
  BY DEF Commands, Configs

(* Inspect answers with an object of the wanted name, and an update only to *)
(* a caller that may reconcile drift.                                       *)
LEMMA InspectAnswers ==
    ASSUME TypeOK, NEW w, NEW d \in BOOLEAN, NEW p \in Inspect(w, d)
    PROVE  /\ p \in Plans
           /\ p.id = 0 \/ (p.id \in live /\ obj[p.id].name = w.name)
           /\ p.action = "update" => d
           /\ p.action # "create" => p.id \in live
  BY DEF TypeOK, Inspect, Held, At, NoPlan, Plans

(* What a listing names, GitHub holds. *)
LEMMA ListedIsLive ==
    ASSUME NEW u, NEW g, NEW n, NEW a \in Hears(u, g), NEW i \in FindScaleSet(a, n)
    PROVE  i \in live
  BY DEF Hears, FindScaleSet, At

(* A command whose step only moves pc stays well formed. *)
LEMMA MovesOK ==
    ASSUME NEW c, NEW I, NEW ob, OK(c, I, ob), NEW q \in Steps \ {"act"},
           q \in Working => c.entry \in Entries, c.kind = "retire" => q \in Retiring
    PROVE  OK([c EXCEPT !.pc = q], I, ob)
  BY DEF OK, Commands

(* Binding an id of the right name to the command's own set. *)
LEMMA BindOK ==
    ASSUME NEW c, NEW I, NEW ob, OK(c, I, ob), NEW e \in Entries, NEW i \in Ids \cup {0},
           Named(i, e[2], I, ob), c.kind # "retire"
    PROVE  /\ OK(Bind(c, e, i), I, ob)
           /\ Bind(c, e, i).kind = c.kind
           /\ Bind(c, e, i).plans = c.plans
           /\ Bind(c, e, i).conf.listed = c.conf.listed
           /\ Bind(c, e, i).conf.id = [c.conf.id EXCEPT ![e] = i]
  <1>1. c \in Commands BY DEF OK
  <1>2. c.conf \in Configs /\ c.conf.id \in [Entries -> Ids \cup {0}] BY <1>1, CommandFields
  <1>3. [c.conf EXCEPT !.id[e] = i] \in Configs
    BY <1>2 DEF Configs
  <1>4. [c.conf EXCEPT !.id[e] = i].id = [c.conf.id EXCEPT ![e] = i]
        /\ [c.conf EXCEPT !.id[e] = i].listed = c.conf.listed
    BY <1>2 DEF Configs
  <1>5. NamedIds([c.conf.id EXCEPT ![e] = i], I, ob)
    BY <1>2 DEF OK, NamedIds
  <1>6. CASE c.kind = "recreate"
    <2> DEFINE b == [c EXCEPT !.conf.id[e] = i, !.pc = IF i = c.conf.id[e] THEN "idle" ELSE "write"]
    <2>1. b \in Commands /\ b.conf = [c.conf EXCEPT !.id[e] = i] /\ b.plans = c.plans /\ b.kind = c.kind
          /\ b.pc \in {"idle", "write"}
      BY <1>1, <1>3, Zenon DEF Commands, Steps
    <2>2. Bind(c, e, i) = b BY <1>6 DEF Bind, Replace
    <2>3. OK(b, I, ob) BY <2>1, <1>4, <1>5, Zenon DEF OK, Working
    <2> QED BY <2>1, <2>2, <2>3, <1>4, Zenon
  <1>7. CASE c.kind # "recreate"
    <2> DEFINE b == [c EXCEPT !.conf.id[e] = i, !.todo = @ \ {e},
                              !.pc = IF c.todo \ {e} = {} THEN "write" ELSE "apply"]
    <2>1. b \in Commands /\ b.conf = [c.conf EXCEPT !.id[e] = i] /\ b.plans = c.plans /\ b.kind = c.kind
          /\ b.pc \in {"apply", "write"}
      BY <1>1, <1>3, Zenon DEF Commands, Steps
    <2>2. Bind(c, e, i) = b BY <1>7 DEF Bind
    <2>3. OK(b, I, ob) BY <2>1, <1>4, <1>5, Zenon DEF OK, Working
    <2> QED BY <2>1, <2>2, <2>3, <1>4, Zenon
  <1> QED BY <1>6, <1>7
-----------------------------------------------------------------------------
(* A fresh command carries the file's ids and no plan. *)
LEMMA FreshOK ==
    ASSUME IInv, Constants, NEW k \in {"none", "provision", "recreate", "retire"}, NEW q \in Steps \ {"act"}
    PROVE  /\ Fresh(k, q) \in Commands
           /\ NamedIds(Fresh(k, q).conf.id, Issued, obj)
           /\ \A e \in Entries : Fresh(k, q).plans[e].id = 0
  BY DEF IInv, TypeOK, Fresh, Commands, NoPlan, Plans

(* One shell's step: the others' commands stay well formed, so do ids. *)
LEMMA OneShell ==
    ASSUME IInv, NEW o \in Ops, NEW c, cmd' = [cmd EXCEPT ![o] = c],
           Grows(Issued, obj, Issued', obj'), OK(c, Issued', obj'),
           config' = config \/ (config' \in Configs /\ NamedIds(config'.id, Issued', obj')),
           live' \subseteq Ids, recreated' \subseteq Ids, retired' \subseteq Ids, obj' \in [Ids -> Objects]
    PROVE  IInv'
  <1>1. NamedIds(config.id, Issued', obj') BY StaysNamed DEF IInv
  <1>2. \A p \in Ops : OK(cmd[p], Issued', obj') BY StaysOK DEF IInv
  <1>3. \A p \in Ops : OK(cmd'[p], Issued', obj') BY <1>2 DEF IInv, TypeOK
  <1>4. TypeOK' BY DEF IInv, TypeOK
  <1> QED BY <1>1, <1>3, <1>4 DEF IInv

(* The same when GitHub does not move. *)
LEMMA QuietShell ==
    ASSUME IInv, NEW o \in Ops, NEW c, cmd' = [cmd EXCEPT ![o] = c], GitHubUnchanged,
           OK(c, Issued, obj),
           config' = config \/ (config' \in Configs /\ NamedIds(config'.id, Issued, obj))
    PROVE  IInv'
  <1>1. Issued' = Issued /\ obj' = obj /\ live' = live /\ recreated' = recreated /\ retired' = retired
    BY DEF GitHubUnchanged, Issued
  <1>2. Grows(Issued, obj, Issued', obj') BY <1>1 DEF Grows
  <1>3. OK(c, Issued', obj') BY <1>1
  <1>4. config' = config \/ (config' \in Configs /\ NamedIds(config'.id, Issued', obj')) BY <1>1
  <1>5. live' \subseteq Ids /\ recreated' \subseteq Ids /\ retired' \subseteq Ids /\ obj' \in [Ids -> Objects]
    BY <1>1 DEF IInv, TypeOK
  <1> QED BY <1>2, <1>3, <1>4, <1>5, OneShell, Zenon

LEMMA FailKeeps ==
    ASSUME IInv, NEW o \in Ops, Fail(o)
    PROVE  IInv'
  <1>1. OK(cmd[o], Issued, obj) BY DEF IInv
  <1>2. OK([cmd[o] EXCEPT !.pc = "idle"], Issued, obj) BY <1>1, MovesOK DEF Steps, Working, Retiring
  <1> QED BY <1>2, QuietShell, Zenon DEF Fail, End

LEMMA BeginKeeps ==
    ASSUME IInv, Constants, NEW o \in Ops,
           \/ \E a, d \in BOOLEAN : Provision(o, a, d)
           \/ \E n \in Names, e \in Entries : \E ss \in SUBSET Scopes : Recreate(o, ss, n, e)
           \/ \E e \in Entries, u \in Urls : Retire(o, e, u)
    PROVE  IInv'
  <1>1. CASE \E a, d \in BOOLEAN : Provision(o, a, d)
    <2>1. PICK a \in BOOLEAN, d \in BOOLEAN : Provision(o, a, d) BY <1>1
    <2> DEFINE f == Fresh("provision", "plan")
               c == [f EXCEPT !.todo = config.listed, !.apply = a, !.drift = d]
    <2>2. f \in Commands /\ NamedIds(f.conf.id, Issued, obj) /\ \A e \in Entries : f.plans[e].id = 0
      BY FreshOK DEF Steps
    <2>3. f.kind = "provision" /\ f.pc = "plan" BY DEF Fresh
    <2>4. config.listed \subseteq Entries BY DEF IInv, TypeOK, Configs
    <2> HIDE DEF f
    <2>5. c \in Commands /\ c.conf = f.conf /\ c.plans = f.plans /\ c.pc = "plan" /\ c.kind = "provision"
      BY <2>2, <2>3, <2>4, Zenon DEF Commands
    <2>6. OK(c, Issued, obj) BY <2>2, <2>5 DEF OK, Named, Working
    <2>7. cmd' = [cmd EXCEPT ![o] = c] /\ GitHubUnchanged /\ config' = config
      BY <2>1 DEF Provision, Begin, f
    <2> QED BY <2>6, <2>7, QuietShell, Zenon
  <1>2. CASE \E n \in Names, e \in Entries : \E ss \in SUBSET Scopes : Recreate(o, ss, n, e)
    <2>1. PICK n \in Names, e \in Entries, ss \in SUBSET Scopes : Recreate(o, ss, n, e) BY <1>2
    <2> DEFINE f == Fresh("recreate", "inspect")
               c == [f EXCEPT !.entry = e, !.drift = TRUE]
    <2>2. f \in Commands /\ NamedIds(f.conf.id, Issued, obj) /\ \A x \in Entries : f.plans[x].id = 0
      BY FreshOK DEF Steps
    <2>3. f.kind = "recreate" /\ f.pc = "inspect" BY DEF Fresh
    <2> HIDE DEF f
    <2>5. c \in Commands /\ c.conf = f.conf /\ c.plans = f.plans /\ c.pc = "inspect" /\ c.kind = "recreate"
          /\ c.entry = e
      BY <2>2, <2>3, Zenon DEF Commands
    <2>6. OK(c, Issued, obj) BY <2>2, <2>5 DEF OK, Named, Working
    <2>7. cmd' = [cmd EXCEPT ![o] = c] /\ GitHubUnchanged /\ config' = config
      BY <2>1 DEF Recreate, Begin, f
    <2> QED BY <2>6, <2>7, QuietShell, Zenon
  <1>3. CASE \E e \in Entries, u \in Urls : Retire(o, e, u)
    <2>1. PICK e \in Entries, u \in Urls : Retire(o, e, u) BY <1>3
    <2> DEFINE f == Fresh("retire", "current")
               c == [f EXCEPT !.entry = e, !.from = u]
    <2>2. f \in Commands /\ NamedIds(f.conf.id, Issued, obj) /\ \A x \in Entries : f.plans[x].id = 0
      BY FreshOK DEF Steps
    <2>3. f.kind = "retire" /\ f.pc = "current" BY DEF Fresh
    <2> HIDE DEF f
    <2>5. c \in Commands /\ c.conf = f.conf /\ c.plans = f.plans /\ c.pc = "current" /\ c.kind = "retire"
          /\ c.entry = e
      BY <2>2, <2>3, Zenon DEF Commands
    <2>6. OK(c, Issued, obj) BY <2>2, <2>5 DEF OK, Named, Working, Retiring
    <2>7. cmd' = [cmd EXCEPT ![o] = c] /\ GitHubUnchanged /\ config' = config
      BY <2>1 DEF Retire, Begin, f
    <2> QED BY <2>6, <2>7, QuietShell, Zenon
  <1> QED BY <1>1, <1>2, <1>3
LEMMA PlanningKeeps ==
    ASSUME IInv, NEW o \in Ops, NEW e \in Entries, PlanOne(o, e)
    PROVE  IInv'
  <1> DEFINE c == cmd[o]
  <1>1. OK(c, Issued, obj) /\ c \in Commands BY DEF IInv, OK
  <1>2. PICK p \in Inspect(Wanted(c.conf, e), c.drift) :
           cmd' = [cmd EXCEPT ![o] = AfterPlanning([c EXCEPT !.plans[e] = p, !.todo = @ \ {e}])]
    BY DEF PlanOne, Continue
  <1>3. c.drift \in BOOLEAN /\ c.plans \in [Entries -> Plans] /\ c.todo \subseteq Entries
        /\ c.conf \in Configs /\ c.conf.listed \subseteq Entries
    BY <1>1, CommandFields
  <1>4. p \in Plans /\ (p.id = 0 \/ (p.id \in live /\ obj[p.id].name = Wanted(c.conf, e).name))
    BY <1>3, InspectAnswers DEF IInv
  <1>5. Named(p.id, e[2], Issued, obj) BY <1>4 DEF Wanted, Named, Issued
  <1> DEFINE d == [c EXCEPT !.plans[e] = p, !.todo = @ \ {e}]
  <1>6. d \in Commands /\ d.conf = c.conf /\ d.pc = c.pc /\ d.kind = c.kind /\ d.entry = c.entry
        /\ d.plans = [c.plans EXCEPT ![e] = p] /\ d.plan = c.plan /\ d.drift = c.drift
    BY <1>1, <1>3, <1>4, Zenon DEF Commands
  <1>7. c.pc = "plan" /\ c.kind # "retire" BY <1>1 DEF PlanOne, OK, Retiring
  <1> HIDE DEF d
  <1>8. OK(d, Issued, obj)
    <2>1. \A x \in Entries : Named(d.plans[x].id, x[2], Issued, obj)
      BY <1>1, <1>3, <1>5, <1>6 DEF OK
    <2> QED BY <2>1, <1>1, <1>6, <1>7 DEF OK, Working
  <1> HIDE DEF c
  <1>9. OK(AfterPlanning(d), Issued, obj)
    <2>1. CASE d.todo # {} BY <2>1, <1>8 DEF AfterPlanning
    <2>2. CASE d.todo = {} /\ d.apply
      <3>1. [d EXCEPT !.pc = "apply", !.todo = d.conf.listed] \in Commands
        BY <1>3, <1>6, Zenon DEF Commands, Steps
      <3>2. OK([d EXCEPT !.pc = "apply", !.todo = d.conf.listed], Issued, obj)
        BY <3>1, <1>6, <1>7, <1>8 DEF OK, Working, Commands
      <3> QED BY <3>2, <2>2 DEF AfterPlanning
    <2>3. CASE d.todo = {} /\ ~d.apply
      <3>1. OK([d EXCEPT !.pc = "idle"], Issued, obj)
        BY <1>6, <1>7, <1>8, MovesOK DEF Steps, Working
      <3> QED BY <3>1, <2>3 DEF AfterPlanning
    <2> QED BY <2>1, <2>2, <2>3
  <1> QED BY <1>2, <1>9, QuietShell, Zenon DEF PlanOne, d

LEMMA ApplyKeeps ==
    ASSUME IInv, NEW o \in Ops, NEW e \in Entries, ApplyOne(o, e)
    PROVE  IInv'
  <1> DEFINE c == cmd[o]
  <1>1. OK(c, Issued, obj) /\ c \in Commands BY DEF IInv, OK
  <1>2. c.pc = "apply" /\ c.kind # "retire" BY <1>1 DEF ApplyOne, OK, Retiring
  <1>3. c.plans \in [Entries -> Plans] /\ c.plans[e].id \in Ids \cup {0} BY <1>1, CommandFields DEF Plans
  <1>4. Named(c.plans[e].id, e[2], Issued, obj) BY <1>1 DEF OK
  <1>5. CASE c.plans[e].action = "reuse"
    <2> DEFINE b == Bind(c, e, c.plans[e].id)
    <2>1. OK(b, Issued, obj) BY <1>1, <1>2, <1>3, <1>4, BindOK, Zenon
    <2>2. cmd' = [cmd EXCEPT ![o] = b] /\ GitHubUnchanged /\ config' = config
      BY <1>5 DEF ApplyOne, Continue
    <2> QED BY <2>1, <2>2, QuietShell, Zenon
  <1>6. CASE c.plans[e].action # "reuse"
    <2> DEFINE d == [c EXCEPT !.pc = "look", !.entry = e]
    <2>1. d \in Commands BY <1>1, Zenon DEF Commands, Steps
    <2>2. OK(d, Issued, obj) BY <2>1, <1>1, <1>2 DEF OK, Commands, Working
    <2>3. cmd' = [cmd EXCEPT ![o] = d] /\ GitHubUnchanged /\ config' = config
      BY <1>6 DEF ApplyOne, Continue
    <2> QED BY <2>2, <2>3, QuietShell, Zenon
  <1> QED BY <1>5, <1>6

LEMMA LookKeeps ==
    ASSUME IInv, NEW o \in Ops, Look(o)
    PROVE  IInv'
  <1> DEFINE c == cmd[o]
  <1>1. OK(c, Issued, obj) /\ c \in Commands BY DEF IInv, OK
  <1>2. c.pc = "look" /\ c.kind # "retire" /\ c.entry \in Entries
    BY <1>1 DEF Look, OK, Retiring, Working
  <1>3. c.drift \in BOOLEAN BY <1>1, CommandFields
  <1>4. PICK p \in Inspect(Wanted(c.conf, c.entry), c.drift) :
           cmd' = [cmd EXCEPT ![o] = IF p.action = "reuse" THEN Bind(c, c.entry, p.id)
                                     ELSE [c EXCEPT !.pc = "act", !.plan = p]]
    BY DEF Look, Continue
  <1>5. p \in Plans /\ (p.id = 0 \/ (p.id \in live /\ obj[p.id].name = Wanted(c.conf, c.entry).name))
        /\ (p.action = "update" => c.drift)
    BY <1>3, InspectAnswers DEF IInv
  <1>6. Named(p.id, c.entry[2], Issued, obj) /\ p.id \in Ids \cup {0}
    BY <1>5 DEF Wanted, Named, Issued, Plans
  <1>7. CASE p.action = "reuse"
    <2> DEFINE b == Bind(c, c.entry, p.id)
    <2>1. OK(b, Issued, obj) BY <1>1, <1>2, <1>6, BindOK, Zenon
    <2>2. cmd' = [cmd EXCEPT ![o] = b] /\ GitHubUnchanged /\ config' = config
      BY <1>4, <1>7 DEF Look
    <2> QED BY <2>1, <2>2, QuietShell, Zenon
  <1>8. CASE p.action # "reuse"
    <2> DEFINE d == [c EXCEPT !.pc = "act", !.plan = p]
    <2>1. d \in Commands /\ d.conf = c.conf /\ d.plans = c.plans /\ d.pc = "act" /\ d.plan = p
          /\ d.entry = c.entry /\ d.drift = c.drift /\ d.kind = c.kind
      BY <1>1, <1>5, Zenon DEF Commands, Steps
    <2>2. OK(d, Issued, obj) BY <2>1, <1>1, <1>2, <1>5, <1>6 DEF OK
    <2>3. cmd' = [cmd EXCEPT ![o] = d] /\ GitHubUnchanged /\ config' = config
      BY <1>4, <1>8 DEF Look
    <2> QED BY <2>2, <2>3, QuietShell, Zenon
  <1> QED BY <1>7, <1>8
LEMMA CreateKeeps ==
    ASSUME IInv, Constants, NEW o \in Ops, NEW i \in Ids, NEW answered \in BOOLEAN, Create(o, i, answered)
    PROVE  IInv'
  <1> DEFINE c == cmd[o]
             w == Wanted(c.conf, c.entry)
             n == [url |-> w.url, group |-> w.group, name |-> w.name, labels |-> w.labels,
                   tuned |-> TRUE, counted |-> TRUE, busy |-> FALSE]
  <1>1. OK(c, Issued, obj) /\ c \in Commands BY DEF IInv, OK
  <1>2. c.pc = "act" /\ c.kind # "retire" /\ c.entry \in Entries
    BY <1>1 DEF Create, OK, Retiring, Working
  <1>3. n \in Objects /\ n.name = c.entry[2]
    <2>1. c.conf \in Configs BY <1>1, CommandFields
    <2> QED BY <2>1, <1>2 DEF Wanted, Objects, Configs, Entries
  <1>4. obj' = [obj EXCEPT ![i] = n] /\ live' = live \cup {i} /\ i \notin Issued
        /\ recreated' = recreated /\ retired' = retired /\ config' = config
    BY DEF Create
  <1>5. obj \in [Ids -> Objects] /\ live \subseteq Ids /\ recreated \subseteq Ids /\ retired \subseteq Ids
    BY DEF IInv, TypeOK
  <1> HIDE DEF n
  <1>6. obj' \in [Ids -> Objects] /\ obj'[i] = n BY <1>3, <1>4, <1>5
  <1>7. Issued' = Issued \cup {i} /\ Issued \subseteq Ids BY <1>4, <1>5 DEF Issued
  <1>8. Grows(Issued, obj, Issued', obj') BY <1>4, <1>5, <1>7 DEF Grows
  <1>9. OK(c, Issued', obj') BY <1>1, <1>8, StaysOK
  <1>10. Named(i, c.entry[2], Issued', obj') BY <1>3, <1>6, <1>7 DEF Named
  <1>11. OK(Bind(c, c.entry, i), Issued', obj') BY <1>2, <1>9, <1>10, BindOK, Zenon
  <1>12. OK([c EXCEPT !.pc = "idle"], Issued', obj') BY <1>9, MovesOK DEF Steps, Working, Retiring
  <1>13. \/ cmd' = [cmd EXCEPT ![o] = Bind(c, c.entry, i)]
         \/ cmd' = [cmd EXCEPT ![o] = [c EXCEPT !.pc = "idle"]]
    BY DEF Create, Continue, End
  <1>14. live' \subseteq Ids /\ recreated' \subseteq Ids /\ retired' \subseteq Ids BY <1>4, <1>5
  <1> HIDE DEF c, w
  <1> QED BY <1>4, <1>6, <1>8, <1>11, <1>12, <1>13, <1>14, OneShell, Zenon

LEMMA UpdateKeeps ==
    ASSUME IInv, NEW o \in Ops, NEW kept \in BOOLEAN, NEW answered \in BOOLEAN, Update(o, kept, answered)
    PROVE  IInv'
  <1> DEFINE c == cmd[o]
             w == Wanted(c.conf, c.entry)
             i == c.plan.id
  <1>1. OK(c, Issued, obj) /\ c \in Commands BY DEF IInv, OK
  <1>2. c.pc = "act" /\ c.kind # "retire" /\ c.entry \in Entries /\ i \in live
    BY <1>1 DEF Update, OK, Retiring, Working
  <1>3. w.labels \in Labels
    <2>1. c.conf \in Configs BY <1>1, CommandFields
    <2> QED BY <2>1, <1>2 DEF Wanted, Configs
  <1>4. live' = live /\ recreated' = recreated /\ retired' = retired /\ config' = config
        /\ obj' = [obj EXCEPT ![i].tuned = TRUE, ![i].labels = IF kept THEN @ ELSE w.labels]
    BY DEF Update
  <1>5. obj \in [Ids -> Objects] /\ live \subseteq Ids /\ recreated \subseteq Ids /\ retired \subseteq Ids
    BY DEF IInv, TypeOK
  <1> HIDE DEF w, i
  <1>6. obj' \in [Ids -> Objects] /\ \A j \in Ids : obj'[j].name = obj[j].name
    BY <1>2, <1>3, <1>4, <1>5, Zenon DEF Objects
  <1>7. Issued' = Issued /\ Issued \subseteq Ids BY <1>4, <1>5 DEF Issued
  <1>8. Grows(Issued, obj, Issued', obj') BY <1>6, <1>7 DEF Grows
  <1>9. OK(c, Issued', obj') BY <1>1, <1>8, StaysOK
  <1>10. Named(i, c.entry[2], Issued', obj') /\ i \in Ids \cup {0} BY <1>2, <1>5, <1>9 DEF OK, i
  <1>11. OK(Bind(c, c.entry, i), Issued', obj') BY <1>2, <1>9, <1>10, BindOK, Zenon
  <1>12. OK([c EXCEPT !.pc = "idle"], Issued', obj') BY <1>9, MovesOK DEF Steps, Working, Retiring
  <1>13. \/ cmd' = [cmd EXCEPT ![o] = Bind(c, c.entry, i)]
         \/ cmd' = [cmd EXCEPT ![o] = [c EXCEPT !.pc = "idle"]]
    BY DEF Update, Continue, End, i
  <1>14. live' \subseteq Ids /\ recreated' \subseteq Ids /\ retired' \subseteq Ids BY <1>4, <1>5
  <1> HIDE DEF c
  <1> QED BY <1>4, <1>6, <1>8, <1>11, <1>12, <1>13, <1>14, OneShell, Zenon

LEMMA DeletesKeep ==
    ASSUME IInv, NEW o \in Ops, RetireDelete(o) \/ \E answered \in BOOLEAN : RecreateDelete(o, answered)
    PROVE  IInv'
  <1> DEFINE c == cmd[o]
  <1>1. OK(c, Issued, obj) /\ c \in Commands BY DEF IInv, OK
  <1>2. c.pc = "delete" /\ c.entry \in Entries BY <1>1 DEF RetireDelete, RecreateDelete, OK, Working
  <1>3. Issued' = Issued /\ obj' = obj /\ config' = config
    BY DEF RetireDelete, RecreateDelete, Issued
  <1>4. live' \subseteq Ids /\ recreated' \subseteq Ids /\ retired' \subseteq Ids /\ obj' \in [Ids -> Objects]
    BY DEF RetireDelete, RecreateDelete, IInv, TypeOK
  <1>5. Grows(Issued, obj, Issued', obj') BY <1>3 DEF Grows
  <1>6. OK([c EXCEPT !.pc = "idle"], Issued', obj') BY <1>1, <1>3, MovesOK DEF Steps, Working, Retiring
  <1>7. c.kind = "recreate" => OK([c EXCEPT !.pc = "look"], Issued', obj')
    BY <1>1, <1>2, <1>3, MovesOK DEF Steps, Working
  <1>8. \/ cmd' = [cmd EXCEPT ![o] = [c EXCEPT !.pc = "idle"]]
        \/ c.kind = "recreate" /\ cmd' = [cmd EXCEPT ![o] = [c EXCEPT !.pc = "look"]]
    BY DEF RetireDelete, RecreateDelete, Continue, End
  <1> HIDE DEF c
  <1> QED BY <1>3, <1>4, <1>5, <1>6, <1>7, <1>8, OneShell

LEMMA ReadsKeep ==
    ASSUME IInv, NEW o \in Ops,
           RecreateInspect(o) \/ FindReplacement(o) \/ FindOld(o) \/ ReadStatistics(o)
    PROVE  IInv'
  <1> DEFINE c == cmd[o]
  <1>1. OK(c, Issued, obj) /\ c \in Commands BY DEF IInv, OK
  <1>2. CASE RecreateInspect(o)
    <2>1. c.entry \in Entries /\ c.kind # "retire" BY <1>1, <1>2 DEF RecreateInspect, OK, Working, Retiring
    <2>2. PICK q \in {"delete", "look"} : cmd' = [cmd EXCEPT ![o] = [c EXCEPT !.pc = q]]
      BY <1>2, Zenon DEF RecreateInspect, Continue
    <2>3. OK([c EXCEPT !.pc = q], Issued, obj) BY <1>1, <2>1, MovesOK DEF Steps
    <2> QED BY <1>2, <2>2, <2>3, QuietShell, Zenon DEF RecreateInspect
  <1>3. CASE FindReplacement(o)
    <2>1. c.entry \in Entries BY <1>1, <1>3 DEF FindReplacement, OK, Working
    <2>2. OK([c EXCEPT !.pc = "old"], Issued, obj) BY <1>1, <2>1, MovesOK DEF Steps, Retiring
    <2> QED BY <1>3, <2>2, QuietShell, Zenon DEF FindReplacement, Continue
  <1>4. CASE FindOld(o)
    <2>1. c.entry \in Entries BY <1>1, <1>4, Zenon DEF FindOld, OK, Working
    <2>2. PICK i \in live : cmd' = [cmd EXCEPT ![o] = [c EXCEPT !.pc = "stats", !.plan.id = i]]
      BY <1>4, ListedIsLive, Zenon DEF FindOld, Continue
    <2>3. i \in Ids BY DEF IInv, TypeOK
    <2> DEFINE d == [c EXCEPT !.pc = "stats", !.plan.id = i]
    <2>4. c.plan \in Plans BY <1>1, CommandFields
    <2>5. [c.plan EXCEPT !.id = i] \in Plans BY <2>3, <2>4 DEF Plans
    <2>6. d \in Commands /\ d.conf = c.conf /\ d.plans = c.plans /\ d.pc = "stats"
          /\ d.entry = c.entry /\ d.kind = c.kind
      BY <1>1, <2>5, Zenon DEF Commands, Steps
    <2>7. OK(d, Issued, obj) BY <1>1, <2>1, <2>6 DEF OK, Working, Retiring
    <2> QED BY <1>4, <2>2, <2>7, QuietShell, Zenon DEF FindOld
  <1>5. CASE ReadStatistics(o)
    <2>1. c.entry \in Entries BY <1>1, <1>5 DEF ReadStatistics, OK, Working
    <2>2. OK([c EXCEPT !.pc = "delete"], Issued, obj) BY <1>1, <2>1, MovesOK DEF Steps, Retiring
    <2> QED BY <1>5, <2>2, QuietShell, Zenon DEF ReadStatistics, Continue
  <1> QED BY <1>2, <1>3, <1>4, <1>5

LEMMA WriteKeeps ==
    ASSUME IInv, NEW o \in Ops, Write(o)
    PROVE  IInv'
  <1> DEFINE c == cmd[o]
  <1>1. OK(c, Issued, obj) /\ c \in Commands BY DEF IInv, OK
  <1>2. c.conf \in Configs BY <1>1, CommandFields
  <1>3. OK([c EXCEPT !.pc = "idle"], Issued, obj) BY <1>1, MovesOK DEF Steps, Working, Retiring
  <1>4. NamedIds(c.conf.id, Issued, obj) BY <1>1 DEF OK
  <1> QED BY <1>2, <1>3, <1>4, QuietShell, Zenon DEF Write, End
LEMMA EditsKeep ==
    ASSUME IInv, Constants, Operator
    PROVE  IInv'
  <1>1. config \in Configs /\ NamedIds(config.id, Issued, obj) BY DEF IInv, TypeOK
  <1>2. config.id \in [Entries -> Ids \cup {0}] BY <1>1 DEF Configs
  <1>3. cmd' = cmd /\ GitHubUnchanged
    BY Zenon DEF Operator, MoveScope, ListSet, UnlistSet, Relabel, BindByHand, Edit
  <1>4. config' \in Configs /\ NamedIds(config'.id, Issued, obj)
    <2>1. CASE \E s \in Scopes, u \in Urls, g \in Groups, keep \in BOOLEAN : MoveScope(s, u, g, keep)
      <3>1. PICK s \in Scopes, u \in Urls, g \in Groups, keep \in BOOLEAN : MoveScope(s, u, g, keep) BY <2>1
      <3> DEFINE f == [e \in Entries |-> IF e[1] = s /\ ~keep THEN 0 ELSE config.id[e]]
      <3>2. f \in [Entries -> Ids \cup {0}] BY <1>2
      <3>3. NamedIds(f, Issued, obj) BY <1>1 DEF NamedIds, Named
      <3>4. config' = [config EXCEPT !.url[s] = u, !.group[s] = g, !.id = f] BY <3>1 DEF MoveScope, Edit
      <3> HIDE DEF f
      <3> QED BY <1>1, <3>2, <3>3, <3>4, Zenon DEF Configs
    <2>2. CASE \E e \in Entries : ListSet(e)
      <3>1. PICK e \in Entries : ListSet(e) BY <2>2
      <3>2. config' = [config EXCEPT !.listed = @ \cup {e}, !.id[e] = 0] BY <3>1 DEF ListSet, Edit
      <3>3. config' \in Configs /\ config'.id = [config.id EXCEPT ![e] = 0] BY <1>1, <3>2, Zenon DEF Configs
      <3> QED BY <1>1, <1>2, <3>3 DEF NamedIds, Named
    <2>3. CASE \E e \in Entries : UnlistSet(e)
      <3>1. PICK e \in Entries : UnlistSet(e) BY <2>3
      <3>2. config' = [config EXCEPT !.listed = @ \ {e}] BY <3>1 DEF UnlistSet, Edit
      <3> QED BY <1>1, <3>2 DEF Configs
    <2>4. CASE \E e \in Entries, l \in Labels : Relabel(e, l)
      <3>1. PICK e \in Entries, l \in Labels : Relabel(e, l) BY <2>4
      <3>2. config' = [config EXCEPT !.labels[e] = l] BY <3>1 DEF Relabel, Edit
      <3> QED BY <1>1, <3>2 DEF Configs
    <2>5. CASE \E e \in Entries, i \in Ids : BindByHand(e, i)
      <3>1. PICK e \in Entries, i \in Ids : BindByHand(e, i) BY <2>5
      <3>2. config' = [config EXCEPT !.id[e] = i] /\ i \in live /\ obj[i].name = e[2]
        BY <3>1 DEF BindByHand, Edit
      <3>3. config' \in Configs /\ config'.id = [config.id EXCEPT ![e] = i] BY <1>1, <3>2 DEF Configs
      <3> QED BY <1>1, <1>2, <3>2, <3>3 DEF NamedIds, Named, Issued
    <2> QED BY <2>1, <2>2, <2>3, <2>4, <2>5 DEF Operator
  <1>5. Issued' = Issued /\ obj' = obj BY <1>3 DEF GitHubUnchanged, Issued
  <1>6. TypeOK' BY <1>3, <1>4 DEF IInv, TypeOK, GitHubUnchanged
  <1> QED BY <1>3, <1>4, <1>5, <1>6 DEF IInv

LEMMA DriftKeeps ==
    ASSUME IInv, GitHub
    PROVE  IInv'
  <1>1. PICK i \in Ids, l \in Labels, t \in BOOLEAN, k \in BOOLEAN, b \in BOOLEAN : Drift(i, l, t, k, b)
    BY DEF GitHub
  <1>2. obj' = [obj EXCEPT ![i].labels = l, ![i].tuned = t, ![i].counted = k, ![i].busy = b]
        /\ config' = config /\ cmd' = cmd /\ live' = live /\ recreated' = recreated /\ retired' = retired
    BY <1>1 DEF Drift
  <1>3. obj \in [Ids -> Objects] /\ Issued \subseteq Ids BY DEF IInv, TypeOK, Issued
  <1> DEFINE n == [obj[i] EXCEPT !.labels = l, !.tuned = t, !.counted = k, !.busy = b]
  <1>3a. obj' = [obj EXCEPT ![i] = n] BY <1>2, <1>3, Zenon
  <1>3b. n \in Objects /\ n.name = obj[i].name BY <1>3, Zenon DEF Objects
  <1> HIDE DEF n
  <1>4. obj' \in [Ids -> Objects] /\ \A j \in Ids : obj'[j].name = obj[j].name BY <1>3, <1>3a, <1>3b
  <1>5. Issued' = Issued BY <1>2 DEF Issued
  <1>6. Grows(Issued, obj, Issued', obj') BY <1>3, <1>4, <1>5 DEF Grows
  <1>7. \A o \in Ops : OK(cmd'[o], Issued', obj') BY <1>2, <1>6, StaysOK DEF IInv
  <1>8. NamedIds(config'.id, Issued', obj') BY <1>2, <1>6, StaysNamed DEF IInv
  <1>9. TypeOK' BY <1>2, <1>4 DEF IInv, TypeOK
  <1> QED BY <1>7, <1>8, <1>9 DEF IInv

LEMMA IInvHolds ==
    ASSUME Constants PROVE Spec => []IInv
  <1>1. ASSUME Init PROVE IInv
    <2>1. config \in Configs /\ \A e \in Entries : config.id[e] = 0 BY <1>1 DEF Init
    <2>2. TypeOK BY <1>1, <2>1 DEF Init, TypeOK
    <2>3. NamedIds(config.id, Issued, obj) BY <2>1 DEF NamedIds, Named
    <2>4. ASSUME NEW o \in Ops PROVE OK(cmd[o], Issued, obj)
      <3>1. cmd[o] = Fresh("none", "idle") BY <1>1 DEF Init
      <3>2. Fresh("none", "idle") \in Commands /\ Fresh("none", "idle").conf = config
            /\ Fresh("none", "idle").pc = "idle" /\ Fresh("none", "idle").kind = "none"
            /\ \A e \in Entries : Fresh("none", "idle").plans[e].id = 0
        BY <2>1 DEF Fresh, Commands, NoPlan, Plans, Steps
      <3> QED BY <2>3, <3>1, <3>2 DEF OK, Named, Working
    <2> QED BY <2>2, <2>3, <2>4 DEF IInv
  <1>2. ASSUME IInv, [Next]_vars PROVE IInv'
    <2>1. CASE UNCHANGED vars
      BY <1>2, <2>1 DEF vars, IInv, TypeOK, Issued, OK, NamedIds, Named
    <2>2. CASE Operator BY <1>2, <2>2, EditsKeep
    <2>3. CASE GitHub BY <1>2, <2>3, DriftKeeps
    <2>4. ASSUME NEW o \in Ops, Step(o) PROVE IInv'
      <3>1. CASE Fail(o) BY <1>2, <3>1, FailKeeps
      <3>2. CASE \/ \E a, d \in BOOLEAN : Provision(o, a, d)
                 \/ \E n \in Names, e \in Entries : \E ss \in SUBSET Scopes : Recreate(o, ss, n, e)
                 \/ \E e \in Entries, u \in Urls : Retire(o, e, u)
        BY <1>2, <3>2, BeginKeeps
      <3>3. CASE \E e \in Entries : PlanOne(o, e) \/ ApplyOne(o, e)
        BY <1>2, <3>3, PlanningKeeps, ApplyKeeps
      <3>4. CASE Look(o) BY <1>2, <3>4, LookKeeps
      <3>5. CASE \E answered \in BOOLEAN, i \in Ids : Create(o, i, answered) BY <1>2, <3>5, CreateKeeps
      <3>6. CASE \E answered, kept \in BOOLEAN : Update(o, kept, answered) BY <1>2, <3>6, UpdateKeeps
      <3>7. CASE RetireDelete(o) \/ \E answered \in BOOLEAN : RecreateDelete(o, answered)
        BY <1>2, <3>7, DeletesKeep
      <3>8. CASE RecreateInspect(o) \/ FindReplacement(o) \/ FindOld(o) \/ ReadStatistics(o)
        BY <1>2, <3>8, ReadsKeep
      <3>9. CASE Write(o) BY <1>2, <3>9, WriteKeeps
      <3>10. (\E n \in Names, e \in Entries : \E ss \in {Scopes} \cup {{s} : s \in Scopes} : Recreate(o, ss, n, e))
             => \E n \in Names, e \in Entries : \E ss \in SUBSET Scopes : Recreate(o, ss, n, e)
        BY Zenon DEF Recreate
      <3> QED BY <2>4, <3>1, <3>2, <3>3, <3>4, <3>5, <3>6, <3>7, <3>8, <3>9, <3>10 DEF Step
    <2> QED BY <1>2, <2>1, <2>2, <2>3, <2>4 DEF Next
  <1> QED BY <1>1, <1>2, PTL DEF Spec

(* BoundWasIssued: whatever commands, edits, kills and lost answers          *)
(* interleave, the configuration binds only ids GitHub issued for that name. *)
THEOREM BindsOnlyIssuedIds ==
    ASSUME Constants PROVE Spec => []BoundWasIssued
  <1>1. ASSUME IInv PROVE BoundWasIssued
    <2>1. config.listed \subseteq Entries BY <1>1 DEF IInv, TypeOK, Configs
    <2> QED BY <1>1, <2>1 DEF IInv, BoundWasIssued, NamedIds, Named
  <1> QED BY <1>1, IInvHolds, PTL
(* RepairsOnlyWhenAllowed: Ensure updates in place only after an inspection  *)
(* that was permitted to reconcile drift.                                    *)
THEOREM RepairsArePermitted ==
    ASSUME Constants PROVE Spec => [][RepairsOnlyWhenAllowed]_vars
  <1>1. ASSUME IInv, [Next]_vars PROVE [RepairsOnlyWhenAllowed]_vars
    <2>1. CASE UNCHANGED vars BY <2>1
    <2>2. CASE Operator
      <3>1. UNCHANGED cmd BY <2>2, Zenon DEF Operator, MoveScope, ListSet, UnlistSet, Relabel, BindByHand, Edit
      <3> QED BY <3>1 DEF RepairsOnlyWhenAllowed
    <2>3. CASE GitHub
      <3>1. UNCHANGED cmd BY <2>3 DEF GitHub, Drift
      <3> QED BY <3>1 DEF RepairsOnlyWhenAllowed
    <2>4. ASSUME NEW o \in Ops, Step(o) PROVE RepairsOnlyWhenAllowed
      <3>1. obj \in [Ids -> Objects] /\ live \subseteq Ids BY <1>1 DEF IInv, TypeOK
      <3>2. CASE obj' = obj BY <3>2 DEF RepairsOnlyWhenAllowed
      <3>3. CASE \E answered \in BOOLEAN, i \in Ids : Create(o, i, answered)
        <4>1. PICK answered \in BOOLEAN, i \in Ids : Create(o, i, answered) BY <3>3
        <4>2. i \notin live /\ \A j \in Ids \ {i} : obj'[j] = obj[j] BY <4>1, <3>1 DEF Create, Issued
        <4> QED BY <4>2, <3>1 DEF RepairsOnlyWhenAllowed
      <3>4. CASE \E answered, kept \in BOOLEAN : Update(o, kept, answered)
        <4>1. PICK answered \in BOOLEAN, kept \in BOOLEAN : Update(o, kept, answered) BY <3>4
        <4>2. cmd[o].pc = "act" /\ cmd[o].plan.action = "update" BY <4>1 DEF Update
        <4>3. cmd[o].drift BY <1>1, <4>2 DEF IInv, OK
        <4>4. \A j \in Ids : j # cmd[o].plan.id => obj'[j] = obj[j] BY <4>1, <3>1 DEF Update
        <4> QED BY <4>3, <4>4, <3>1 DEF RepairsOnlyWhenAllowed
      <3>5. \/ obj' = obj
            \/ \E answered \in BOOLEAN, i \in Ids : Create(o, i, answered)
            \/ \E answered, kept \in BOOLEAN : Update(o, kept, answered)
        BY <2>4, Zenon DEF Step, Fail, Provision, PlanOne, ApplyOne, Look, RecreateDelete, Recreate, RecreateInspect,
                    Retire, FindReplacement, FindOld, ReadStatistics, RetireDelete, Write, GitHubUnchanged
      <3> QED BY <3>2, <3>3, <3>4, <3>5
    <2> QED BY <1>1, <2>1, <2>2, <2>3, <2>4 DEF Next
  <1> QED BY <1>1, IInvHolds, PTL DEF Spec

-----------------------------------------------------------------------------
(***************************************************************************)
(* Operators that take turns.                                              *)
(***************************************************************************)
Kept == live \cup recreated \cup {0}

Carries(c, K, file) ==
    /\ \A e \in c.conf.listed : c.conf.id[e] \in K
    /\ \A e \in Entries : c.plans[e].id \in K
    /\ c.kind = "retire" => /\ c.conf = file
                            /\ c.pc \in {"stats", "delete"} => c.plan.id \notin Bound(c.conf)

Apart == live \cap recreated = {} /\ (live \cup recreated) \cap retired = {}

Solo ==
    /\ \A o, p \in Ops : Running(o) /\ Running(p) => o = p
    /\ Apart
    /\ \A e \in config.listed : config.id[e] \in Kept
    /\ \A o \in Ops : Running(o) => Carries(cmd[o], Kept, config)

LEMMA SoloShell ==
    ASSUME IInv, Solo, NEW o \in Ops, NEW c, cmd' = [cmd EXCEPT ![o] = c],
           \A p \in Ops : Running(p) => p = o,
           Apart', \A e \in config'.listed : config'.id[e] \in Kept',
           c.pc = "idle" \/ Carries(c, Kept', config')
    PROVE  Solo'
  <1>1. \A p \in Ops : cmd'[p] = IF p = o THEN c ELSE cmd[p] BY DEF IInv, TypeOK
  <1>2. \A p \in Ops : Running(p)' => p = o /\ c.pc # "idle" BY <1>1 DEF Running
  <1> QED BY <1>1, <1>2 DEF Solo

(* The same when neither GitHub nor the file moves. *)
LEMMA SoloQuiet ==
    ASSUME IInv, Solo, NEW o \in Ops, NEW c, cmd' = [cmd EXCEPT ![o] = c],
           \A p \in Ops : Running(p) => p = o, GitHubUnchanged, config' = config,
           c.pc = "idle" \/ Carries(c, Kept, config)
    PROVE  Solo'
  <1>1. Kept' = Kept /\ Apart' BY DEF GitHubUnchanged, Kept, Apart, Solo
  <1>2. \A e \in config'.listed : config'.id[e] \in Kept' BY <1>1 DEF Solo
  <1>3. c.pc = "idle" \/ Carries(c, Kept', config') BY <1>1
  <1> QED BY <1>1, <1>2, <1>3, SoloShell, Zenon

(* A bound id the command may keep leaves its clone in order. *)
LEMMA BindCarries ==
    ASSUME NEW c, NEW I, NEW ob, NEW K, NEW file, OK(c, I, ob), Carries(c, K, file),
           NEW e \in Entries, NEW i \in Ids \cup {0}, Named(i, e[2], I, ob), c.kind # "retire", i \in K
    PROVE  Carries(Bind(c, e, i), K, file)
  <1> DEFINE b == Bind(c, e, i)
  <1>1. b.kind = c.kind /\ b.plans = c.plans /\ b.conf.listed = c.conf.listed
        /\ b.conf.id = [c.conf.id EXCEPT ![e] = i]
    BY BindOK
  <1>2. c.conf.id \in [Entries -> Ids \cup {0}] /\ c.conf.listed \subseteq Entries BY CommandFields DEF OK
  <1> HIDE DEF b
  <1> QED BY <1>1, <1>2 DEF Carries, b
LEMMA SoloBegin ==
    ASSUME IInv, Solo, Exclusive, NEW o \in Ops,
           \/ \E a, d \in BOOLEAN : Provision(o, a, d)
           \/ \E n \in Names, e \in Entries : \E ss \in SUBSET Scopes : Recreate(o, ss, n, e)
           \/ \E e \in Entries, u \in Urls : Retire(o, e, u)
    PROVE  Solo'
  <1>1. PICK c : /\ cmd' = [cmd EXCEPT ![o] = c] /\ c.conf = config /\ c.pc \in {"plan", "inspect", "current"}
                 /\ \A e \in Entries : c.plans[e].id = 0
    <2>1. ASSUME NEW a \in BOOLEAN, NEW d \in BOOLEAN, Provision(o, a, d)
          PROVE  \E c : /\ cmd' = [cmd EXCEPT ![o] = c] /\ c.conf = config /\ c.pc \in {"plan", "inspect", "current"}
                        /\ \A e \in Entries : c.plans[e].id = 0
      <3> WITNESS [Fresh("provision", "plan") EXCEPT !.todo = config.listed, !.apply = a, !.drift = d]
      <3> QED BY <2>1 DEF Provision, Begin, Fresh, NoPlan
    <2>2. ASSUME NEW n \in Names, NEW x \in Entries, NEW ss \in SUBSET Scopes, Recreate(o, ss, n, x)
          PROVE  \E c : /\ cmd' = [cmd EXCEPT ![o] = c] /\ c.conf = config /\ c.pc \in {"plan", "inspect", "current"}
                        /\ \A e \in Entries : c.plans[e].id = 0
      <3> WITNESS [Fresh("recreate", "inspect") EXCEPT !.entry = x, !.drift = TRUE]
      <3> QED BY <2>2 DEF Recreate, Begin, Fresh, NoPlan
    <2>3. ASSUME NEW x \in Entries, NEW u \in Urls, Retire(o, x, u)
          PROVE  \E c : /\ cmd' = [cmd EXCEPT ![o] = c] /\ c.conf = config /\ c.pc \in {"plan", "inspect", "current"}
                        /\ \A e \in Entries : c.plans[e].id = 0
      <3> WITNESS [Fresh("retire", "current") EXCEPT !.entry = x, !.from = u]
      <3> QED BY <2>3, Zenon DEF Retire, Begin, Fresh, NoPlan
    <2> QED BY <2>1, <2>2, <2>3
  <1>2. GitHubUnchanged /\ config' = config /\ \A p \in Ops : ~Running(p)
    BY Zenon DEF Provision, Recreate, Retire, Begin, MayBegin
  <1>3. Carries(c, Kept, config) BY <1>1 DEF Carries, Solo, Kept
  <1> QED BY <1>1, <1>2, <1>3, SoloQuiet, Zenon

LEMMA SoloWork ==
    ASSUME IInv, Solo, NEW o \in Ops,
           Look(o) \/ \E e \in Entries : PlanOne(o, e) \/ ApplyOne(o, e)
    PROVE  Solo'
  <1> DEFINE c == cmd[o]
  <1>1. OK(c, Issued, obj) /\ c \in Commands BY DEF IInv, OK
  <1>2. Running(o) /\ c.kind # "retire"
    BY <1>1, Zenon DEF Look, PlanOne, ApplyOne, Running, OK, Retiring
  <1>3. Carries(c, Kept, config) /\ \A p \in Ops : Running(p) => p = o BY <1>2 DEF Solo
  <1>4. GitHubUnchanged /\ config' = config BY Zenon DEF Look, PlanOne, ApplyOne
  <1>5. c.drift \in BOOLEAN /\ c.plans \in [Entries -> Plans] /\ c.conf \in Configs
        /\ c.entry \in Entries \cup {None}
    BY <1>1, CommandFields
  <1>6. CASE Look(o)
    <2>1. c.entry \in Entries BY <1>1, <1>6, Zenon DEF Look, OK, Working
    <2>2. PICK p \in Inspect(Wanted(c.conf, c.entry), c.drift) :
             cmd' = [cmd EXCEPT ![o] = IF p.action = "reuse" THEN Bind(c, c.entry, p.id)
                                       ELSE [c EXCEPT !.pc = "act", !.plan = p]]
      BY <1>6, Zenon DEF Look, Continue
    <2>3. p \in Plans /\ (p.id = 0 \/ (p.id \in live /\ obj[p.id].name = Wanted(c.conf, c.entry).name))
      BY <1>5, InspectAnswers DEF IInv
    <2>4. Named(p.id, c.entry[2], Issued, obj) /\ p.id \in Ids \cup {0} /\ p.id \in Kept
      BY <2>3 DEF Wanted, Named, Issued, Plans, Kept
    <2>5. Carries(Bind(c, c.entry, p.id), Kept, config) BY <1>1, <1>2, <1>3, <2>1, <2>4, BindCarries
    <2>6. Carries([c EXCEPT !.pc = "act", !.plan = p], Kept, config) BY <1>1, <1>2, <1>3 DEF Carries, Commands
    <2> HIDE DEF c
    <2> QED BY <1>3, <1>4, <2>2, <2>5, <2>6, SoloQuiet, Zenon
  <1>7. ASSUME NEW e \in Entries, ApplyOne(o, e) PROVE Solo'
    <2>1. \/ cmd' = [cmd EXCEPT ![o] = Bind(c, e, c.plans[e].id)]
          \/ cmd' = [cmd EXCEPT ![o] = [c EXCEPT !.pc = "look", !.entry = e]]
      BY <1>7, Zenon DEF ApplyOne, Continue
    <2>2. Named(c.plans[e].id, e[2], Issued, obj) /\ c.plans[e].id \in Ids \cup {0} /\ c.plans[e].id \in Kept
      BY <1>1, <1>3, <1>5 DEF OK, Plans, Carries
    <2>3. Carries(Bind(c, e, c.plans[e].id), Kept, config) BY <1>1, <1>2, <1>3, <2>2, BindCarries
    <2>4. Carries([c EXCEPT !.pc = "look", !.entry = e], Kept, config) BY <1>1, <1>2, <1>3 DEF Carries, Commands
    <2> HIDE DEF c
    <2> QED BY <1>3, <1>4, <2>1, <2>3, <2>4, SoloQuiet
  <1>8. ASSUME NEW e \in Entries, PlanOne(o, e) PROVE Solo'
    <2>1. PICK p \in Inspect(Wanted(c.conf, e), c.drift) :
             cmd' = [cmd EXCEPT ![o] = AfterPlanning([c EXCEPT !.plans[e] = p, !.todo = @ \ {e}])]
      BY <1>8, Zenon DEF PlanOne, Continue
    <2>2. p \in Plans /\ p.id \in Kept BY <1>5, InspectAnswers DEF IInv, Kept
    <2> DEFINE d == [c EXCEPT !.plans[e] = p, !.todo = @ \ {e}]
    <2>3. d \in Commands /\ d.conf = c.conf /\ d.kind = c.kind /\ d.plans = [c.plans EXCEPT ![e] = p]
      BY <1>1, <1>5, <2>2, Zenon DEF Commands
    <2> HIDE DEF d, c
    <2>4. \A x \in Entries : d.plans[x].id \in Kept BY <1>3, <1>5, <2>2, <2>3 DEF Carries
    <2>5. AfterPlanning(d).conf = d.conf /\ AfterPlanning(d).plans = d.plans /\ AfterPlanning(d).kind = d.kind
      BY <2>3 DEF AfterPlanning, Commands
    <2>6. Carries(AfterPlanning(d), Kept, config) BY <1>2, <1>3, <2>3, <2>4, <2>5 DEF Carries
    <2> QED BY <1>3, <1>4, <2>1, <2>6, SoloQuiet, Zenon DEF d
  <1> QED BY <1>6, <1>7, <1>8
LEMMA SoloReads ==
    ASSUME IInv, Solo, NEW o \in Ops,
           Fail(o) \/ RecreateInspect(o) \/ FindReplacement(o) \/ FindOld(o) \/ ReadStatistics(o)
    PROVE  Solo'
  <1> DEFINE c == cmd[o]
  <1>1. OK(c, Issued, obj) /\ c \in Commands BY DEF IInv, OK
  <1>2. Running(o) BY Zenon DEF Fail, RecreateInspect, FindReplacement, FindOld, ReadStatistics, Running
  <1>3. Carries(c, Kept, config) /\ \A p \in Ops : Running(p) => p = o BY <1>2 DEF Solo
  <1>4. GitHubUnchanged /\ config' = config
    BY Zenon DEF Fail, RecreateInspect, FindReplacement, FindOld, ReadStatistics
  <1>5. CASE Fail(o)
    <2>1. [c EXCEPT !.pc = "idle"].pc = "idle" BY <1>1 DEF Commands
    <2> QED BY <1>3, <1>4, <1>5, <2>1, SoloQuiet, Zenon DEF Fail, End
  <1>6. CASE RecreateInspect(o)
    <2>1. c.kind # "retire" BY <1>1, <1>6 DEF RecreateInspect, OK, Retiring
    <2>2. PICK q \in {"delete", "look"} : cmd' = [cmd EXCEPT ![o] = [c EXCEPT !.pc = q]]
      BY <1>6, Zenon DEF RecreateInspect, Continue
    <2>3. Carries([c EXCEPT !.pc = q], Kept, config) BY <1>1, <1>3, <2>1 DEF Carries, Commands
    <2> QED BY <1>3, <1>4, <2>2, <2>3, SoloQuiet, Zenon
  <1>7. CASE FindReplacement(o)
    <2>1. Carries([c EXCEPT !.pc = "old"], Kept, config) BY <1>1, <1>3 DEF Carries, Commands
    <2> QED BY <1>3, <1>4, <1>7, <2>1, SoloQuiet, Zenon DEF FindReplacement, Continue
  <1>8. CASE FindOld(o)
    <2>1. PICK i \in live : /\ i \notin Bound(c.conf)
                            /\ cmd' = [cmd EXCEPT ![o] = [c EXCEPT !.pc = "stats", !.plan.id = i]]
      BY <1>8, ListedIsLive, Zenon DEF FindOld, Continue
    <2> DEFINE d == [c EXCEPT !.pc = "stats", !.plan.id = i]
    <2>2. c.plan \in Plans BY <1>1, CommandFields
    <2>3. d.conf = c.conf /\ d.plans = c.plans /\ d.kind = c.kind /\ d.plan.id = i
      BY <1>1, <2>2 DEF Commands, Plans
    <2> HIDE DEF d
    <2>4. Carries(d, Kept, config) BY <1>3, <2>1, <2>3 DEF Carries
    <2> QED BY <1>3, <1>4, <2>1, <2>4, SoloQuiet, Zenon DEF d
  <1>9. CASE ReadStatistics(o)
    <2>1. c.pc = "stats" BY <1>9 DEF ReadStatistics
    <2>2. Carries([c EXCEPT !.pc = "delete"], Kept, config) BY <1>1, <1>3, <2>1 DEF Carries, Commands
    <2> QED BY <1>3, <1>4, <1>9, <2>2, SoloQuiet, Zenon DEF ReadStatistics, Continue
  <1> QED BY <1>5, <1>6, <1>7, <1>8, <1>9

LEMMA SoloCreate ==
    ASSUME IInv, Constants, Solo, NEW o \in Ops, NEW i \in Ids, NEW answered \in BOOLEAN, Create(o, i, answered)
    PROVE  Solo'
  <1> DEFINE c == cmd[o]
  <1>1. OK(c, Issued, obj) /\ c \in Commands BY DEF IInv, OK
  <1>2. IInv' BY CreateKeeps
  <1>3. c.pc = "act" /\ c.kind # "retire" /\ c.entry \in Entries /\ Running(o)
    BY <1>1 DEF Create, OK, Retiring, Working, Running
  <1>4. Carries(c, Kept, config) /\ \A p \in Ops : Running(p) => p = o BY <1>3 DEF Solo
  <1>5. config' = config /\ i \notin Issued /\ live' = live \cup {i} /\ recreated' = recreated /\ retired' = retired
    BY DEF Create
  <1>6. Apart' /\ Kept \subseteq Kept' /\ i \in Kept' BY <1>5 DEF Apart, Solo, Issued, Kept
  <1>7. \A e \in config'.listed : config'.id[e] \in Kept' BY <1>5, <1>6 DEF Solo
  <1>8. Carries(c, Kept', config') BY <1>3, <1>4, <1>6 DEF Carries
  <1>9. obj \in [Ids -> Objects] /\ live \subseteq Ids /\ recreated \subseteq Ids /\ retired \subseteq Ids
    BY DEF IInv, TypeOK
  <1>10. obj'[i].name = c.entry[2] /\ \A j \in Ids \ {i} : obj'[j] = obj[j]
    BY <1>9 DEF Create, Wanted
  <1>11. Issued' = Issued \cup {i} /\ Issued \subseteq Ids BY <1>5, <1>9 DEF Issued
  <1>12. Grows(Issued, obj, Issued', obj') BY <1>5, <1>10, <1>11 DEF Grows
  <1>13. OK(c, Issued', obj') BY <1>1, <1>12, StaysOK
  <1>14. Named(i, c.entry[2], Issued', obj') BY <1>10, <1>11 DEF Named
  <1>15. Carries(Bind(c, c.entry, i), Kept', config') BY <1>3, <1>6, <1>8, <1>13, <1>14, BindCarries
  <1>16. [c EXCEPT !.pc = "idle"].pc = "idle" BY <1>1 DEF Commands
  <1>17. \/ cmd' = [cmd EXCEPT ![o] = Bind(c, c.entry, i)]
         \/ cmd' = [cmd EXCEPT ![o] = [c EXCEPT !.pc = "idle"]]
    BY DEF Create, Continue, End
  <1> HIDE DEF c
  <1> QED BY <1>4, <1>6, <1>7, <1>15, <1>16, <1>17, SoloShell, Zenon

LEMMA SoloUpdate ==
    ASSUME IInv, Solo, NEW o \in Ops, NEW kept \in BOOLEAN, NEW answered \in BOOLEAN, Update(o, kept, answered)
    PROVE  Solo'
  <1> DEFINE c == cmd[o]
             i == c.plan.id
  <1>1. OK(c, Issued, obj) /\ c \in Commands BY DEF IInv, OK
  <1>2. c.pc = "act" /\ c.kind # "retire" /\ c.entry \in Entries /\ Running(o) /\ i \in live
    BY <1>1 DEF Update, OK, Retiring, Working, Running
  <1>3. Carries(c, Kept, config) /\ \A p \in Ops : Running(p) => p = o BY <1>2 DEF Solo
  <1>4. config' = config /\ Kept' = Kept /\ Apart' BY DEF Update, Kept, Apart, Solo
  <1>5. Named(i, c.entry[2], Issued, obj) /\ i \in Ids \cup {0} /\ i \in Kept
    BY <1>1, <1>2 DEF OK, IInv, TypeOK, Kept
  <1>6. Carries(Bind(c, c.entry, i), Kept, config) BY <1>1, <1>2, <1>3, <1>5, BindCarries
  <1>7. [c EXCEPT !.pc = "idle"].pc = "idle" BY <1>1 DEF Commands
  <1>8. \/ cmd' = [cmd EXCEPT ![o] = Bind(c, c.entry, i)]
        \/ cmd' = [cmd EXCEPT ![o] = [c EXCEPT !.pc = "idle"]]
    BY DEF Update, Continue, End
  <1>9. \A e \in config'.listed : config'.id[e] \in Kept' BY <1>4 DEF Solo
  <1> HIDE DEF c, i
  <1> QED BY <1>3, <1>4, <1>6, <1>7, <1>8, <1>9, SoloShell, Zenon

(* A recreation moves its id from live to recreated; a retirement deletes *)
(* an id its clone, which is still the file, does not bind.               *)
LEMMA SoloDeletes ==
    ASSUME IInv, Solo, NEW o \in Ops, RetireDelete(o) \/ \E answered \in BOOLEAN : RecreateDelete(o, answered)
    PROVE  Solo'
  <1> DEFINE c == cmd[o]
  <1>1. OK(c, Issued, obj) /\ c \in Commands BY DEF IInv, OK
  <1>2. c.pc = "delete" /\ Running(o) BY DEF RetireDelete, RecreateDelete, Running
  <1>3. Carries(c, Kept, config) /\ \A p \in Ops : Running(p) => p = o BY <1>2 DEF Solo
  <1>4. [c EXCEPT !.pc = "idle"].pc = "idle" BY <1>1 DEF Commands
  <1>5. ASSUME NEW answered \in BOOLEAN, RecreateDelete(o, answered) PROVE Solo'
    <2>1. Kept' = Kept /\ Apart' /\ config' = config /\ c.kind = "recreate"
      BY <1>5 DEF RecreateDelete, Kept, Apart, Solo
    <2>2. \A e \in config'.listed : config'.id[e] \in Kept' BY <2>1 DEF Solo
    <2>3. Carries([c EXCEPT !.pc = "look"], Kept', config')
      BY <1>1, <1>3, <2>1 DEF Carries, Commands
    <2>4. \/ cmd' = [cmd EXCEPT ![o] = [c EXCEPT !.pc = "idle"]]
          \/ cmd' = [cmd EXCEPT ![o] = [c EXCEPT !.pc = "look"]]
      BY <1>5 DEF RecreateDelete, Continue, End
    <2> HIDE DEF c
    <2> QED BY <1>3, <1>4, <2>1, <2>2, <2>3, <2>4, SoloShell
  <1>6. CASE RetireDelete(o)
    <2> DEFINE i == c.plan.id
    <2>1. c.kind = "retire" /\ i \in live /\ live' = live \ {i} /\ retired' = retired \cup {i}
          /\ recreated' = recreated /\ config' = config
      BY <1>6 DEF RetireDelete
    <2>2. i \notin Bound(config) BY <1>2, <1>3, <2>1 DEF Carries
    <2>3. Apart' BY <2>1 DEF Apart, Solo
    <2>4. i # 0 \/ i \in Kept' BY DEF Kept
    <2>5. \A e \in config'.listed : config'.id[e] \in Kept'
      BY <2>1, <2>2, <2>4 DEF Solo, Kept, Bound
    <2>6. cmd' = [cmd EXCEPT ![o] = [c EXCEPT !.pc = "idle"]] BY <1>6 DEF RetireDelete, End
    <2> QED BY <1>3, <1>4, <2>3, <2>5, <2>6, SoloShell, Zenon
  <1> QED BY <1>5, <1>6

LEMMA SoloWrite ==
    ASSUME IInv, Solo, NEW o \in Ops, Write(o)
    PROVE  Solo'
  <1> DEFINE c == cmd[o]
  <1>1. c \in Commands BY DEF IInv, OK
  <1>2. Running(o) BY DEF Write, Running
  <1>3. Carries(c, Kept, config) /\ \A p \in Ops : Running(p) => p = o BY <1>2 DEF Solo
  <1>4. Kept' = Kept /\ Apart' /\ config' = c.conf BY DEF Write, GitHubUnchanged, Kept, Apart, Solo
  <1>5. \A e \in config'.listed : config'.id[e] \in Kept' BY <1>3, <1>4 DEF Carries
  <1>6. [c EXCEPT !.pc = "idle"].pc = "idle" BY <1>1 DEF Commands
  <1> QED BY <1>3, <1>4, <1>5, <1>6, SoloShell, Zenon DEF Write, End

LEMMA SoloEdits ==
    ASSUME IInv, Solo, Exclusive, Operator
    PROVE  Solo'
  <1>1. cmd' = cmd /\ GitHubUnchanged /\ \A o \in Ops : ~Running(o)
    BY Zenon DEF Operator, MoveScope, ListSet, UnlistSet, Relabel, BindByHand, Edit, MayBegin
  <1>2. Kept' = Kept /\ Apart' BY <1>1 DEF GitHubUnchanged, Kept, Apart, Solo
  <1>3. \A o \in Ops : ~Running(o)' BY <1>1 DEF Running
  <1>4. config \in Configs BY DEF IInv, TypeOK
  <1>5. config.id \in [Entries -> Ids \cup {0}] /\ config.listed \subseteq Entries BY <1>4 DEF Configs
  <1>6. \A e \in config.listed : config.id[e] \in Kept BY DEF Solo
  <1>7. \A e \in config'.listed : config'.id[e] \in Kept
    <2>1. ASSUME NEW s \in Scopes, NEW u \in Urls, NEW g \in Groups, NEW keep \in BOOLEAN, MoveScope(s, u, g, keep)
          PROVE  \A e \in config'.listed : config'.id[e] \in Kept
      <3> DEFINE f == [e \in Entries |-> IF e[1] = s /\ ~keep THEN 0 ELSE config.id[e]]
      <3>1. config' = [config EXCEPT !.url[s] = u, !.group[s] = g, !.id = f] BY <2>1 DEF MoveScope, Edit
      <3>2. config'.listed = config.listed /\ config'.id = f BY <1>4, <3>1 DEF Configs
      <3> QED BY <1>5, <1>6, <3>2 DEF Kept
    <2>2. ASSUME NEW e \in Entries, ListSet(e) PROVE \A x \in config'.listed : config'.id[x] \in Kept
      <3>1. config' = [config EXCEPT !.listed = @ \cup {e}, !.id[e] = 0] BY <2>2 DEF ListSet, Edit
      <3>2. config'.listed = config.listed \cup {e} /\ config'.id = [config.id EXCEPT ![e] = 0]
        BY <1>4, <3>1 DEF Configs
      <3> QED BY <1>5, <1>6, <3>2 DEF Kept
    <2>3. ASSUME NEW e \in Entries, UnlistSet(e) PROVE \A x \in config'.listed : config'.id[x] \in Kept
      <3>1. config' = [config EXCEPT !.listed = @ \ {e}] BY <2>3 DEF UnlistSet, Edit
      <3> QED BY <1>4, <1>6, <3>1 DEF Configs
    <2>4. ASSUME NEW e \in Entries, NEW l \in Labels, Relabel(e, l)
          PROVE  \A x \in config'.listed : config'.id[x] \in Kept
      <3>1. config' = [config EXCEPT !.labels[e] = l] BY <2>4 DEF Relabel, Edit
      <3> QED BY <1>4, <1>6, <3>1 DEF Configs
    <2>5. ASSUME NEW e \in Entries, NEW i \in Ids, BindByHand(e, i)
          PROVE  \A x \in config'.listed : config'.id[x] \in Kept
      <3>1. config' = [config EXCEPT !.id[e] = i] /\ i \in Kept BY <2>5 DEF BindByHand, Edit, Kept
      <3>2. config'.listed = config.listed /\ config'.id = [config.id EXCEPT ![e] = i]
        BY <1>4, <3>1 DEF Configs
      <3> QED BY <1>5, <1>6, <3>1, <3>2
    <2> QED BY <2>1, <2>2, <2>3, <2>4, <2>5 DEF Operator
  <1> QED BY <1>2, <1>3, <1>7 DEF Solo

(* BoundIsHeld: while operators take turns, a bound id is held by GitHub or  *)
(* awaits the end of its recreation, and was never retired.                  *)
THEOREM TurnsKeepBoundSets ==
    ASSUME Constants, Exclusive PROVE Spec => []BoundIsHeld
  <1>1. ASSUME Init PROVE Solo
    <2>1. \A o \in Ops : ~Running(o) BY <1>1 DEF Init, Running, Fresh
    <2>2. \A e \in config.listed : config.id[e] = 0 BY <1>1 DEF Init, Configs
    <2>3. Apart BY <1>1 DEF Init, Apart
    <2> QED BY <2>1, <2>2, <2>3 DEF Solo, Kept
  <1>2. ASSUME IInv, Solo, [Next]_vars PROVE Solo'
    <2>1. CASE UNCHANGED vars
      BY <1>2, <2>1 DEF vars, Solo, Apart, Kept, Running, Carries, Bound
    <2>2. CASE Operator BY <1>2, <2>2, SoloEdits
    <2>3. CASE GitHub
      <3>1. UNCHANGED <<config, cmd, live, recreated, retired>> BY <2>3 DEF GitHub, Drift
      <3> QED BY <1>2, <3>1 DEF Solo, Apart, Kept, Running, Carries, Bound
    <2>4. ASSUME NEW o \in Ops, Step(o) PROVE Solo'
      <3>1. CASE Fail(o) \/ RecreateInspect(o) \/ FindReplacement(o) \/ FindOld(o) \/ ReadStatistics(o)
        BY <1>2, <3>1, SoloReads
      <3>2. CASE \/ \E a, d \in BOOLEAN : Provision(o, a, d)
                 \/ \E n \in Names, e \in Entries : \E ss \in SUBSET Scopes : Recreate(o, ss, n, e)
                 \/ \E e \in Entries, u \in Urls : Retire(o, e, u)
        BY <1>2, <3>2, SoloBegin
      <3>3. CASE Look(o) \/ \E e \in Entries : PlanOne(o, e) \/ ApplyOne(o, e) BY <1>2, <3>3, SoloWork
      <3>4. CASE \E answered \in BOOLEAN, i \in Ids : Create(o, i, answered) BY <1>2, <3>4, SoloCreate
      <3>5. CASE \E answered, kept \in BOOLEAN : Update(o, kept, answered) BY <1>2, <3>5, SoloUpdate
      <3>6. CASE RetireDelete(o) \/ \E answered \in BOOLEAN : RecreateDelete(o, answered)
        BY <1>2, <3>6, SoloDeletes
      <3>7. CASE Write(o) BY <1>2, <3>7, SoloWrite
      <3>8. (\E n \in Names, e \in Entries : \E ss \in {Scopes} \cup {{s} : s \in Scopes} : Recreate(o, ss, n, e))
            => \E n \in Names, e \in Entries : \E ss \in SUBSET Scopes : Recreate(o, ss, n, e)
        BY Zenon DEF Recreate
      <3> QED BY <2>4, <3>1, <3>2, <3>3, <3>4, <3>5, <3>6, <3>7, <3>8 DEF Step
    <2> QED BY <1>2, <2>1, <2>2, <2>3, <2>4 DEF Next
  <1>3. ASSUME Solo PROVE BoundIsHeld BY <1>3 DEF Solo, Apart, Kept, BoundIsHeld
  <1> QED BY <1>1, <1>2, <1>3, IInvHolds, PTL DEF Spec
=============================================================================
