---------------------------- MODULE ControlPlane ----------------------------
(***************************************************************************)
(* How rule sets get installed: main.go's configuration callback, run by   *)
(* the start-up and by the consumer of each source, and the admin API      *)
(* (internal/admin/service.go), over the configuration manager and the     *)
(* rule manager.  Consumers and admin requests are goroutines of their     *)
(* own; nothing but the three mutexes orders their steps.                  *)
(***************************************************************************)
EXTENDS ConfigManager

CONSTANTS
  Admins,   \* admin requests being served at the same time
  Puts,     \* rule sets an admin may put
  MaxAdmin  \* bound: admin requests

Main == "main"

ASSUME ControlAssumption ==
  /\ MaxAdmin \in Nat
  /\ Admins \cap ({Main} \cup SourceSet) = {}
  /\ Nobody \notin {Main} \cup SourceSet \cup Admins
  /\ Puts \subseteq RuleSets(MaxVersion)

Actors == {Main} \cup SourceSet \cup Admins

VARIABLES
  job,       \* actor -> what it is doing
  admins,    \* admin requests so far
  lastPush,  \* history: source -> the last valid snapshot its consumer has seen
  brought    \* history: name -> its rule set in the last snapshot that compiled and has one

controlVars == <<job, admins, lastPush, brought>>
seen == <<lastPush, brought>>
vars == <<rulesVars, configVars, controlVars>>

\* A job: what it is part of, its next step, its snapshot, the rule sets it has still
\* to save or install, and the name an admin asked for.
NoJob == [op |-> "none", at |-> "idle", snap |-> NoConfig, todo |-> <<>>, name |-> 0]
ApplyJob(op, snap, n) ==
  [op |-> op, at |-> "save", snap |-> snap, todo |-> Content[snap], name |-> n]
At(p, step) == job[p].at = step
Goes(p, j) == job' = [job EXCEPT ![p] = j]
Started == At(Main, "idle")

Compiles(snap) == \A i \in DOMAIN Content[snap] : Content[snap][i].compiles
CompiledOf(snap) == [i \in DOMAIN Content[snap] |-> RuleSetOf(Content[snap][i])]

\* The rule sets rs with those of the sequence over them, the last of a name on top.
Over(rs, todo) ==
  [n \in Names |-> LET its == {i \in DOMAIN todo : todo[i].name = n}
                   IN IF its = {} THEN rs[n] ELSE todo[Max(its)]]
With(rs, snap) == IF Compiles(snap) THEN Over(rs, CompiledOf(snap)) ELSE rs

Init ==
  /\ RulesInit
  /\ ConfigInit
  /\ job = [p \in Actors |-> IF p = Main THEN ApplyJob("push", current, 0) ELSE NoJob]
  /\ admins = 0
  /\ lastPush = [s \in SourceSet |-> Broken]
  /\ brought = With(rules, current)
-----------------------------------------------------------------------------
\* A source's consumer receives a snapshot and, if it is news, starts to apply it.
Consume(s) ==
  /\ At(s, "idle")
  /\ Take(s)
  /\ LET snap == Head(pushed[s]) IN
     /\ current' = IF Changed(snap) THEN snap ELSE current
     /\ job' = IF Changed(snap) THEN [job EXCEPT ![s] = ApplyJob("push", snap, 0)] ELSE job
     /\ lastPush' = IF snap = Broken THEN lastPush ELSE [lastPush EXCEPT ![s] = snap]
     /\ brought' = IF snap = Broken THEN brought ELSE With(brought, snap)
  /\ UNCHANGED <<rulesVars, admins>>

\* Mutant: a rule set that does not compile is skipped, not the snapshot rejected.
SaveNextSkips(p) ==
  /\ At(p, "save")
  /\ job[p].todo # <<>>
  /\ Save(RuleSetOf(Head(job[p].todo)))
  /\ Goes(p, [job[p] EXCEPT !.todo = Tail(@)])
  /\ UNCHANGED <<rulesVars, sourceVars, current, admins, seen>>

\* ApplySnapshot's loop: the next rule set compiles and is saved, or does not compile
\* and ends the job, with the rule sets before it in the history.  That the history
\* refuses what is too big is ignored.
SaveNext(p) ==
  /\ At(p, "save")
  /\ job[p].todo # <<>>
  /\ LET entry == Head(job[p].todo) IN
     \/ /\ entry.compiles
        /\ IF job[p].snap \in TooBig THEN UNCHANGED historyVars ELSE Save(RuleSetOf(entry))
        /\ Goes(p, [job[p] EXCEPT !.todo = Tail(@)])
     \/ /\ ~entry.compiles
        /\ Goes(p, NoJob)
        /\ UNCHANGED historyVars
  /\ UNCHANGED <<rulesVars, sourceVars, current, admins, seen>>

Install(j, todo) == [j EXCEPT !.at = "install", !.todo = todo]

\* ApplySnapshot's end: the snapshot is current, and one of its rule sets is returned
\* (of several, any: the map's order), or an error if it has none.  The callback then
\* installs them all; a reload is content when the name is the one it was asked for,
\* and else falls back to the history.
Applied(p) ==
  LET j == job[p]
      returned == {Content[j.snap][i].name : i \in DOMAIN Content[j.snap]}
  IN
  /\ At(p, "save")
  /\ j.todo = <<>>
  /\ current' = j.snap
  /\ IF j.op = "push"
     THEN Goes(p, IF returned = {} THEN NoJob ELSE Install(j, CompiledOf(j.snap)))
     ELSE \/ j.name \in returned /\ Goes(p, NoJob)
          \/ returned # {j.name} /\ Goes(p, [j EXCEPT !.at = "latest"])
  /\ UNCHANGED <<rulesVars, sourceVars, historyVars, admins, seen>>

\* SetRuleSet, in its two halves.
InstallRules(p) ==
  /\ At(p, "install")
  /\ SetRules(p, Head(job[p].todo))
  /\ Goes(p, [job[p] EXCEPT !.at = "rebuild", !.todo = Tail(@)])
  /\ UNCHANGED <<configVars, admins, seen>>

\* Mutant: the callback installs the first rule set only.
InstallTableOnce(p) ==
  /\ At(p, "rebuild")
  /\ Rebuild(p)
  /\ Goes(p, NoJob)
  /\ UNCHANGED <<configVars, admins, seen>>

InstallTable(p) ==
  /\ At(p, "rebuild")
  /\ Rebuild(p)
  /\ Goes(p, IF job[p].todo = <<>> THEN NoJob ELSE Install(job[p], job[p].todo))
  /\ UNCHANGED <<configVars, admins, seen>>

Apply(p) == SaveNext(p) \/ Applied(p) \/ InstallRules(p) \/ InstallTable(p)
-----------------------------------------------------------------------------
Begin(a, j) ==
  /\ Started
  /\ At(a, "idle")
  /\ admins < MaxAdmin
  /\ admins' = admins + 1
  /\ Goes(a, j)
  /\ UNCHANGED <<rulesVars, configVars, seen>>

\* PutRuleSet checks the version against the latest of the history, then saves and
\* installs; a put that fails the check, does not compile or is too big changes nothing.
Put(a, r) ==
  /\ HasHistory(r.name) => r.version > Latest(r.name).version
  /\ Begin(a, [NoJob EXCEPT !.op = "put", !.at = "put", !.todo = <<r>>])

PutSave(a) ==
  /\ At(a, "put")
  /\ \/ /\ Head(job[a].todo) \notin TooBig
        /\ Save(Head(job[a].todo))
        /\ Goes(a, Install(job[a], job[a].todo))
     \/ /\ Head(job[a].todo) \in TooBig
        /\ Goes(a, NoJob)
        /\ UNCHANGED historyVars
  /\ UNCHANGED <<rulesVars, sourceVars, current, admins, seen>>

\* ReloadRuleSet applies the current snapshot, read before.
Reload(a, n) == Begin(a, ApplyJob("reload", current, n))

\* When another one was returned it takes the latest of the history, if there is one.
ReloadLatest(a) ==
  /\ At(a, "latest")
  /\ Goes(a, IF HasHistory(job[a].name) THEN Install(job[a], <<Latest(job[a].name)>>) ELSE NoJob)
  /\ UNCHANGED <<rulesVars, configVars, admins, seen>>

Rollback(a, n, v) ==
  /\ idx[n][v] # 0
  /\ Begin(a, [Install(NoJob, <<buf[idx[n][v]]>>) EXCEPT !.op = "rollback"])

Admin(a) ==
  \/ \E r \in Puts : Put(a, r)
  \/ \E n \in Names : Reload(a, n)
  \/ \E n \in Names, v \in 1..MaxVersion : Rollback(a, n, v)
  \/ PutSave(a) \/ ReloadLatest(a)
-----------------------------------------------------------------------------
\* The receiver, the watchers, the consumers and the admin server run once the
\* start-up has applied its snapshot.
Handlers == Started /\ RequestNext /\ UNCHANGED <<configVars, controlVars>>
Outside ==
  /\ Changes \/ (Started /\ Watchers)
  /\ UNCHANGED <<rulesVars, current, historyVars, controlVars>>

\* Nothing is on its way any more.
Idle == \A p \in Actors : At(p, "idle")
Quiet ==
  /\ Idle
  /\ \A s \in SourceSet : pushed[s] = <<>>
  /\ ~fileEvent
  /\ warmup = "sent"
  /\ Nacos \in SourceSet => store[Nacos] \in {notified, Broken}

Rest == Quiet /\ UNCHANGED vars

Next ==
  \/ \E p \in Actors : Apply(p)
  \/ \E s \in SourceSet : Started /\ Consume(s)
  \/ \E a \in Admins : Admin(a)
  \/ Handlers
  \/ Outside
  \/ Rest

Spec == Init /\ [][Next]_vars
-----------------------------------------------------------------------------
TypeOK ==
  /\ RulesTypeOK(MaxVersion, Actors)
  /\ ConfigTypeOK
  /\ \A p \in Actors :
       /\ job[p].op \in {"none", "push", "put", "reload", "rollback"}
       /\ job[p].at \in {"idle", "save", "install", "rebuild", "put", "latest"}
       /\ job[p].snap \in Snapshots
  /\ admins \in 0..MaxAdmin
  /\ lastPush \in [SourceSet -> Snapshots \cup {Broken}]

\* A snapshot of which one rule set does not compile replaces nothing, those of its rule
\* sets that do compile included, unless an administrator asks for one of them: only
\* what a whole snapshot brought is installed by itself (source.go:461-464).
RejectedStaysOut ==
  admins = 0 =>
    \A n \in Names : rules[n] \in {NotInstalled, RuleSet(Default, 1, {})} \/
      \E snap \in Snapshots : Compiles(snap) /\ rules[n] \in ToSet(CompiledOf(snap))

\* While only the source of the highest priority pushes and no administrator acts, what
\* runs once everything has come to rest is, name by name, what the last snapshot that
\* compiled and has the name brought, the start-up's included: a snapshot that is
\* rejected ("a failing compilation does not switch", source.go:463), has no rule set or
\* is no news leaves every pipeline as it was, however they follow each other.
OneSourceConverges ==
  /\ Quiet /\ admins = 0
  /\ \A t \in SourceSet \ {Sources[1]} : lastPush[t] = Broken
  => rules = brought

\* Nacos leads: "Nacos pushes a new value, switch to Nacos" (source.go:338).
FollowsNacos ==
  Quiet /\ Nacos \in SourceSet /\ store[Nacos] # Broken /\ Compiles(store[Nacos]) =>
    current = store[Nacos]

=============================================================================
