---------------------------- MODULE RuleManager ----------------------------
(***************************************************************************)
(* ruleengine.Manager and the router in front of its pipelines             *)
(* (internal/ruleengine/manager.go, internal/router/router.go).            *)
(* SetRuleSet swaps the rules of one pipeline and then rebuilds the        *)
(* routing table, both under Manager.mu; a request takes no lock: it loads *)
(* the table once, sorts its samples into one bucket per entry, and each   *)
(* pipeline loads its rules when its bucket's turn comes.                  *)
(*                                                                         *)
(* A rule set is its name, its version and the kinds of samples its match  *)
(* accepts, {} when it has no match.  Names are numbers in the order of    *)
(* the names.  Every request holds one sample of each kind; what the       *)
(* stages do with them is RuleBuffers.                                     *)
(***************************************************************************)
EXTENDS Naturals, Sequences, FiniteSets, SequencesExt, FiniteSetsExt, SortedSets

CONSTANTS
  Names,       \* names of rule sets
  Default,     \* the rule set main.go installs before any configuration
  Kinds,       \* kinds of samples the matches can tell apart
  Requests,    \* requests being processed
  Nobody

ASSUME RulesAssumption ==
  IsFiniteSet(Names) /\ Names \subseteq Nat \ {0} /\ Default \in Names

VARIABLES
  rules,    \* name -> what its pipeline runs, NotInstalled if there is none
  table,    \* Router.entries
  rulesMu,  \* who holds Manager.mu for writing
  request   \* request -> the table it has loaded and how far it is

rulesVars == <<rules, table, rulesMu, request>>

RuleSet(n, v, m) == [name |-> n, version |-> v, match |-> m]
NotInstalled == RuleSet(0, 0, {})

\* rebuildRouterLocked: by name (sort.Slice), and of the rule sets without a match only the last,
\* behind the others.
RouteTable(rs) ==
  LET named == {n \in Names : rs[n] # NotInstalled}
      others == {n \in named : rs[n].match = {}}
      order == Sorted(named \ others) \o (IF others = {} THEN <<>> ELSE <<Max(others)>>)
  IN [i \in DOMAIN order |-> [name |-> order[i], match |-> rs[order[i]].match]]

NoRequest == [entries |-> <<>>, next |-> 0]
Running(q) == request[q].next > 0

RulesInit ==
  /\ rules = [n \in Names |-> IF n = Default THEN RuleSet(n, 1, {}) ELSE NotInstalled]
  /\ table = RouteTable(rules)
  /\ rulesMu = Nobody
  /\ request = [q \in Requests |-> NoRequest]
-----------------------------------------------------------------------------
\* SetRuleSet: the pipeline's rules are swapped; requests see them at once.
SetRules(p, r) ==
  /\ rulesMu = Nobody
  /\ rulesMu' = p
  /\ rules' = [rules EXCEPT ![r.name] = r]
  /\ UNCHANGED <<table, request>>

\* Mutant: the table is built only when a name is new.
RebuildIfNew(p) ==
  /\ rulesMu = p
  /\ rulesMu' = Nobody
  /\ table' = IF \A n \in Names : rules[n] = NotInstalled \/ \E i \in DOMAIN table : table[i].name = n
              THEN table ELSE RouteTable(rules)
  /\ UNCHANGED <<rules, request>>

\* SetRuleSet's second half: the table follows (SetEntries' Validate never refuses
\* what rebuildRouterLocked built), and the lock is released.
Rebuild(p) ==
  /\ rulesMu = p
  /\ rulesMu' = Nobody
  /\ table' = RouteTable(rules)
  /\ UNCHANGED <<rules, request>>
-----------------------------------------------------------------------------
\* The first entry whose match accepts the kind, else the one without a match.
Accepts(entry, k) == k \in entry.match
Owner(entries, k) ==
  LET accepting == {i \in DOMAIN entries : Accepts(entries[i], k)}
      default == {i \in DOMAIN entries : entries[i].match = {}}
  IN Min(IF accepting # {} THEN accepting ELSE default \cup {Len(entries) + 1})
Bucket(entries, i) == {k \in Kinds : Owner(entries, k) = i}

\* Router.Process loads the table; it is fixed for this request.
RequestBegin(q) ==
  /\ ~Running(q)
  /\ request' = [request EXCEPT ![q] = [entries |-> table, next |-> 1]]
  /\ UNCHANGED <<rules, table, rulesMu>>

\* The next bucket goes to its pipeline, which loads its rules now; an empty one is
\* skipped.
RequestBucket(q) ==
  /\ Running(q)
  /\ request[q].next <= Len(request[q].entries)
  /\ request' = [request EXCEPT ![q].next = @ + 1]
  /\ UNCHANGED <<rules, table, rulesMu>>

\* The rules the pipeline of entry i applies now accept all samples of its bucket.
Matched(entries, i) ==
  LET match == rules[entries[i].name].match
  IN match = {} \/ Bucket(entries, i) \subseteq match

\* All buckets are done, or a pipeline has returned an error: the rest is skipped.
RequestEnd(q) ==
  /\ Running(q)
  /\ request' = [request EXCEPT ![q] = NoRequest]
  /\ UNCHANGED <<rules, table, rulesMu>>

RequestNext == \E q \in Requests : RequestBegin(q) \/ RequestBucket(q) \/ RequestEnd(q)
-----------------------------------------------------------------------------
RuleSets(MaxVersion) == [name : Names, version : 1..MaxVersion, match : SUBSET Kinds]
Entry == [name : Names, match : SUBSET Kinds]

RulesTypeOK(MaxVersion, Callers) ==
  /\ rules \in [Names -> RuleSets(MaxVersion) \cup {NotInstalled}]
  /\ table \in Seq(Entry)
  /\ rulesMu \in Callers \cup {Nobody}
  /\ request \in [Requests -> [entries : Seq(Entry), next : Nat]]

\* As long as no installation has changed the table a request loaded, or is about to,
\* every bucket it has left goes to rules that match its samples (manager.go:39: the map
\* and the router are kept consistent).
MatchedUnlessSwapped ==
  \A q \in Requests :
    Running(q) /\ rulesMu = Nobody /\ request[q].entries = table =>
      \A i \in request[q].next..Len(table) : Matched(table, i)
=============================================================================
