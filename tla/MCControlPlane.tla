--------------------------- MODULE MCControlPlane ---------------------------
(***************************************************************************)
(* A small instance of ControlPlane.  Two names, one before and one the    *)
(* start-up's default; two kinds of samples; a snapshot of one rule set,   *)
(* one of two, one whose second rule set does not compile, and none; too   *)
(* big for the history is the one that does not compile, and one put.      *)
(***************************************************************************)
EXTENDS ControlPlane

CONSTANTS x, y, one, two, bad, empty

App == 1
MCDefault == 2
MCNames == {App, MCDefault}
MCKinds == {x, y}
MCSnapshots == {two, bad, empty}
MCMoreSnapshots == MCSnapshots \cup {one}

Yaml(n, v, m, ok) == [name |-> n, version |-> v, match |-> m, compiles |-> ok]
MCContent ==
  [s \in MCMoreSnapshots |->
     CASE s = one -> <<Yaml(App, 1, {x}, TRUE)>>
       [] s = two -> <<Yaml(App, 2, {y}, TRUE), Yaml(MCDefault, 2, {}, TRUE)>>
       [] s = bad -> <<Yaml(App, 3, {x}, TRUE), Yaml(MCDefault, 3, {}, FALSE)>>
       [] OTHER -> <<>>]

MCSums == [s \in MCMoreSnapshots |-> CASE s = one -> 1 [] s = two -> 2 [] s = bad -> 3 [] OTHER -> 0]

BigPut == RuleSet(MCDefault, 3, {x})
MCPuts == {RuleSet(App, 3, {x, y}), BigPut}
MCTooBig == {bad, BigPut}
SourcesBoth == <<Nacos, File>>
SourcesNacos == <<Nacos>>
=============================================================================
