------------------------------ MODULE MCIngest ------------------------------
(***************************************************************************)
(* A small instance of Ingest: two handlers, a few bodies, two token files *)
(* that give a business different rates, and one that is refused.          *)
(***************************************************************************)
EXTENDS Ingest, TLC


P(v, t) == <<[value |-> v, ts |-> t]>>
TS(k, points) == [series |-> k, points |-> points]

\* Bodies without a sample, one for each business.
EmptyA == <<>>
EmptyB == <<TS(Unnamed, P(0, 0))>>
Empty == {EmptyA, EmptyB}

\* Series 1 repeats its value within the window and after it, on both sides of the epoch;
\* series 2 has a number and a NaN in one interval before it, and pushes series 1 out of
\* the LRU with series 3, whose values are NaN.  Series 4 is in no scope.
MCBatches ==
  { <<TS(1, P(5, -1000)), TS(2, P(0, -3000))>>,
    <<TS(1, P(5, 1000)), TS(3, P(NaN, 2000))>>,
    <<TS(Unnamed, P(5, 2000)), TS(1, P(5, 4000) \o P(7, 4001))>>,
    <<TS(2, P(NaN, -2000)), TS(1, <<>>), TS(4, P(0, 5000))>>,
    EmptyA, EmptyB }
MCSender == [batch \in MCBatches |-> IF batch = EmptyB THEN "b" ELSE "a"]

For(b, r) == [business |-> b, rate |-> r]
MCFirstFile == [t \in {1, 2} |-> IF t = 1 THEN For("a", 2) ELSE For("b", 3)]
MCFiles ==
  { MCFirstFile,
    [t \in {1, 2} |-> For("a", t + 3)],
    [t \in {1} |-> For("a", 0)] }

\* Under a rule set without stages the token file is reloaded while requests without
\* samples come in.  Under one with stages samples come in, all of one business, and the
\* receiver lets each request straight through; when the others are over, the last one
\* sends one of their bodies again.  The two have no variable in common but the request: a
\* limiter only decides whether it goes on.
InReceiver(h) == request[h].at \in {"cache", "read", "store"}

Resends ==
  /\ \A h \in Handlers : request[h] = NoRequest
  /\ \E h \in Handlers : request'[h] # NoRequest /\ request'[h].batch \in accepted \cup refused

OneOfTheTwo ==
  \/ /\ stages = <<>>
     /\ gen' = gen
     /\ \A h \in Handlers : request'[h] # NoRequest => request'[h].batch \in Empty
  \/ /\ stages # <<>>
     /\ hup' = Waiting
     /\ "downsample" \in ToSet(stages) => received' < MaxRequests
     /\ received' # received => request' # request
     /\ received' = MaxRequests => received = MaxRequests \/ Resends
     /\ \A h \in Handlers :
          /\ InReceiver(h) => request'[h] # request[h]
          /\ request'[h] # NoRequest => request'[h].batch \notin Empty

MCStageLists == {<<>>, <<"deadvalue">>, <<"downsample", "deadvalue">>}
MCAggs == <<"sum", "max">>
Symmetry == Permutations(Handlers)

MCSpec == Init /\ [][Next /\ OneOfTheTwo]_vars
=============================================================================
