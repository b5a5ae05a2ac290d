------------------------------ MODULE Receiver ------------------------------
(***************************************************************************)
(* The receiver's way from a request to the handler                        *)
(* (internal/receiver/server.go, business_rl.go), the token table it asks  *)
(* (internal/config/token.go), and the SIGHUP branch of cmd/prom-gw/main.go *)
(* that replaces both.  A business's limiter is made by the first request  *)
(* that misses it, in three steps that take no lock: look in the cache,    *)
(* read the limits, store.  A reload stores the new limits and then        *)
(* deletes the cached limiters one after the other.                        *)
(*                                                                         *)
(* A token file maps tokens (numbers, in the order of their names) to a    *)
(* business and a rate.  A limiter is its rate: whether it lets a request  *)
(* pass depends on the clock, so Allow accepted either way.                 *)
(***************************************************************************)
EXTENDS Naturals, FiniteSets, FiniteSetsExt

CONSTANTS
  Handlers,     \* requests being handled, one goroutine each
  Businesses,   \* names of businesses
  Files,        \* contents the token file can have, valid or not
  FirstFile,    \* the content at start
  Tokens,       \* tokens clients send
  DefaultRate,  \* defaultRPS
  Batches,      \* bodies clients send
  Sender,       \* body -> its business: series keys hash the business, no two share one
  MaxRequests,  \* bound: requests received
  MaxReloads,   \* bound: SIGHUPs
  Nobody        \* no business: an entry of a file without a name

ASSUME ReceiverAssumption ==
  /\ Tokens \subseteq Nat
  /\ IsFiniteSet(Businesses) /\ Nobody \notin Businesses
  /\ \A file \in Files : \A t \in DOMAIN file :
       t \in Tokens /\ file[t].business \in Businesses \cup {Nobody} /\ file[t].rate \in Nat
  /\ FirstFile \in Files
  /\ DefaultRate \in Nat \ {0}
  /\ Sender \in [Batches -> Businesses]
  /\ {MaxRequests, MaxReloads} \subseteq Nat

VARIABLES
  tokens,    \* LocalTokenAuthenticator.tokens
  limits,    \* rlCfg.configs: business -> rate
  limiters,  \* rlCfg.limiters: business -> the rate of its limiter, NoLimiter if it has none
  hup,       \* the SIGHUP branch: where it is, and what its Range has still to visit
  reloads,   \* limits stored so far
  request,   \* handler -> the request it handles
  received,  \* requests so far
  accepted,  \* history: bodies answered with 200
  raced      \* history: businesses whose limiter comes from limits already replaced

recvVars == <<tokens, limits, limiters, hup, reloads, request, received, accepted, raced>>

NoLimiter == 0

\* Reload's checks: one bad entry refuses the whole file.
Valid(file) ==
  /\ DOMAIN file # {}
  /\ \A t \in DOMAIN file : file[t].business # Nobody /\ file[t].rate > 0

\* BusinessLimits: the rate of the first token of each business.
BusinessLimits(table) ==
  [b \in {table[t].business : t \in DOMAIN table} |->
     table[Min({t \in DOMAIN table : table[t].business = b})].rate]

RateOf(l, b) == IF b \in DOMAIN l THEN l[b] ELSE DefaultRate

Waiting == [at |-> "signal", must |-> {}, may |-> {}]
NoRequest == [at |-> "none"]
At(h, place) == request[h].at = place

ReceiverInit ==
  /\ Valid(FirstFile)
  /\ tokens = FirstFile
  /\ limits = BusinessLimits(FirstFile)
  /\ limiters = [b \in Businesses |-> NoLimiter]
  /\ hup = Waiting
  /\ reloads = 0
  /\ request = [h \in Handlers |-> NoRequest]
  /\ received = 0
  /\ accepted = {}
  /\ raced = {}
-----------------------------------------------------------------------------
\* Every request ends with an answer; after one that is not 200 the client sends the
\* body again, which is one more request with that body.
Answer(h, code) ==
  /\ request' = [request EXCEPT ![h] = NoRequest]
  /\ accepted' = IF code = 200 THEN accepted \cup {request[h].batch} ELSE accepted

\* The middleware up to authMW: the global limiter lets the request pass, and the token
\* table, loaded once, has its token.
Receive(h, t, batch) ==
  /\ At(h, "none")
  /\ received < MaxRequests
  /\ received' = received + 1
  /\ t \in DOMAIN tokens /\ tokens[t].business = Sender[batch]
  /\ request' = [request EXCEPT ![h] =
                   [at |-> "cache", batch |-> batch, business |-> tokens[t].business]]
  /\ UNCHANGED <<tokens, limits, limiters, hup, reloads, accepted, raced>>

\* The global limiter refuses (429), or the token is not in the table (401).
TurnAway ==
  /\ received < MaxRequests
  /\ received' = received + 1
  /\ UNCHANGED <<tokens, limits, limiters, hup, reloads, request, accepted, raced>>

\* businessLimiter looks in the cache ...
LookUp(h) ==
  /\ At(h, "cache")
  /\ request' = [request EXCEPT ![h].at =
                   IF limiters[request[h].business] = NoLimiter THEN "read" ELSE "allow"]
  /\ UNCHANGED <<tokens, limits, limiters, hup, reloads, received, accepted, raced>>

\* ... reads the limits after a miss ...
ReadLimits(h) ==
  /\ At(h, "read")
  /\ request' = [request EXCEPT ![h] =
                   [at |-> "store", batch |-> @.batch, business |-> @.business,
                    rate |-> RateOf(limits, @.business), reload |-> reloads]]
  /\ UNCHANGED <<tokens, limits, limiters, hup, reloads, received, accepted, raced>>

\* ... and stores its limiter unless another request has (LoadOrStore).
StoreLimiter(h) ==
  LET r == request[h] b == request[h].business IN
  /\ At(h, "store")
  /\ limiters' = [limiters EXCEPT ![b] = IF @ = NoLimiter THEN r.rate ELSE @]
  /\ raced' = IF limiters[b] = NoLimiter /\ r.reload # reloads THEN raced \cup {b} ELSE raced
  /\ request' = [request EXCEPT ![h] = [at |-> "allow", batch |-> r.batch, business |-> b]]
  /\ UNCHANGED <<tokens, limits, hup, reloads, received, accepted>>

\* The limiter refuses (429), or handleWrite refuses the method, a header, the body or
\* its encoding (4xx).
Refuse(h) ==
  /\ At(h, "allow")
  /\ \E code \in {429, 400} : Answer(h, code)
  /\ UNCHANGED <<tokens, limits, limiters, hup, reloads, received, raced>>
-----------------------------------------------------------------------------
\* SIGHUP: Reload replaces the table if the file is valid, and keeps it otherwise.
ReloadTokens(file) ==
  /\ hup.at = "signal"
  /\ reloads < MaxReloads
  /\ Valid(file)
  /\ tokens' = file
  /\ hup' = [hup EXCEPT !.at = "push"]
  /\ UNCHANGED <<limits, limiters, reloads, request, received, accepted, raced>>

\* UpdateBusinessLimits stores a copy of the table's limits ...
StoreLimits ==
  /\ hup.at = "push"
  /\ limits' = BusinessLimits(tokens)
  /\ reloads' = reloads + 1
  /\ hup' = [at |-> "clear", may |-> Businesses,
             must |-> {b \in Businesses : limiters[b] # NoLimiter}]
  /\ UNCHANGED <<tokens, limiters, request, received, accepted, raced>>

\* ... and deletes the limiters: Range visits each key that was there when it began
\* once, and one stored meanwhile or not.
DeleteLimiter(b) ==
  /\ hup.at = "clear"
  /\ b \in hup.may
  /\ limiters[b] # NoLimiter
  /\ limiters' = [limiters EXCEPT ![b] = NoLimiter]
  /\ raced' = raced \ {b}
  /\ hup' = [hup EXCEPT !.may = @ \ {b}, !.must = @ \ {b}]
  /\ UNCHANGED <<tokens, limits, reloads, request, received, accepted>>

\* Mutant: the callback of Range returns false, which ends it after one key.
ReloadedAfterOne ==
  /\ hup.at = "clear"
  /\ hup.must = {} \/ hup.may # Businesses
  /\ hup' = Waiting
  /\ UNCHANGED <<tokens, limits, limiters, reloads, request, received, accepted, raced>>

Reloaded ==
  /\ hup.at = "clear"
  /\ hup.must = {}
  /\ hup' = Waiting
  /\ UNCHANGED <<tokens, limits, limiters, reloads, request, received, accepted, raced>>

Sighup ==
  \/ \E file \in Files : ReloadTokens(file)
  \/ StoreLimits
  \/ \E b \in Businesses : DeleteLimiter(b)
  \/ Reloaded

ReceiverStep(h) ==
  \/ \E t \in Tokens, batch \in Batches : Receive(h, t, batch)
  \/ TurnAway
  \/ LookUp(h) \/ ReadLimits(h) \/ StoreLimiter(h) \/ Refuse(h)
-----------------------------------------------------------------------------
Rates == {DefaultRate} \cup UNION {{file[t].rate : t \in DOMAIN file} : file \in Files}

ReceiverTypeOK ==
  /\ tokens \in Files /\ Valid(tokens)
  /\ DOMAIN limits \subseteq Businesses
  /\ \A b \in DOMAIN limits : limits[b] \in Rates \ {NoLimiter}
  /\ limiters \in [Businesses -> Rates \cup {NoLimiter}]
  /\ hup \in [at : {"signal", "push", "clear"}, must : SUBSET Businesses, may : SUBSET Businesses]
  /\ reloads \in 0..MaxReloads /\ (hup.at = "push" => reloads < MaxReloads)
  /\ received \in 0..MaxRequests
  /\ accepted \subseteq Batches
  /\ raced \subseteq Businesses

RequestOK(r) ==
  /\ r.at \in {"cache", "read", "store", "allow"}
  /\ r.batch \in Batches
  /\ r.business \in Businesses
  /\ r.at = "store" => r.rate \in Rates \ {NoLimiter} /\ r.reload \in 0..reloads

\* A reload takes effect (business_rl.go:7, "the cache is cleared, new requests build it
\* again"): outside a reload every cached limiter has the rate now in force for its
\* business.  The one exception is a limiter that a request computed from the limits
\* before a reload and stored after they were replaced, behind the back of the clearing;
\* it stays until the next reload.
LimiterCurrent ==
  hup.at = "signal" =>
    \A b \in Businesses \ raced : limiters[b] \in {NoLimiter, RateOf(limits, b)}
=============================================================================
