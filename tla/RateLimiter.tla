---------------------------- MODULE RateLimiter ----------------------------
(***************************************************************************)
(* One shard of the per-remote rate limiter (server/middleware.go): a map  *)
(* of token buckets, bounded in size, in front of the ingest handlers.     *)
(* golang.org/x/time/rate is external: a bucket starts full, Allow takes a *)
(* token if there is one, and tokens come back with time, up to the burst. *)
(* Time is a tick that returns one token to every bucket.                  *)
(***************************************************************************)
EXTENDS Integers, FiniteSets

CONSTANTS Remotes,   \* remote keys that hash to the shard
          Burst,     \* bucket size
          MaxKeys    \* limiterMaxKeys / limiterShards

VARIABLES
    limiters,  \* remote -> tokens, for the remotes the map holds
    ideal,     \* ghost: the tokens of a limiter that never forgets a remote
    renewed    \* ghost: remotes evicted when no bucket of the map was full

\* The bucket size is a number and the shard has room for a bucket.
Configured == Burst \in Nat /\ MaxKeys \in Nat \ {0}

vars == <<limiters, ideal, renewed>>

Init ==
    /\ limiters = <<>>
    /\ ideal = [r \in Remotes |-> Burst]
    /\ renewed = {}

Held == DOMAIN limiters
Spare(n) == IF n > 1 THEN n ELSE 1

\* Variant: a bucket one token short of full counts as idle.
evictEarly(kept) ==
    LET hot == {r \in Held : limiters[r] < Burst - 1} IN
    \/ Cardinality(hot) < MaxKeys /\ kept = hot
    \/ /\ Cardinality(hot) >= MaxKeys
       /\ kept \in SUBSET hot
       /\ Cardinality(kept) = Cardinality(hot) - Spare(MaxKeys \div 10)

\* evictLocked: the full buckets go, which changes nothing for their remotes; if
\* none was full, a tenth of the map (at least one entry) goes anyway.
evictLocked(kept) ==
    LET hot == {r \in Held : limiters[r] < Burst} IN
    \/ Cardinality(hot) < MaxKeys /\ kept = hot
    \/ /\ Cardinality(hot) >= MaxKeys
       /\ kept \in SUBSET hot
       /\ Cardinality(kept) = Cardinality(hot) - Spare(MaxKeys \div 10)

\* Taking a token from a bucket, if there is one.
Take(tokens) == IF tokens >= 1 THEN tokens - 1 ELSE tokens

\* allow: a remote without a bucket gets a full one, after making room for it.
allow(r) ==
    \E kept \in SUBSET Held :
        /\ IF r \notin Held /\ Cardinality(Held) >= MaxKeys THEN evictLocked(kept) ELSE kept = Held
        /\ limiters' = [x \in kept \cup {r} |->
                          IF x # r THEN limiters[x]
                          ELSE Take(IF r \in kept THEN limiters[r] ELSE Burst)]
        /\ ideal' = [ideal EXCEPT ![r] = Take(@)]
        /\ renewed' = IF \A x \in Held : limiters[x] < Burst THEN renewed \cup (Held \ kept)
                      ELSE renewed

Refill(tokens) == IF tokens < Burst THEN tokens + 1 ELSE tokens

Tick ==
    /\ limiters' = [r \in Held |-> Refill(limiters[r])]
    /\ ideal' = [r \in Remotes |-> Refill(ideal[r])]
    /\ UNCHANGED renewed

Next == Tick \/ \E r \in Remotes : allow(r)

Spec == Init /\ [][Next]_vars

Tokens(r) == IF r \in Held THEN limiters[r] ELSE Burst

\* The bound on the map is kept, and it costs no remote anything: a remote never
\* has fewer tokens than a limiter that remembers everyone would give it, and
\* exactly as many unless its bucket was thrown out when none in the map was
\* full (middleware.go:182-186).
EvictionInvisible ==
    /\ Cardinality(Held) <= MaxKeys
    /\ \A r \in Remotes : /\ Tokens(r) >= ideal[r]
                          /\ r \notin renewed => Tokens(r) = ideal[r]
============================================================================
