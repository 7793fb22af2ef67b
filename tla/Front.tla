------------------------------- MODULE Front -------------------------------
(***************************************************************************)
(* The parts of din in front of the sink, and the bridge beside it.  They  *)
(* share no state, so a behaviour runs one of them: focus says which.      *)
(* Every constant of a part is one of this module (the fault budget is     *)
(* that of Ingest), so that what is proved here holds for all of them.     *)
(* Ingest and Signals are extended, the other parts are instances.         *)
(***************************************************************************)
EXTENDS Ingest, Signals

CONSTANTS
    Remotes, Burst, MaxKeys,                               \* RateLimiter
    Pods, Counts, Subjects, MaxRescales,                   \* WalLayout
    Workers, Names, MaxBatch, MaxDeliver, MaxFetchRetries  \* Bridge

VARIABLES
    limiters, ideal, renewed,
    count, boot, parts, made, streams, backlog, rescales,
    raw, tries, phase, stopping, batch, pos, errs, future, decoded, glitches,
    focus

limiterVars == <<limiters, ideal, renewed>>
layoutVars == <<count, boot, parts, made, streams, backlog, rescales>>
bridgeVars == <<raw, tries, phase, stopping, batch, pos, errs, future, decoded, glitches>>
allVars == <<vars, limiterVars, layoutVars, bridgeVars, signalVars, focus>>

Limiter == INSTANCE RateLimiter
Layout == INSTANCE WalLayout
Decoder == INSTANCE Bridge WITH faults <- glitches

ASSUME LimiterAssumption == Limiter!Configured
ASSUME LayoutAssumption == Layout!Configured

FrontInit ==
    /\ focus \in {"ingest", "limiter", "layout", "bridge", "signals"}
    /\ Init /\ Limiter!Init /\ Layout!Init /\ Decoder!Init /\ SignalsInit

Others(mine) ==
    /\ "ingest" # mine => UNCHANGED vars
    /\ "limiter" # mine => UNCHANGED limiterVars
    /\ "layout" # mine => UNCHANGED layoutVars
    /\ "bridge" # mine => UNCHANGED bridgeVars
    /\ "signals" # mine => UNCHANGED signalVars
    /\ UNCHANGED focus

FrontNext ==
    \/ focus = "ingest" /\ Next /\ Others("ingest")
    \/ focus = "limiter" /\ Limiter!Next /\ Others("limiter")
    \/ focus = "layout" /\ Layout!Next /\ Others("layout")
    \/ focus = "bridge" /\ Decoder!Next /\ Others("bridge")
    \/ focus = "signals" /\ SignalsNext /\ Others("signals")

\* The fairness of Ingest; the other parts promise nothing about what they reach.
FrontFairness ==
    /\ \A a \in Attempts : WF_vars(focus = "ingest" /\ Handler(a))
    /\ \A m \in Pairs : WF_vars(focus = "ingest" /\ m[2] <= N /\ Deliver(m[1], m[2]))
    /\ WF_vars(focus = "ingest" /\ Send) /\ WF_vars(focus = "ingest" /\ Hear)

FrontSpec == FrontInit /\ [][FrontNext]_allVars /\ FrontFairness

-----------------------------------------------------------------------------
\* The device of Ingest is served in the end.
DeviceIsServed == focus = "ingest" => DeviceServed

\* The bounded map of the rate limiter costs no remote a token (RateLimiter).
EvictionInvisible == Limiter!EvictionInvisible

\* No WAL backlog is left in a stream the running pods do not consume (WalLayout).
NothingStranded == Layout!NothingStranded

\* A raw message the bridge acked has all its decoded names published (Bridge).
AckedIsPublished == Decoder!AckedIsPublished
============================================================================
