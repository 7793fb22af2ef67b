------------------------------ MODULE Signals ------------------------------
(***************************************************************************)
(* What the bridge does to the signals of one decoded message before it    *)
(* publishes them: pruneFutureAndDuplicateSignals, then handleCoordinates, *)
(* which replaces separate latitude, longitude and HDOP signals by         *)
(* combined locations (decodestream.go, location.go).  A signal is its     *)
(* name, its timestamp and whether its value is usable, zero or out of     *)
(* range.  The batch is sorted by time and name; slices.SortFunc leaves    *)
(* equal elements in any order, so every sorted order is an input.         *)
(***************************************************************************)
EXTENDS Integers, Sequences, FiniteSets, Functions

CONSTANTS MaxLen,       \* longest batch
          MaxTime,      \* timestamps 0..MaxTime, 0 on a signal that has none
          Now,          \* timestamps beyond it are future
          maxLatLongDur \* how far apart the parts of a location may be

\* The names in the order cmp.Compare gives them.
nameOrder == [currentLocationLatitude |-> 1, currentLocationLongitude |-> 2,
              dimoAftermarketHDOP |-> 3, speed |-> 4]

Lat == "currentLocationLatitude"
Lon == "currentLocationLongitude"
HDOP == "dimoAftermarketHDOP"

Values == {"fix", "zero", "wild"}
\* Only the values of coordinates are looked at.
Signal == {s \in [name: DOMAIN nameOrder, time: 0..MaxTime, value: Values] :
             s.name \in {Lat, Lon} \/ s.value = "fix"}

\* The window in which the parts of a location may lie is not empty.
Configured == MaxTime \in Nat /\ Now \in Int /\ maxLatLongDur \in Nat \ {0}

ASSUME SignalsAssumption == Configured

\* The zero value of time.Time: no time yet, and what a signal without a timestamp has.
zeroTime == 0

VARIABLES
    input,    \* the sorted batch
    stage,    \* choose, prune, merge or done
    signals,  \* the batch as it is rewritten; pruned entries stay until the end
    index,    \* the signal processSignal is at
    last,     \* the triple under construction: indexes, or 0
    lastTime, \* the earliest timestamp a part of it has, or zeroTime
    created   \* locations made so far

signalVars == <<input, stage, signals, index, last, lastTime, created>>

pruneSignal == [name |-> "prune", time |-> 0, value |-> "zero"]
noTriple == [lat |-> 0, lon |-> 0, hdop |-> 0]

SignalsInit ==
    /\ input = <<>>
    /\ stage = "choose"
    /\ signals = <<>>
    /\ index = 1
    /\ last = noTriple
    /\ lastTime = zeroTime
    /\ created = <<>>

Ordered(a, b) ==
    a.time < b.time \/ (a.time = b.time /\ nameOrder[a.name] <= nameOrder[b.name])

\* A decoded signal joins the batch, in sorted position.
Decode(s) ==
    /\ stage = "choose"
    /\ Len(input) < MaxLen
    /\ input # <<>> => Ordered(input[Len(input)], s)
    /\ input' = Append(input, s)
    /\ UNCHANGED <<stage, signals, index, last, lastTime, created>>

signalEqual(a, b) == a.name = b.name /\ a.time = b.time

\* The loop of dropPruned: what is left of the first n signals.
dropPruned(s) ==
    LET kept[n \in 0..Len(s)] ==
            IF n = 0 THEN <<>>
            ELSE IF s[n].name = "prune" THEN kept[n - 1]
            ELSE Append(kept[n - 1], s[n])
    IN kept[Len(s)]

\* Future signals go; of signals with one name and time the last one stays.
pruned(s) ==
    dropPruned([i \in 1..Len(s) |->
        IF s[i].time > Now \/ (i < Len(s) /\ signalEqual(s[i], s[i + 1]))
        THEN pruneSignal ELSE s[i]])

pruneFutureAndDuplicateSignals ==
    /\ stage = "choose"
    /\ input # <<>>
    /\ signals' = pruned(input)
    /\ stage' = "merge"
    /\ UNCHANGED <<input, index, last, lastTime, created>>

\* Finite, in range, and not the null island.
validLatLon(lat, lon) == "wild" \notin {lat, lon} /\ {lat, lon} # {"zero"}

\* The triple t is closed over the batch s: its signals are consumed, and a valid
\* pair becomes a location at time.
consumed(s, t) ==
    [i \in 1..Len(s) |->
        IF i \in {t.lat, t.lon, t.hdop} THEN [s[i] EXCEPT !.name = "prune"] ELSE s[i]]

located(s, t, time) ==
    IF t.lat # 0 /\ t.lon # 0 /\ validLatLon(s[t.lat].value, s[t.lon].value)
    THEN <<[time |-> time, lat |-> s[t.lat], lon |-> s[t.lon],
            hdop |-> IF t.hdop # 0 THEN {s[t.hdop]} ELSE {}]>>
    ELSE <<>>

\* Variant: only a part the triple already has closes it.
forcedByRepeat(sig) ==
    \/ sig.name = Lat /\ last.lat # 0
    \/ sig.name = Lon /\ last.lon # 0
    \/ sig.name = HDOP /\ last.hdop # 0

\* Does the signal at index force tryCreateLocation first: the time gap, or a part
\* the triple already has?
forced(sig) ==
    \/ lastTime # zeroTime /\ sig.time - lastTime >= maxLatLongDur
    \/ sig.name = Lat /\ last.lat # 0
    \/ sig.name = Lon /\ last.lon # 0
    \/ sig.name = HDOP /\ last.hdop # 0

\* processSignal: close the triple if need be, then start or extend one.
processSignal ==
    LET sig == signals[index]
        t == IF forced(sig) THEN noTriple ELSE last
        begun == IF forced(sig) THEN zeroTime ELSE lastTime IN
    /\ stage = "merge"
    /\ index <= Len(signals)
    /\ index' = index + 1
    /\ signals' = IF forced(sig) THEN consumed(signals, last) ELSE signals
    /\ created' = IF forced(sig) THEN created \o located(signals, last, lastTime) ELSE created
    /\ last' = CASE sig.name = Lat -> [t EXCEPT !.lat = index]
                 [] sig.name = Lon -> [t EXCEPT !.lon = index]
                 [] sig.name = HDOP -> [t EXCEPT !.hdop = index]
                 [] OTHER -> t
    /\ lastTime' = IF sig.name \in {Lat, Lon, HDOP} /\ begun = zeroTime THEN sig.time ELSE begun
    /\ UNCHANGED <<input, stage>>

\* The end of processSignals: one last triple, then the pruned entries go.
processSignals ==
    /\ stage = "merge"
    /\ index > Len(signals)
    /\ created' = created \o located(signals, last, lastTime)
    /\ signals' = dropPruned(consumed(signals, last))
    /\ last' = noTriple
    /\ lastTime' = zeroTime
    /\ stage' = "done"
    /\ UNCHANGED <<input, index>>

SignalsNext ==
    \/ \E s \in Signal : Decode(s)
    \/ pruneFutureAndDuplicateSignals \/ processSignal \/ processSignals

SignalsSpec == SignalsInit /\ [][SignalsNext]_signalVars

-----------------------------------------------------------------------------
\* The (name, time) pairs of a batch, present or past.
Seen(s, names) == {<<x.name, x.time>> : x \in {y \in Range(s) : y.name \in names /\ y.time <= Now}}

\* Close enough to be parts of one location: a signal without a timestamp is as
\* close as any (location.go:118).
Near(a, b) ==
    \/ zeroTime \in {a.time, b.time}
    \/ a.time - b.time < maxLatLongDur /\ b.time - a.time < maxLatLongDur

\* Coordinates of the batch that no rule drops: one latitude and one longitude in
\* all, present, valid and near each other, and no HDOP.
Simple(s) ==
    {p \in Range(s) \X Range(s) :
        /\ p[1].name = Lat /\ p[2].name = Lon
        /\ p[1].time <= Now /\ p[2].time <= Now
        /\ validLatLon(p[1].value, p[2].value) /\ Near(p[1], p[2])
        /\ \A i \in 1..Len(s) : s[i].name # "speed" => s[i] \in {p[1], p[2]}
        /\ Cardinality({i \in 1..Len(s) : s[i].name # "speed"}) = 2}

\* What is published for a message (location.go:31-46): every other signal that is
\* not in the future, once per name and time; no bare latitude, longitude or HDOP;
\* locations only from a latitude and a longitude of the batch, valid together,
\* those of their parts that have a timestamp less than maxLatLongDur apart, at the
\* earliest of these (without one if no part has one), no part used twice; and the
\* location of a batch that holds just one good pair.
DecodeMatchesReference ==
    stage = "done" =>
        /\ Seen(signals, DOMAIN nameOrder) = Seen(input, {"speed"})
        /\ Len(signals) = Cardinality(Seen(input, {"speed"}))
        /\ \A k \in 1..Len(created) :
             LET c == created[k]
                 parts == {c.lat, c.lon} \cup c.hdop IN
             /\ parts \subseteq Range(input)
             /\ validLatLon(c.lat.value, c.lon.value)
             /\ \A x, y \in parts : Near(x, y)
             /\ \A x \in parts : /\ x.time <= Now
                                /\ x.time # zeroTime => c.time # zeroTime /\ c.time <= x.time
             /\ \E x \in parts : x.time = c.time
             /\ \A j \in 1..(k - 1) : created[j].lat # c.lat /\ created[j].lon # c.lon
        /\ Simple(input) # {} => Len(created) = 1
=============================================================================
