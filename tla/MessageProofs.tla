--------------------------- MODULE MessageProofs ---------------------------
(***************************************************************************)
(* What becomes of one message, for every value of the constants: the      *)
(* answers of the ingest path to the payload a device sends, and what the  *)
(* bridge publishes of the signals a message decodes to.                   *)
(***************************************************************************)
EXTENDS Ingest, Signals, FiniteSetTheorems, TLAPS
-------------------------------------------------------------------------------
(***************************************************************************)
(* Ingest.  Why its answers are true for every payload, every number of    *)
(* attempts and every number of faults.  The inductive invariant           *)
(* says how far the handler of each attempt has taken each event (Stages), *)
(* what an event's outcome says of the event (Kinds), that nothing is      *)
(* published before its blob is there (Blobbed), and that an ack, and an   *)
(* id in the duplicate window, stand for a message the stream holds        *)
(* (Held).  The answers are computed from these alone.  Copies are counted *)
(* against the lapses of the duplicate window (Counted).                   *)
(***************************************************************************)
\* Where a handler can be, what can become of an event and of its publish, and the
\* status codes.
Places == {"idle", "parse", "split", "submit", "await", "answer", "done", "dead"}
Outs == {"new", "dropped", "invalid", "nosplit", "ready",
         "nomarshal", "toolarge", "unavailable", "flight", "stored"}
Nets == {"unsent", "wire", "acked", "refused", "gone"}
Codes == {0, 200, 400, 413, 500, 503}

\* The types of the ingest path.
TypeOK ==
    /\ payload \in Payloads
    /\ device \in {"ready", "waiting", "accepted", "refused"}
    /\ cur \in 0..(MaxFaults + 1)
    /\ pc \in [Attempts -> Places]
    /\ next \in [Attempts -> Nat]
    /\ \A a \in Attempts : next[a] \in 1..N
    /\ out \in [Pairs -> Outs]
    /\ code \in [Attempts -> Codes]
    /\ net \in [Pairs -> Nets]
    /\ wal \subseteq Pairs
    /\ forgot \in [1..MaxEvents -> Nat]
    /\ faults \in Nat

\* What the three loops of a handler have made of an event they have passed.
Sifted == {"dropped", "invalid", "nosplit", "ready"}
Submitted == {"dropped", "invalid", "nosplit", "nomarshal", "toolarge", "unavailable", "flight"}
Final == {"dropped", "invalid", "nosplit", "nomarshal", "toolarge", "unavailable", "stored"}

\* How far the loops of a handler have taken event i.
Staged(a, i) ==
    /\ pc[a] \in {"idle", "parse"} => next[a] = 1 /\ out[<<a, i>>] = "new"
    /\ pc[a] = "split" => IF i < next[a] THEN out[<<a, i>>] \in Sifted ELSE out[<<a, i>>] = "new"
    /\ pc[a] = "submit" => IF i < next[a] THEN out[<<a, i>>] \in Submitted ELSE out[<<a, i>>] \in Sifted
    /\ pc[a] = "await" => IF i < next[a] THEN out[<<a, i>>] \in Final ELSE out[<<a, i>>] \in Submitted
    /\ pc[a] = "answer" => out[<<a, i>>] \in Final

\* Every handler's loops are where its place says.
Stages ==
    /\ \A a \in Attempts, i \in 1..N : Staged(a, i)
    /\ \A a \in Attempts : pc[a] \in {"split", "submit", "await", "answer"} => Admitted
    /\ \A a \in Attempts : code[a] # 0 => pc[a] = "done"
    /\ \A a \in Attempts : a > cur => pc[a] = "idle"

\* What an outcome says of its event.
Kinds ==
    \A a \in Attempts, i \in 1..N :
        /\ out[<<a, i>>] = "dropped" => Ev(i).kind = "badVIN"
        /\ out[<<a, i>>] = "invalid" => Ev(i).kind = "garbled"
        /\ out[<<a, i>>] = "toolarge" => Ev(i).kind = "huge"
        /\ out[<<a, i>>] = "nomarshal" => Ev(i).kind = "unmarshalable"
        /\ out[<<a, i>>] = "nosplit" => payload.blob

\* What is on its way, or stored, has its blob.
Blobbed ==
    \A a \in Attempts, i \in 1..N :
        /\ out[<<a, i>>] = "ready" /\ payload.blob => <<a, i>> \in blobs
        /\ net[<<a, i>>] # "unsent" /\ payload.blob => <<a, i>> \in blobs

\* Acks, and ids in the duplicate window, stand for stored messages.
Held ==
    \A a \in Attempts, i \in 1..N :
        /\ net[<<a, i>>] = "acked" => Kept(a, i)
        /\ out[<<a, i>>] = "stored" => Kept(a, i)
        /\ MsgID(a, i) \in window => Kept(a, i)

Answers == AnswerIsTrue /\ PermanentIsEarned

\* The inductive invariant of the answers.
Inv == TypeOK /\ Stages /\ Kinds /\ Blobbed /\ Held /\ Answers

-----------------------------------------------------------------------------
(***************************************************************************)
(* The shape of a payload, and what no step changes.                       *)
(***************************************************************************)

\* A payload has at least one event and no more than MaxEvents.
LEMMA Shape ==
    ASSUME payload \in Payloads
    PROVE  /\ N \in Nat /\ 1 <= N /\ N <= MaxEvents
           /\ \A i \in 1..N : Ev(i).kind \in EventKinds /\ Ev(i).own \in BOOLEAN
           /\ payload.blob => \A i \in 1..N : Ev(i).kind # "huge"
           /\ payload.path \in {"connection", "attestation"}
           /\ payload.body \in {"ok", "invalid", "oversize"}
           /\ payload.signer \in {"eoa", "contract", "none", "uncallable"}
           /\ payload.tombstone \in {"no", "good", "bad"}
           /\ payload.blob \in BOOLEAN
<1>1. payload \in Payload /\ Len(payload.events) \in 1..MaxEvents
      /\ (payload.blob => \A i \in 1..Len(payload.events) : payload.events[i].kind # "huge")
    BY PayloadsAssumption, Zenon
<1>2. payload.events \in Seq(Event)
    BY <1>1, Zenon DEF Payload
<1>3. \A i \in 1..Len(payload.events) : payload.events[i] \in Event
    BY <1>2
<1>4. \A i \in 1..N : Ev(i).kind \in EventKinds /\ Ev(i).own \in BOOLEAN
    BY <1>3, Zenon DEF N, Ev, Event
<1>5. N \in Nat /\ 1 <= N /\ N <= MaxEvents
    BY <1>1, EventsAssumption DEF N
<1>6. payload.blob => \A i \in 1..N : Ev(i).kind # "huge"
    BY <1>1, Zenon DEF N, Ev
<1> QED
    BY <1>1, <1>4, <1>5, <1>6, Zenon DEF Payload

\* An attempt and an event of the payload index the tables of outcomes.
LEMMA Index ==
    ASSUME payload \in Payloads, NEW a \in Attempts, NEW i \in 1..N
    PROVE  <<a, i>> \in Pairs
<1>1. N \in Nat /\ N <= MaxEvents
    BY Shape, Zenon
<1>2. i \in 1..MaxEvents
    BY <1>1, EventsAssumption
<1> QED
    BY <1>2, Zenon DEF Pairs

\* The payload stays; the stream and the object store only grow.
LEMMA Growth ==
    ASSUME TypeOK, Next
    PROVE  /\ payload' = payload
           /\ wal \subseteq wal' /\ blobs \subseteq blobs'
<1>1. ASSUME NEW a \in Attempts, Handler(a) PROVE payload' = payload /\ wal' = wal /\ blobs \subseteq blobs'
    BY <1>1, Zenon DEF Handler, Convert, Parse, Split, Submit, Await, Answer, MaybeSplit, PutObject
<1>2. ASSUME NEW a \in Attempts, NEW i \in 1..N, Deliver(a, i) \/ Lose(a, i) \/ Forget(a, i)
      PROVE payload' = payload /\ wal \subseteq wal' /\ blobs' = blobs
    BY <1>2, Zenon DEF Deliver, Lose, Forget
<1>3. Send \/ Hear \/ GiveUp \/ Crash => payload' = payload /\ wal' = wal /\ blobs' = blobs
    BY Zenon DEF Send, Hear, GiveUp, Crash
<1> QED
    BY <1>1, <1>2, <1>3, Zenon DEF Next

\* What is read off the payload stays what it is.
LEMMA SamePayload ==
    ASSUME payload' = payload
    PROVE  /\ N' = N
           /\ Admitted' = Admitted
           /\ \A i : Ev(i)' = Ev(i)
           /\ \A a, i : MsgID(a, i)' = MsgID(a, i)
    BY Zenon DEF N, Admitted, Ev, MsgID

\* What is in the WAL with its blob stays there.
LEMMA KeptStays ==
    ASSUME payload' = payload, wal \subseteq wal', blobs \subseteq blobs',
           NEW a, NEW i, Kept(a, i)
    PROVE  Kept(a, i)'
<1>1. PICK b \in Attempts : <<b, i>> \in wal /\ MsgID(b, i) = MsgID(a, i) /\ (payload.blob => <<b, i>> \in blobs)
    BY Zenon DEF Kept
<1>2. MsgID(b, i)' = MsgID(a, i)'
    BY <1>1, SamePayload, Zenon
<1> QED
    BY <1>1, <1>2, Zenon DEF Kept

-----------------------------------------------------------------------------
(***************************************************************************)
(* Types.                                                                  *)
(***************************************************************************)

\* A round of a handler's loop moves that handler alone.
LEMMA LoopStep ==
    ASSUME TypeOK, payload' = payload, NEW a \in Attempts, NEW s, NEW t \in Places, Loop(a, s, t)
    PROVE  /\ pc' \in [Attempts -> Places]
           /\ next' \in [Attempts -> Nat]
           /\ \A b \in Attempts : next'[b] \in 1..N
           /\ \A b \in Attempts : b # a => pc'[b] = pc[b] /\ next'[b] = next[b]
           /\ pc[a] = s
           /\ \/ next[a] < N /\ next'[a] = next[a] + 1 /\ pc'[a] = s
              \/ next[a] = N /\ next'[a] = 1 /\ pc'[a] = t
<1>1. N \in Nat /\ 1 <= N
    BY Shape, Zenon DEF TypeOK
<1>2. pc[a] = s /\ next[a] \in 1..N /\ next[a] \in Nat
    BY Zenon DEF TypeOK, Loop
<1>3. CASE next[a] < N /\ next' = [next EXCEPT ![a] = @ + 1] /\ UNCHANGED pc
    BY <1>1, <1>2, <1>3 DEF TypeOK
<1>4. CASE next[a] = N /\ next' = [next EXCEPT ![a] = 1] /\ pc' = [pc EXCEPT ![a] = t]
    BY <1>1, <1>2, <1>4 DEF TypeOK
<1> QED
    BY <1>3, <1>4, Zenon DEF Loop

\* Recording the outcome of one event keeps the table well typed.
LEMMA BecomesStep ==
    ASSUME TypeOK, NEW a \in Attempts, NEW i \in 1..N, NEW r \in Outs, Becomes(a, i, r)
    PROVE  /\ out' \in [Pairs -> Outs]
           /\ out'[<<a, i>>] = r
           /\ \A m \in Pairs : m # <<a, i>> => out'[m] = out[m]
<1>1. <<a, i>> \in Pairs
    BY Index, Zenon DEF TypeOK
<1> QED
    BY <1>1, Zenon DEF TypeOK, Becomes

\* A reply is the handler's last step.
LEMMA ReplyStep ==
    ASSUME TypeOK, NEW a \in Attempts, NEW c \in Codes, Reply(a, c)
    PROVE  /\ pc' \in [Attempts -> Places] /\ code' \in [Attempts -> Codes]
           /\ pc'[a] = "done" /\ code'[a] = c
           /\ \A b \in Attempts : b # a => pc'[b] = pc[b] /\ code'[b] = code[b]
    BY Zenon DEF TypeOK, Reply, Places

\* The answers to a payload that is not parsed.
Unparsed(c) ==
    \/ c = 413 /\ payload.body = "oversize"
    \/ c = 400 /\ ~Admitted
    \/ c = 500

\* What parsing does: the payload is admitted, or answered at once.
LEMMA ParseStep ==
    ASSUME TypeOK, NEW a \in Attempts, Convert(a) \/ Parse(a)
    PROVE  /\ pc[a] = "parse"
           /\ UNCHANGED <<payload, device, cur, next, out, net, wal, window, forgot, blobs>>
           /\ faults' \in Nat
           /\ \/ Admitted /\ pc' = [pc EXCEPT ![a] = "split"] /\ code' = code
              \/ \E c \in Codes : Reply(a, c) /\ Unparsed(c)
<1> USE Shape DEF Codes, Unparsed
<1>1. CASE Convert(a)
    <2>1. faults' \in Nat
        BY <1>1, Zenon DEF Convert, NoFault, TypeOK
    <2> QED
        BY <1>1, <2>1 DEF Convert, BodyLost, Admitted
<1>2. CASE Parse(a)
    <2>1. faults' \in Nat
        BY <1>2 DEF Parse, NoFault, Fault, TypeOK
    <2> QED
        BY <1>2, <2>1 DEF Parse, BodyLost, Admitted, TypeOK
<1> QED
    BY <1>1, <1>2, Zenon

\* What splitting does to the event the loop has reached.
LEMMA SplitStep ==
    ASSUME TypeOK, NEW a \in Attempts, Split(a)
    PROVE  /\ Loop(a, "split", "submit")
           /\ UNCHANGED <<payload, device, cur, code, net, wal, window, forgot>>
           /\ faults' \in Nat
           /\ \E r \in Sifted :
                /\ Becomes(a, next[a], r)
                /\ r = "dropped" => Ev(next[a]).kind = "badVIN"
                /\ r = "invalid" => Ev(next[a]).kind = "garbled"
                /\ r = "nosplit" => payload.blob
                /\ r = "ready" /\ payload.blob => <<a, next[a]>> \in blobs'
<1> DEFINE i == next[a]
<1>1. faults' \in Nat
    BY DEF Split, MaybeSplit, PutObject, Fault, NoFault, TypeOK
<1>2. CASE Ev(i).kind = "badVIN" /\ Becomes(a, i, "dropped")
    BY <1>1, <1>2, Zenon DEF Split, Sifted
<1>3. CASE Ev(i).kind = "garbled" /\ Becomes(a, i, "invalid")
    BY <1>1, <1>3, Zenon DEF Split, Sifted
<1>4. CASE MaybeSplit(a, i)
    BY <1>1, <1>4, Zenon DEF Split, MaybeSplit, PutObject, Sifted
<1> QED
    BY <1>2, <1>3, <1>4, Zenon DEF Split

\* submitAsync: an event is refused on the spot or on the wire, the rest is left.
LEMMA SubmitStep ==
    ASSUME TypeOK, NEW a \in Attempts, Submit(a)
    PROVE  /\ Loop(a, "submit", "await")
           /\ UNCHANGED <<payload, device, cur, code, wal, window, forgot, blobs>>
           /\ faults' \in Nat
           /\ net' \in [Pairs -> Nets]
           /\ \/ out[<<a, next[a]>>] # "ready" /\ out' = out /\ net' = net
              \/ /\ out[<<a, next[a]>>] = "ready" /\ net' = net
                 /\ \E r \in {"nomarshal", "toolarge", "unavailable"} :
                       /\ Becomes(a, next[a], r)
                       /\ r = "nomarshal" => Ev(next[a]).kind = "unmarshalable"
                       /\ r = "toolarge" => Ev(next[a]).kind = "huge"
              \/ /\ out[<<a, next[a]>>] = "ready"
                 /\ Becomes(a, next[a], "flight")
                 /\ net'[<<a, next[a]>>] = "wire"
                 /\ \A m \in Pairs : m # <<a, next[a]>> => net'[m] = net[m]
<1> DEFINE i == next[a]
<1>1. faults' \in Nat
    BY DEF Submit, Fault, NoFault, TypeOK
<1>2. <<a, i>> \in Pairs
    BY Index, Zenon DEF TypeOK
<1>3. net' \in [Pairs -> Nets]
    BY Zenon DEF Submit, TypeOK, Nets
<1>4. ASSUME net' = [net EXCEPT ![<<a, i>>] = "wire"]
      PROVE  net'[<<a, i>>] = "wire" /\ \A m \in Pairs : m # <<a, i>> => net'[m] = net[m]
    BY <1>2, <1>4, Zenon DEF TypeOK
<1> QED
    BY <1>1, <1>3, <1>4, Zenon DEF Submit

\* awaitAck: an event in flight is stored only on the stream's ack.
LEMMA AwaitStep ==
    ASSUME TypeOK, NEW a \in Attempts, Await(a)
    PROVE  /\ Loop(a, "await", "answer")
           /\ UNCHANGED <<payload, device, cur, code, net, wal, window, forgot, blobs>>
           /\ faults' \in Nat
           /\ \/ out[<<a, next[a]>>] # "flight" /\ out' = out
              \/ /\ out[<<a, next[a]>>] = "flight"
                 /\ \E r \in {"stored", "unavailable"} :
                       /\ Becomes(a, next[a], r)
                       /\ r = "stored" => net[<<a, next[a]>>] = "acked"
<1>1. faults' \in Nat
    BY DEF Await, AwaitAck, Fault, NoFault, TypeOK
<1> QED
    BY <1>1, Zenon DEF Await, AwaitAck

\* The answers an attempt may give, by the outcomes of its events.
Deserved(a, c) ==
    \/ c = 503
    \/ c = 413 /\ \E i \in 1..N : Outcome(a, i) /\ out[<<a, i>>] = "toolarge"
    \/ c = 500 /\ \E i \in 1..N : Outcome(a, i) /\ out[<<a, i>>] = "nomarshal"
    \/ /\ c \in {200, 400, 500}
       /\ \A i \in 1..N : ~Failed(a, i)
       /\ c \in {200, 400} => ~Has(a, "nosplit")
       /\ c = 200 => ~Has(a, "invalid")
       /\ c = 400 => Has(a, "invalid")

\* The status code, and what the outcomes must be for it.
LEMMA AnswerStep ==
    ASSUME TypeOK, NEW a \in Attempts, Answer(a)
    PROVE  /\ pc[a] = "answer"
           /\ UNCHANGED <<payload, device, cur, next, out, net, wal, window, forgot, blobs>>
           /\ faults' \in Nat
           /\ \E c \in Codes : Reply(a, c) /\ Deserved(a, c)
<1>1. faults' \in Nat
    BY Zenon DEF Answer, NoFault, TypeOK
<1>2. ASSUME \E i \in 1..N : Outcome(a, i) /\ Reply(a, Status(out[<<a, i>>]))
      PROVE  \E c \in Codes : Reply(a, c) /\ Deserved(a, c)
    <2>1. PICK i \in 1..N : Outcome(a, i) /\ Reply(a, Status(out[<<a, i>>]))
        BY <1>2, Zenon
    <2>2. /\ out[<<a, i>>] = "toolarge" => Status(out[<<a, i>>]) = 413
          /\ out[<<a, i>>] = "unavailable" => Status(out[<<a, i>>]) = 503
          /\ out[<<a, i>>] = "nomarshal" => Status(out[<<a, i>>]) = 500
        BY DEF Status
    <2>3. out[<<a, i>>] \in {"toolarge", "unavailable", "nomarshal"}
        BY <2>1, Zenon DEF Outcome, Failed
    <2>4. 413 \in Codes /\ 503 \in Codes /\ 500 \in Codes
        BY DEF Codes
    <2>6. \/ Reply(a, 503)
          \/ Reply(a, 413) /\ \E j \in 1..N : Outcome(a, j) /\ out[<<a, j>>] = "toolarge"
          \/ Reply(a, 500) /\ \E j \in 1..N : Outcome(a, j) /\ out[<<a, j>>] = "nomarshal"
        <3>1. \A c : Status(out[<<a, i>>]) = c => Reply(a, c)
            BY <2>1, Zenon DEF Reply
        <3>2. /\ out[<<a, i>>] = "toolarge" => Reply(a, 413)
              /\ out[<<a, i>>] = "unavailable" => Reply(a, 503)
              /\ out[<<a, i>>] = "nomarshal" => Reply(a, 500)
            BY <2>2, <3>1
        <3>3. i \in 1..N /\ Outcome(a, i)
            BY <2>1, Zenon
        <3> QED
            BY <2>3, <3>2, <3>3
    <2> QED
        BY <2>4, <2>6 DEF Deserved
<1>3. ASSUME \A i \in 1..N : ~Failed(a, i),
             \/ Has(a, "nosplit") /\ Reply(a, 500)
             \/ ~Has(a, "nosplit") /\ Has(a, "invalid") /\ Reply(a, 400)
             \/ ~Has(a, "nosplit") /\ ~Has(a, "invalid") /\ Reply(a, 200)
      PROVE  \E c \in Codes : Reply(a, c) /\ Deserved(a, c)
    BY <1>3 DEF Codes, Deserved
<1> QED
    BY <1>1, <1>2, <1>3, Zenon DEF Answer

\* What the stream and the network do to one publish.
LEMMA NetStep ==
    ASSUME TypeOK, NEW a \in Attempts, NEW i \in 1..N, Deliver(a, i) \/ Lose(a, i)
    PROVE  /\ UNCHANGED <<payload, device, cur, pc, next, out, code, forgot, blobs>>
           /\ faults' \in Nat
           /\ net' \in [Pairs -> Nets]
           /\ net[<<a, i>>] # "unsent"
           /\ \A m \in Pairs : m # <<a, i>> => net'[m] = net[m]
           /\ \/ net'[<<a, i>>] # "acked" /\ wal' = wal /\ window' = window
              \/ MsgID(a, i) \in window /\ wal' = wal /\ window' = window
              \/ /\ MsgID(a, i) \notin window
                 /\ wal' = wal \cup {<<a, i>>} /\ window' = window \cup {MsgID(a, i)}
<1>1. faults' \in Nat
    BY DEF Deliver, Lose, Fault, NoFault, TypeOK
<1>2. <<a, i>> \in Pairs
    BY Index, Zenon DEF TypeOK
<1>3. ASSUME NEW v \in Nets, net' = [net EXCEPT ![<<a, i>>] = v]
      PROVE  /\ net' \in [Pairs -> Nets] /\ net'[<<a, i>>] = v
             /\ \A m \in Pairs : m # <<a, i>> => net'[m] = net[m]
    BY <1>2, <1>3, Zenon DEF TypeOK
<1>4. CASE Deliver(a, i)
    BY <1>1, <1>3, <1>4, Zenon DEF Deliver, Nets
<1>5. CASE Lose(a, i)
    BY <1>1, <1>3, <1>5, Zenon DEF Lose, Nets
<1> QED
    BY <1>4, <1>5, Zenon

\* The device and the death of the process move pc alone, and only forwards.
LEMMA DeviceStep ==
    ASSUME TypeOK, Send \/ Hear \/ GiveUp \/ Crash
    PROVE  /\ UNCHANGED <<payload, next, out, code, net, wal, window, forgot, blobs>>
           /\ device' \in {"ready", "waiting", "accepted", "refused"}
           /\ cur' \in 0..(MaxFaults + 1) /\ cur <= cur'
           /\ faults' \in Nat
           /\ pc' \in [Attempts -> Places]
           /\ \A a \in Attempts : \/ pc'[a] = pc[a]
                                  \/ Running(a) /\ pc'[a] = "dead"
                                  \/ a = cur + 1 /\ cur' = cur + 1 /\ pc'[a] = "parse"
<1> USE FaultsAssumption
<1>1. CASE Send
    <2>1. cur' = cur + 1 /\ cur' \in 0..(MaxFaults + 1)
        BY <1>1 DEF Send, TypeOK
    <2>2. pc' \in [Attempts -> Places] /\ \A a \in Attempts : pc'[a] = pc[a] \/ (a = cur + 1 /\ pc'[a] = "parse")
        BY <1>1, Zenon DEF Send, TypeOK, Places
    <2> QED
        BY <1>1, <2>1, <2>2 DEF Send, TypeOK
<1>2. CASE Hear
    BY <1>2 DEF Hear, TypeOK
<1>3. CASE GiveUp
    BY <1>3 DEF GiveUp, Fault, TypeOK
<1>4. CASE Crash
    <2>1. pc' \in [Attempts -> Places] /\ \A a \in Attempts : pc'[a] = pc[a] \/ (Running(a) /\ pc'[a] = "dead")
        BY <1>4, Zenon DEF Crash, TypeOK, Places
    <2>2. cur' = cur /\ cur <= cur' /\ faults' \in Nat
        BY <1>4 DEF Crash, Fault, TypeOK
    <2> QED
        BY <1>4, <2>1, <2>2, Zenon DEF Crash, TypeOK
<1> QED
    BY <1>1, <1>2, <1>3, <1>4, Zenon

\* Every step keeps the types.
LEMMA TypeStep ==
    ASSUME TypeOK, Next
    PROVE  TypeOK'
<1>1. payload' = payload /\ N' = N
    BY Growth, SamePayload, Zenon
<1>2. ASSUME NEW a \in Attempts, Convert(a) \/ Parse(a)
      PROVE  TypeOK'
    <2>1. pc' \in [Attempts -> Places] /\ code' \in [Attempts -> Codes]
        BY <1>2, ParseStep, ReplyStep, Zenon DEF TypeOK, Places
    <2> QED
        BY <1>1, <1>2, <2>1, ParseStep, Zenon DEF TypeOK
<1>3. ASSUME NEW a \in Attempts, Split(a)
      PROVE  TypeOK'
    <2>1. Loop(a, "split", "submit") /\ "submit" \in Places
        BY <1>3, SplitStep, Zenon DEF Places
    <2>2. out' \in [Pairs -> Outs]
        <3>1. Sifted \subseteq Outs
            BY DEF Sifted, Outs
        <3> QED
            BY <1>3, <3>1, SplitStep, BecomesStep, Zenon DEF TypeOK
    <2>3. /\ pc' \in [Attempts -> Places] /\ next' \in [Attempts -> Nat]
          /\ \A b \in Attempts : next'[b] \in 1..N
        BY <1>1, <2>1, LoopStep, Zenon
    <2> QED
        BY <1>1, <1>3, <2>2, <2>3, SplitStep, Zenon DEF TypeOK
<1>4. ASSUME NEW a \in Attempts, Submit(a)
      PROVE  TypeOK'
    <2>1. Loop(a, "submit", "await") /\ "await" \in Places
        BY <1>4, SubmitStep, Zenon DEF Places
    <2>2. out' = out \/ \E r \in Outs : Becomes(a, next[a], r)
        BY <1>4, SubmitStep, Zenon DEF Outs
    <2>4. out' \in [Pairs -> Outs]
        BY <2>2, BecomesStep, Zenon DEF TypeOK
    <2>3. /\ pc' \in [Attempts -> Places] /\ next' \in [Attempts -> Nat]
          /\ \A b \in Attempts : next'[b] \in 1..N
        BY <1>1, <2>1, LoopStep, Zenon
    <2> QED
        BY <1>1, <1>4, <2>3, <2>4, SubmitStep, Zenon DEF TypeOK
<1>5. ASSUME NEW a \in Attempts, Await(a)
      PROVE  TypeOK'
    <2>1. Loop(a, "await", "answer") /\ "answer" \in Places
        BY <1>5, AwaitStep, Zenon DEF Places
    <2>2. out' \in [Pairs -> Outs]
        BY <1>5, AwaitStep, BecomesStep, Zenon DEF TypeOK, Outs
    <2>3. /\ pc' \in [Attempts -> Places] /\ next' \in [Attempts -> Nat]
          /\ \A b \in Attempts : next'[b] \in 1..N
        BY <1>1, <2>1, LoopStep, Zenon
    <2> QED
        BY <1>1, <1>5, <2>2, <2>3, AwaitStep, Zenon DEF TypeOK
<1>6. ASSUME NEW a \in Attempts, Answer(a)
      PROVE  TypeOK'
    BY <1>1, <1>6, AnswerStep, ReplyStep, Zenon DEF TypeOK
<1>7. ASSUME NEW a \in Attempts, NEW i \in 1..N, Deliver(a, i) \/ Lose(a, i)
      PROVE  TypeOK'
    <2>1. <<a, i>> \in Pairs
        BY Index, Zenon DEF TypeOK
    <2>4. wal' = wal \/ wal' = wal \cup {<<a, i>>}
        BY <1>7, NetStep, Zenon
    <2>2. wal' \subseteq Pairs
        BY <2>1, <2>4, Zenon DEF TypeOK
    <2>3. /\ UNCHANGED <<device, cur, pc, next, out, code, forgot>>
          /\ faults' \in Nat /\ net' \in [Pairs -> Nets]
        BY <1>7, NetStep, Zenon
    <2> QED
        BY <1>1, <2>2, <2>3, Zenon DEF TypeOK
<1>8. ASSUME NEW a \in Attempts, NEW i \in 1..N, Forget(a, i)
      PROVE  TypeOK'
    <2>3. forgot \in [1..MaxEvents -> Nat] /\ forgot' = [forgot EXCEPT ![i] = forgot[i] + 1]
        BY <1>8, Zenon DEF Forget, TypeOK
    <2>4. i \in 1..MaxEvents
        BY Shape, EventsAssumption DEF TypeOK
    <2>1. forgot' \in [1..MaxEvents -> Nat]
        BY <2>3, <2>4
    <2>2. faults' \in Nat /\ UNCHANGED <<device, cur, pc, next, out, code, net, wal>>
        BY <1>8 DEF Forget, Fault, TypeOK
    <2> QED
        BY <1>1, <2>1, <2>2, Zenon DEF TypeOK
<1>9. CASE Send \/ Hear \/ GiveUp \/ Crash
    BY <1>1, <1>9, DeviceStep, Zenon DEF TypeOK
<1> QED
    BY <1>2, <1>3, <1>4, <1>5, <1>6, <1>7, <1>8, <1>9, Zenon DEF Next, Handler

-----------------------------------------------------------------------------
(***************************************************************************)
(* The stages of a handler.                                                *)
(***************************************************************************)

\* A step that moves only the handler of attempt a keeps the others' stages.
LEMMA OthersStaged ==
    ASSUME TypeOK, Stages, payload' = payload, NEW a \in Attempts,
           \A b \in Attempts : b # a => pc'[b] = pc[b] /\ next'[b] = next[b],
           \A m \in Pairs : m[1] # a => out'[m] = out[m],
           \A i \in 1..N : Staged(a, i)'
    PROVE  \A b \in Attempts, i \in (1..N)' : Staged(b, i)'
<1> SUFFICES ASSUME NEW b \in Attempts, NEW i \in 1..N PROVE Staged(b, i)'
    BY SamePayload, Zenon
<1>1. CASE b = a
    BY <1>1, Zenon
<1>2. CASE b # a
    <2>1. <<b, i>> \in Pairs /\ <<b, i>>[1] = b
        BY Index, Zenon DEF TypeOK
    <2>2. out'[<<b, i>>] = out[<<b, i>>] /\ pc'[b] = pc[b] /\ next'[b] = next[b]
        BY <1>2, <2>1, Zenon
    <2>3. Staged(b, i)
        BY Zenon DEF Stages
    <2> QED
        BY <2>2, <2>3, Zenon DEF Staged
<1> QED
    BY <1>1, <1>2, Zenon

\* One round of a loop: the event the loop has reached gets its outcome, the rest
\* keep theirs.
LEMMA RoundOf ==
    ASSUME TypeOK, NEW a \in Attempts, NEW r \in Outs,
           Becomes(a, next[a], r) \/ (out' = out /\ out[<<a, next[a]>>] = r)
    PROVE  /\ out'[<<a, next[a]>>] = r
           /\ \A i \in 1..N : i # next[a] => out'[<<a, i>>] = out[<<a, i>>]
           /\ \A m \in Pairs : m[1] # a => out'[m] = out[m]
           /\ \A m \in Pairs : m # <<a, next[a]>> => out'[m] = out[m]
<1>1. next[a] \in 1..N
    BY Zenon DEF TypeOK
<1>2. out'[<<a, next[a]>>] = r /\ \A m \in Pairs : m # <<a, next[a]>> => out'[m] = out[m]
    BY <1>1, BecomesStep, Zenon
<1>3. \A i \in 1..N : <<a, i>> \in Pairs
    BY Index, Zenon DEF TypeOK
<1>4. \A m \in Pairs : m[1] # a => m # <<a, next[a]>>
    OBVIOUS
<1> QED
    BY <1>2, <1>3, <1>4, Zenon

\* Every step keeps each event at the stage its handler's loop has reached.
LEMMA StagesStep ==
    ASSUME TypeOK, Stages, Next
    PROVE  Stages'
<1>1. payload' = payload /\ N' = N /\ Admitted' = Admitted
    BY Growth, SamePayload, Zenon
<1>2. N \in Nat /\ \A b \in Attempts : next[b] \in 1..N
    BY Shape, Zenon DEF TypeOK
<1>3. Attempts \subseteq Nat /\ cur \in Nat
    BY FaultsAssumption DEF Attempts, TypeOK
<1>4. ASSUME NEW a \in Attempts, Convert(a) \/ Parse(a)
      PROVE  Stages'
    <2>1. pc[a] = "parse" /\ next' = next /\ out' = out /\ cur' = cur
        BY <1>4, ParseStep, Zenon
    <2>2. \A b \in Attempts : b # a => pc'[b] = pc[b] /\ code'[b] = code[b]
        BY <1>4, ParseStep, ReplyStep, Zenon DEF TypeOK
    <2>3. \/ pc'[a] = "split" /\ code'[a] = code[a] /\ Admitted
          \/ pc'[a] = "done"
        BY <1>4, ParseStep, ReplyStep, Zenon DEF TypeOK
    <2>4. \A i \in 1..N : Staged(a, i)'
        BY <1>2, <2>1, <2>3 DEF Stages, Staged
    <2>5. \A b \in Attempts, i \in (1..N)' : Staged(b, i)'
        BY <1>1, <2>1, <2>2, <2>4, OthersStaged, Zenon
    <2> QED
        BY <1>1, <1>3, <2>1, <2>2, <2>3, <2>5, Zenon DEF Stages
<1>5. ASSUME NEW a \in Attempts, Split(a)
      PROVE  Stages'
    <2>1. PICK r \in Sifted : Becomes(a, next[a], r)
        BY <1>5, SplitStep, Zenon
    <2>2. r \in Outs /\ "submit" \in Places
        BY Zenon DEF Sifted, Outs, Places
    <2>3. /\ out'[<<a, next[a]>>] = r
          /\ \A i \in 1..N : i # next[a] => out'[<<a, i>>] = out[<<a, i>>]
          /\ \A m \in Pairs : m[1] # a => out'[m] = out[m]
        BY <2>1, <2>2, RoundOf, Zenon
    <2>4. Loop(a, "split", "submit") /\ code' = code /\ cur' = cur
        BY <1>5, SplitStep, Zenon
    <2>5. /\ \A b \in Attempts : b # a => pc'[b] = pc[b] /\ next'[b] = next[b]
          /\ pc[a] = "split"
          /\ \/ next[a] < N /\ next'[a] = next[a] + 1 /\ pc'[a] = "split"
             \/ next[a] = N /\ next'[a] = 1 /\ pc'[a] = "submit"
        BY <1>1, <2>2, <2>4, LoopStep, Zenon
    <2>6. ASSUME NEW i \in 1..N PROVE Staged(a, i)'
        <3>1. IF i < next[a] THEN out[<<a, i>>] \in Sifted ELSE out[<<a, i>>] = "new"
            BY <2>5, Zenon DEF Stages, Staged
        <3>2. i <= next[a] => out'[<<a, i>>] \in Sifted
            BY <1>2, <2>3, <3>1
        <3>3. i > next[a] => out'[<<a, i>>] = "new"
            BY <1>2, <2>3, <3>1
        <3> QED
            BY <1>2, <2>5, <3>2, <3>3 DEF Staged
    <2>7. \A b \in Attempts, i \in (1..N)' : Staged(b, i)'
        BY <1>1, <2>3, <2>5, <2>6, OthersStaged, Zenon
    <2> QED
        BY <1>1, <1>3, <2>4, <2>5, <2>7, Zenon DEF Stages
<1>6. ASSUME NEW a \in Attempts, Submit(a)
      PROVE  Stages'
    <2>0. Loop(a, "submit", "await") /\ code' = code /\ cur' = cur /\ "await" \in Places
        BY <1>6, SubmitStep, Zenon DEF Places
    <2>1. /\ \A b \in Attempts : b # a => pc'[b] = pc[b] /\ next'[b] = next[b]
          /\ pc[a] = "submit"
          /\ \/ next[a] < N /\ next'[a] = next[a] + 1 /\ pc'[a] = "submit"
             \/ next[a] = N /\ next'[a] = 1 /\ pc'[a] = "await"
        BY <1>1, <2>0, LoopStep, Zenon
    <2>2. out[<<a, next[a]>>] \in Sifted
        BY <1>2, <2>1 DEF Stages, Staged
    <2>3. PICK r \in Submitted : Becomes(a, next[a], r) \/ (out' = out /\ out[<<a, next[a]>>] = r)
        BY <1>6, <2>2, SubmitStep, Zenon DEF Sifted, Submitted
    <2>4. r \in Outs
        BY Zenon DEF Submitted, Outs
    <2>5. /\ out'[<<a, next[a]>>] = r
          /\ \A i \in 1..N : i # next[a] => out'[<<a, i>>] = out[<<a, i>>]
          /\ \A m \in Pairs : m[1] # a => out'[m] = out[m]
        BY <2>3, <2>4, RoundOf, Zenon
    <2>6. ASSUME NEW i \in 1..N PROVE Staged(a, i)'
        <3>1. IF i < next[a] THEN out[<<a, i>>] \in Submitted ELSE out[<<a, i>>] \in Sifted
            BY <2>1, Zenon DEF Stages, Staged
        <3>2. i <= next[a] => out'[<<a, i>>] \in Submitted
            BY <1>2, <2>5, <3>1
        <3>3. i > next[a] => out'[<<a, i>>] \in Sifted
            BY <1>2, <2>5, <3>1
        <3> QED
            BY <1>2, <2>1, <3>2, <3>3 DEF Staged
    <2>7. \A b \in Attempts, i \in (1..N)' : Staged(b, i)'
        BY <1>1, <2>1, <2>5, <2>6, OthersStaged, Zenon
    <2> QED
        BY <1>1, <1>3, <2>0, <2>1, <2>7, Zenon DEF Stages
<1>7. ASSUME NEW a \in Attempts, Await(a)
      PROVE  Stages'
    <2>0. Loop(a, "await", "answer") /\ code' = code /\ cur' = cur /\ "answer" \in Places
        BY <1>7, AwaitStep, Zenon DEF Places
    <2>1. /\ \A b \in Attempts : b # a => pc'[b] = pc[b] /\ next'[b] = next[b]
          /\ pc[a] = "await"
          /\ \/ next[a] < N /\ next'[a] = next[a] + 1 /\ pc'[a] = "await"
             \/ next[a] = N /\ next'[a] = 1 /\ pc'[a] = "answer"
        BY <1>1, <2>0, LoopStep, Zenon
    <2>2. out[<<a, next[a]>>] \in Submitted
        BY <1>2, <2>1 DEF Stages, Staged
    <2>3. PICK r \in Final : Becomes(a, next[a], r) \/ (out' = out /\ out[<<a, next[a]>>] = r)
        BY <1>7, <2>2, AwaitStep, Zenon DEF Submitted, Final
    <2>4. r \in Outs
        BY Zenon DEF Final, Outs
    <2>5. /\ out'[<<a, next[a]>>] = r
          /\ \A i \in 1..N : i # next[a] => out'[<<a, i>>] = out[<<a, i>>]
          /\ \A m \in Pairs : m[1] # a => out'[m] = out[m]
        BY <2>3, <2>4, RoundOf, Zenon
    <2>6. ASSUME NEW i \in 1..N PROVE Staged(a, i)'
        <3>1. IF i < next[a] THEN out[<<a, i>>] \in Final ELSE out[<<a, i>>] \in Submitted
            BY <2>1, Zenon DEF Stages, Staged
        <3>2. i <= next[a] => out'[<<a, i>>] \in Final
            BY <1>2, <2>5, <3>1
        <3>3. i > next[a] => out'[<<a, i>>] \in Submitted
            BY <1>2, <2>5, <3>1
        <3> QED
            BY <1>2, <2>1, <3>2, <3>3 DEF Staged
    <2>7. \A b \in Attempts, i \in (1..N)' : Staged(b, i)'
        BY <1>1, <2>1, <2>5, <2>6, OthersStaged, Zenon
    <2> QED
        BY <1>1, <1>3, <2>0, <2>1, <2>7, Zenon DEF Stages
<1>8. ASSUME NEW a \in Attempts, Answer(a)
      PROVE  Stages'
    <2>1. pc[a] = "answer" /\ next' = next /\ out' = out /\ cur' = cur
        BY <1>8, AnswerStep, Zenon
    <2>2. /\ pc'[a] = "done"
          /\ \A b \in Attempts : b # a => pc'[b] = pc[b] /\ code'[b] = code[b]
        BY <1>8, AnswerStep, ReplyStep, Zenon
    <2>3. \A i \in 1..N : Staged(a, i)'
        BY <2>2, Zenon DEF Staged
    <2>4. \A b \in Attempts, i \in (1..N)' : Staged(b, i)'
        BY <1>1, <2>1, <2>2, <2>3, OthersStaged, Zenon
    <2> QED
        BY <1>1, <1>3, <2>1, <2>2, <2>4, Zenon DEF Stages
<1>9. ASSUME UNCHANGED <<pc, next, out, code, cur>>
      PROVE  Stages'
    BY <1>1, <1>9, Zenon DEF Stages, Staged
<1>10. CASE Send \/ Hear \/ GiveUp \/ Crash
    <2>1. /\ UNCHANGED <<next, out, code>> /\ cur' \in Nat /\ cur <= cur'
          /\ \A a \in Attempts : \/ pc'[a] = pc[a]
                                 \/ Running(a) /\ pc'[a] = "dead"
                                 \/ a = cur + 1 /\ cur' = cur + 1 /\ pc'[a] = "parse"
        BY <1>10, DeviceStep, FaultsAssumption
    <2>2. \A a \in Attempts : a = cur + 1 => pc[a] = "idle"
        BY <1>3 DEF Stages
    <2>3. ASSUME NEW a \in Attempts, NEW i \in 1..N PROVE Staged(a, i)'
        <3>1. Staged(a, i) /\ next'[a] = next[a] /\ out'[<<a, i>>] = out[<<a, i>>]
            BY <2>1, Zenon DEF Stages
        <3>2. pc'[a] = pc[a] \/ pc'[a] = "dead" \/ (pc[a] = "idle" /\ pc'[a] = "parse")
            BY <2>1, <2>2, Zenon
        <3> QED
            BY <3>1, <3>2, Zenon DEF Staged
    <2>4. \A a \in Attempts : pc'[a] \in {"split", "submit", "await", "answer"} => Admitted
        BY <2>1, Zenon DEF Stages
    <2>5. \A a \in Attempts : code[a] # 0 => pc'[a] = "done"
        BY <2>1, <2>2, Zenon DEF Stages, Running
    <2>6. \A a \in Attempts : a > cur' => pc'[a] = "idle"
        BY <1>3, <2>1 DEF Stages, Running
    <2> QED
        BY <1>1, <2>1, <2>3, <2>4, <2>5, <2>6, Zenon DEF Stages
<1>11. ASSUME NEW a \in Attempts, NEW i \in 1..N, Deliver(a, i) \/ Lose(a, i) \/ Forget(a, i)
       PROVE  Stages'
    BY <1>9, <1>11, Zenon DEF Deliver, Lose, Forget
<1> QED
    BY <1>4, <1>5, <1>6, <1>7, <1>8, <1>10, <1>11, Zenon DEF Next, Handler

-----------------------------------------------------------------------------
(***************************************************************************)
(* Outcomes, blobs and the stream.                                         *)
(***************************************************************************)

\* An outcome keeps telling what kind of event it is the outcome of.
LEMMA KindsStep ==
    ASSUME TypeOK, Kinds, Next
    PROVE  Kinds'
<1>1. payload' = payload /\ N' = N /\ \A i : Ev(i)' = Ev(i)
    BY Growth, SamePayload, Zenon
<1>2. CASE out' = out
    BY <1>1, <1>2, Zenon DEF Kinds
<1>3. ASSUME NEW a \in Attempts, NEW r \in Outs, Becomes(a, next[a], r),
             r = "dropped" => Ev(next[a]).kind = "badVIN",
             r = "invalid" => Ev(next[a]).kind = "garbled",
             r = "toolarge" => Ev(next[a]).kind = "huge",
             r = "nomarshal" => Ev(next[a]).kind = "unmarshalable",
             r = "nosplit" => payload.blob
      PROVE  Kinds'
    <2>1. /\ out'[<<a, next[a]>>] = r
          /\ \A m \in Pairs : m # <<a, next[a]>> => out'[m] = out[m]
        BY <1>3, RoundOf, Zenon
    <2> SUFFICES ASSUME NEW b \in Attempts, NEW i \in 1..N
                 PROVE  /\ out'[<<b, i>>] = "dropped" => Ev(i).kind = "badVIN"
                        /\ out'[<<b, i>>] = "invalid" => Ev(i).kind = "garbled"
                        /\ out'[<<b, i>>] = "toolarge" => Ev(i).kind = "huge"
                        /\ out'[<<b, i>>] = "nomarshal" => Ev(i).kind = "unmarshalable"
                        /\ out'[<<b, i>>] = "nosplit" => payload.blob
        BY <1>1, Zenon DEF Kinds
    <2>2. <<b, i>> \in Pairs
        BY Index, Zenon DEF TypeOK
    <2>3. CASE b = a /\ i = next[a]
        BY <1>3, <2>1, <2>3, Zenon
    <2>4. CASE ~(b = a /\ i = next[a])
        BY <2>1, <2>2, <2>4, Zenon DEF Kinds
    <2> QED
        BY <2>3, <2>4, Zenon
<1>4. ASSUME NEW a \in Attempts, Split(a)
      PROVE  Kinds'
    BY <1>3, <1>4, SplitStep, Zenon DEF Sifted, Outs
<1>5. ASSUME NEW a \in Attempts, Submit(a)
      PROVE  Kinds'
    BY <1>2, <1>3, <1>5, SubmitStep, Zenon DEF Outs
<1>6. ASSUME NEW a \in Attempts, Await(a)
      PROVE  Kinds'
    BY <1>2, <1>3, <1>6, AwaitStep, Zenon DEF Outs
<1>7. ASSUME NEW a \in Attempts, Convert(a) \/ Parse(a) \/ Answer(a)
      PROVE  out' = out
    BY <1>7, Zenon DEF Convert, Parse, Answer
<1>8. ASSUME NEW a \in Attempts, NEW i \in 1..N, Deliver(a, i) \/ Lose(a, i) \/ Forget(a, i)
      PROVE  out' = out
    BY <1>8, Zenon DEF Deliver, Lose, Forget
<1>9. Send \/ Hear \/ GiveUp \/ Crash => out' = out
    BY Zenon DEF Send, Hear, GiveUp, Crash
<1> QED
    BY <1>2, <1>4, <1>5, <1>6, <1>7, <1>8, <1>9, Zenon DEF Next, Handler

\* MaybeSplit uploads before PublishBatch publishes.
LEMMA BlobbedStep ==
    ASSUME TypeOK, Blobbed, Next
    PROVE  Blobbed'
<1>1. payload' = payload /\ N' = N /\ blobs \subseteq blobs'
    BY Growth, SamePayload, Zenon
<1>2. ASSUME \A m \in Pairs : /\ out'[m] = "ready" => out[m] = "ready"
                              /\ net'[m] # "unsent" => net[m] # "unsent" \/ out[m] = "ready"
      PROVE  Blobbed'
    <2> SUFFICES ASSUME NEW a \in Attempts, NEW i \in 1..N, payload.blob
                 PROVE  /\ out'[<<a, i>>] = "ready" => <<a, i>> \in blobs'
                        /\ net'[<<a, i>>] # "unsent" => <<a, i>> \in blobs'
        BY <1>1, Zenon DEF Blobbed
    <2>1. <<a, i>> \in Pairs
        BY Index, Zenon DEF TypeOK
    <2> QED
        BY <1>1, <1>2, <2>1, Zenon DEF Blobbed
<1>3. ASSUME NEW a \in Attempts, Split(a)
      PROVE  Blobbed'
    <2>1. net' = net
        BY <1>3, SplitStep, Zenon
    <2>2. PICK r \in Sifted : /\ Becomes(a, next[a], r)
                              /\ r = "ready" /\ payload.blob => <<a, next[a]>> \in blobs'
        BY <1>3, SplitStep, Zenon
    <2>3. /\ out'[<<a, next[a]>>] = r
          /\ \A m \in Pairs : m # <<a, next[a]>> => out'[m] = out[m]
        BY <2>2, RoundOf, Zenon DEF Sifted, Outs
    <2> SUFFICES ASSUME NEW b \in Attempts, NEW i \in 1..N, payload.blob
                 PROVE  /\ out'[<<b, i>>] = "ready" => <<b, i>> \in blobs'
                        /\ net'[<<b, i>>] # "unsent" => <<b, i>> \in blobs'
        BY <1>1, Zenon DEF Blobbed
    <2>4. <<b, i>> \in Pairs
        BY Index, Zenon DEF TypeOK
    <2>5. net[<<b, i>>] # "unsent" => <<b, i>> \in blobs'
        BY <1>1, Zenon DEF Blobbed
    <2>6. CASE b = a /\ i = next[a]
        BY <2>1, <2>2, <2>3, <2>5, <2>6, Zenon
    <2>7. CASE ~(b = a /\ i = next[a])
        BY <1>1, <2>1, <2>3, <2>4, <2>5, <2>7, Zenon DEF Blobbed
    <2> QED
        BY <2>6, <2>7, Zenon
<1>4. ASSUME NEW a \in Attempts, Submit(a)
      PROVE  Blobbed'
    <2>1. \A m \in Pairs : m # <<a, next[a]>> => net'[m] = net[m]
        BY <1>4, SubmitStep, Zenon
    <2>2. net' = net \/ out[<<a, next[a]>>] = "ready"
        BY <1>4, SubmitStep, Zenon
    <2>3. \/ out' = out
          \/ \E r \in {"nomarshal", "toolarge", "unavailable", "flight"} : Becomes(a, next[a], r)
        BY <1>4, SubmitStep, Zenon
    <2>4. \A m \in Pairs : out'[m] = "ready" => out[m] = "ready"
        BY <2>3, RoundOf, Zenon DEF Outs
    <2> QED
        BY <1>2, <2>1, <2>2, <2>4, Zenon
<1>5. ASSUME NEW a \in Attempts, Await(a)
      PROVE  Blobbed'
    <2>1. net' = net /\ (out' = out \/ \E r \in {"stored", "unavailable"} : Becomes(a, next[a], r))
        BY <1>5, AwaitStep, Zenon
    <2>2. \A m \in Pairs : out'[m] = "ready" => out[m] = "ready"
        BY <2>1, RoundOf, Zenon DEF Outs
    <2> QED
        BY <1>2, <2>1, <2>2, Zenon
<1>6. ASSUME NEW a \in Attempts, NEW i \in 1..N, Deliver(a, i) \/ Lose(a, i)
      PROVE  Blobbed'
    BY <1>2, <1>6, NetStep, Zenon
<1>7. ASSUME UNCHANGED <<out, net>>
      PROVE  Blobbed'
    BY <1>2, <1>7, Zenon
<1>8. ASSUME NEW a \in Attempts, Convert(a) \/ Parse(a) \/ Answer(a)
      PROVE  UNCHANGED <<out, net>>
    BY <1>8, Zenon DEF Convert, Parse, Answer
<1>9. ASSUME NEW a \in Attempts, NEW i \in 1..N, Forget(a, i)
      PROVE  UNCHANGED <<out, net>>
    BY <1>9, Zenon DEF Forget
<1>10. Send \/ Hear \/ GiveUp \/ Crash => UNCHANGED <<out, net>>
    BY Zenon DEF Send, Hear, GiveUp, Crash
<1> QED
    BY <1>3, <1>4, <1>5, <1>6, <1>7, <1>8, <1>9, <1>10, Zenon DEF Next, Handler

\* An id names its event.
LEMMA SameEvent ==
    ASSUME NEW a, NEW b, NEW i, NEW j, MsgID(a, i) = MsgID(b, j)
    PROVE  i = j
    BY Zenon DEF MsgID

\* An ack and an id in the duplicate window stand for a stored message.
LEMMA HeldStep ==
    ASSUME TypeOK, Blobbed, Held, Next
    PROVE  Held'
<1>1. /\ payload' = payload /\ N' = N /\ wal \subseteq wal' /\ blobs \subseteq blobs'
      /\ \A a, i : MsgID(a, i)' = MsgID(a, i)
    BY Growth, SamePayload, Zenon
<1>2. \A a \in Attempts, i \in 1..N : Kept(a, i) => Kept(a, i)'
    BY <1>1, KeptStays, Zenon
<1>3. ASSUME \A m \in Pairs : /\ net'[m] = "acked" => net[m] = "acked"
                              /\ out'[m] = "stored" => out[m] = "stored" \/ net[m] = "acked",
             window' \subseteq window
      PROVE  Held'
    <2> SUFFICES ASSUME NEW a \in Attempts, NEW i \in 1..N,
                        net'[<<a, i>>] = "acked" \/ out'[<<a, i>>] = "stored" \/ MsgID(a, i) \in window'
                 PROVE  Kept(a, i)'
        BY <1>1, Zenon DEF Held
    <2>1. <<a, i>> \in Pairs
        BY Index, Zenon DEF TypeOK
    <2>2. Kept(a, i)
        BY <1>3, <2>1, Zenon DEF Held
    <2> QED
        BY <1>2, <2>2, Zenon
<1>4. ASSUME NEW a \in Attempts, Split(a) \/ Submit(a) \/ Await(a)
      PROVE  Held'
    <2>1. window' = window
        BY <1>4, SplitStep, SubmitStep, AwaitStep, Zenon
    <2>2. \A m \in Pairs : net'[m] = "acked" => net[m] = "acked"
        BY <1>4, SplitStep, SubmitStep, AwaitStep, Zenon
    <2>3. \/ out' = out
          \/ \E r \in Outs : /\ Becomes(a, next[a], r)
                             /\ r = "stored" => net[<<a, next[a]>>] = "acked"
        <3>1. CASE Split(a)
            BY <3>1, SplitStep, Zenon DEF Sifted, Outs
        <3>2. CASE Submit(a)
            BY <3>2, SubmitStep, Zenon DEF Outs
        <3>3. CASE Await(a)
            BY <3>3, AwaitStep, Zenon DEF Outs
        <3> QED
            BY <1>4, <3>1, <3>2, <3>3, Zenon
    <2>4. \A m \in Pairs : out'[m] = "stored" => out[m] = "stored" \/ net[m] = "acked"
        BY <2>3, RoundOf
    <2> QED
        BY <1>3, <2>1, <2>2, <2>4, Zenon
<1>5. ASSUME NEW a \in Attempts, NEW i \in 1..N, Deliver(a, i) \/ Lose(a, i)
      PROVE  Held'
    <2>1. <<a, i>> \in Pairs
        BY Index, Zenon DEF TypeOK
    <2>2. CASE net'[<<a, i>>] # "acked" /\ window' = window
        BY <1>3, <1>5, <2>2, NetStep, Zenon
    <2>3. CASE MsgID(a, i) \in window /\ window' = window
        <3>1. Kept(a, i)
            BY <2>3, Zenon DEF Held
        <3> SUFFICES ASSUME NEW b \in Attempts, NEW j \in 1..N,
                            net'[<<b, j>>] = "acked" \/ out'[<<b, j>>] = "stored" \/ MsgID(b, j) \in window'
                     PROVE  Kept(b, j)
            BY <1>1, <1>2, Zenon DEF Held
        <3>2. <<b, j>> \in Pairs /\ (<<b, j>> = <<a, i>> => b = a /\ j = i)
            BY Index, Zenon DEF TypeOK
        <3>3. CASE <<b, j>> = <<a, i>>
            BY <3>1, <3>2, <3>3, Zenon
        <3>4. CASE <<b, j>> # <<a, i>>
            BY <1>5, <2>3, <3>2, <3>4, NetStep, Zenon DEF Held
        <3> QED
            BY <3>3, <3>4, Zenon
    <2>4. CASE wal' = wal \cup {<<a, i>>} /\ window' = window \cup {MsgID(a, i)}
        <3>1. <<a, i>> \in wal' /\ (payload.blob => <<a, i>> \in blobs')
            BY <1>1, <1>5, <2>4, NetStep, Zenon DEF Blobbed
        <3>2. ASSUME NEW b, MsgID(b, i) = MsgID(a, i) PROVE Kept(b, i)'
            BY <1>1, <3>1, <3>2, Zenon DEF Kept
        <3> SUFFICES ASSUME NEW b \in Attempts, NEW j \in 1..N,
                            net'[<<b, j>>] = "acked" \/ out'[<<b, j>>] = "stored" \/ MsgID(b, j) \in window'
                     PROVE  Kept(b, j)'
            BY <1>1, Zenon DEF Held
        <3>3. <<b, j>> \in Pairs /\ (<<b, j>> = <<a, i>> => b = a /\ j = i)
            BY Index, Zenon DEF TypeOK
        <3>4. CASE MsgID(b, j) = MsgID(a, i)
            <4>1. j = i
                BY <3>4, SameEvent, Zenon
            <4> QED
                BY <3>2, <3>4, <4>1, Zenon
        <3>5. CASE MsgID(b, j) # MsgID(a, i)
            <4>1. net[<<b, j>>] = "acked" \/ out[<<b, j>>] = "stored" \/ MsgID(b, j) \in window
                BY <1>5, <2>4, <3>3, <3>5, NetStep, Zenon
            <4>2. Kept(b, j)
                BY <4>1, Zenon DEF Held
            <4> QED
                BY <1>2, <4>2, Zenon
        <3> QED
            BY <3>4, <3>5, Zenon
    <2> QED
        BY <1>5, <2>2, <2>3, <2>4, NetStep, Zenon
<1>6. ASSUME NEW a \in Attempts, Convert(a) \/ Parse(a) \/ Answer(a)
      PROVE  UNCHANGED <<out, net, window>>
    BY <1>6, Zenon DEF Convert, Parse, Answer
<1>7. ASSUME NEW a \in Attempts, NEW i \in 1..N, Forget(a, i)
      PROVE  UNCHANGED <<out, net>> /\ window' \subseteq window
    BY <1>7, Zenon DEF Forget
<1>8. Send \/ Hear \/ GiveUp \/ Crash => UNCHANGED <<out, net, window>>
    BY Zenon DEF Send, Hear, GiveUp, Crash
<1> QED
    BY <1>3, <1>4, <1>5, <1>6, <1>7, <1>8, Zenon DEF Next, Handler

-----------------------------------------------------------------------------
(***************************************************************************)
(* The answers.                                                            *)
(***************************************************************************)

\* The outcomes of an attempt that was answered stand.
LEMMA AnsweredStands ==
    ASSUME TypeOK, Stages, Next, NEW b \in Attempts, pc[b] = "done", NEW i \in 1..N
    PROVE  out'[<<b, i>>] = out[<<b, i>>]
<1>1. <<b, i>> \in Pairs
    BY Index, Zenon DEF TypeOK
<1>2. ASSUME NEW a \in Attempts, Split(a) \/ Submit(a) \/ Await(a)
      PROVE  out'[<<b, i>>] = out[<<b, i>>]
    <2>1. a # b
        BY <1>2, Zenon DEF Split, Submit, Await, Loop
    <2>2. out' = out \/ \E r \in Outs : Becomes(a, next[a], r)
        BY <1>2, SplitStep, SubmitStep, AwaitStep, Zenon DEF Sifted, Outs
    <2>3. <<b, i>> # <<a, next[a]>>
        BY <2>1, Zenon
    <2> QED
        BY <1>1, <2>2, <2>3, RoundOf, Zenon
<1>3. ASSUME NEW a \in Attempts, Convert(a) \/ Parse(a) \/ Answer(a)
      PROVE  out' = out
    BY <1>3, Zenon DEF Convert, Parse, Answer
<1>4. ASSUME NEW a \in Attempts, NEW j \in 1..N, Deliver(a, j) \/ Lose(a, j) \/ Forget(a, j)
      PROVE  out' = out
    BY <1>4, Zenon DEF Deliver, Lose, Forget
<1>5. Send \/ Hear \/ GiveUp \/ Crash => out' = out
    BY Zenon DEF Send, Hear, GiveUp, Crash
<1> QED
    BY <1>2, <1>3, <1>4, <1>5, Zenon DEF Next, Handler

\* What AnswerIsTrue and PermanentIsEarned ask of one attempt.
TrueFor(a) ==
    /\ code[a] = 200 => \A i \in 1..N : Ev(i).kind = "badVIN" \/ Kept(a, i)
    /\ code[a] = 500 => \E k \in 1..(N + 1) :
                          /\ k <= N => Ev(k).kind = "unmarshalable"
                          /\ \A i \in 1..(k - 1) : Withheld(a, i) \/ Kept(a, i)

\* PermanentIsEarned for one attempt.
EarnedBy(a) ==
    /\ code[a] = 400 => \/ ~Admitted
                        \/ /\ \E i \in 1..N : Ev(i).kind = "garbled"
                           /\ \A i \in 1..N : Ev(i).kind = "plain" => Kept(a, i)
    /\ code[a] = 413 => \/ payload.body = "oversize"
                        \/ \E i \in 1..N :
                              /\ Ev(i).kind = "huge"
                              /\ \A j \in 1..(i - 1) : Ev(j).kind = "plain" => Kept(a, j)

\* The two promises, attempt by attempt.
LEMMA AnswersByAttempt ==
    /\ AnswerIsTrue <=> \A a \in Attempts : TrueFor(a)
    /\ PermanentIsEarned <=> \A a \in Attempts : EarnedBy(a)
    BY Zenon DEF AnswerIsTrue, PermanentIsEarned, TrueFor, EarnedBy

\* The two promises after a step, attempt by attempt.
LEMMA AnswersNow ==
    ASSUME \A a \in Attempts : TrueFor(a)' /\ EarnedBy(a)'
    PROVE  Answers'
    BY Zenon DEF Answers, AnswerIsTrue, PermanentIsEarned, TrueFor, EarnedBy

\* An answer stays true as long as the attempt's outcomes, and what is kept, stand.
LEMMA AnswerCarries ==
    ASSUME TypeOK, NEW b \in Attempts, code'[b] = code[b], TrueFor(b), EarnedBy(b),
           payload' = payload, N' = N, Admitted' = Admitted,
           \A i : Ev(i)' = Ev(i), \A i : Kept(b, i) => Kept(b, i)',
           code[b] # 0 => \A i \in 1..N : out'[<<b, i>>] = out[<<b, i>>]
    PROVE  TrueFor(b)' /\ EarnedBy(b)'
<1>1. TrueFor(b)'
    <2>1. code'[b] = 200 => \A i \in 1..N : Ev(i).kind = "badVIN" \/ Kept(b, i)'
        BY Zenon DEF TrueFor
    <2>2. ASSUME code'[b] = 500
          PROVE  \E k \in 1..(N + 1) : /\ k <= N => Ev(k).kind = "unmarshalable"
                                       /\ \A i \in 1..(k - 1) : Withheld(b, i)' \/ Kept(b, i)'
        <3>1. PICK k \in 1..(N + 1) : /\ k <= N => Ev(k).kind = "unmarshalable"
                                      /\ \A i \in 1..(k - 1) : Withheld(b, i) \/ Kept(b, i)
            BY <2>2, Zenon DEF TrueFor
        <3>2. 500 # 0 /\ \A i \in 1..(k - 1) : i \in 1..N
            BY Shape DEF TypeOK
        <3>3. \A i \in 1..(k - 1) : Withheld(b, i) => Withheld(b, i)'
            BY <2>2, <3>2, Zenon DEF Withheld
        <3> QED
            BY <3>1, <3>3, Zenon
    <2> QED
        BY <2>1, <2>2, Zenon DEF TrueFor
<1>2. EarnedBy(b)'
    BY DEF EarnedBy
<1> QED
    BY <1>1, <1>2, Zenon

\* An answer that was true stays true.
LEMMA AnswerStands ==
    ASSUME TypeOK, Stages, Next, NEW b \in Attempts, code'[b] = code[b], TrueFor(b), EarnedBy(b)
    PROVE  TrueFor(b)' /\ EarnedBy(b)'
<1>1. /\ payload' = payload /\ N' = N /\ Admitted' = Admitted
      /\ \A i : Ev(i)' = Ev(i)
      /\ \A i : Kept(b, i) => Kept(b, i)'
    BY Growth, SamePayload, KeptStays, Zenon
<1>2. code[b] # 0 => \A i \in 1..N : out'[<<b, i>>] = out[<<b, i>>]
    BY AnsweredStands, Zenon DEF Stages
<1> QED
    BY <1>1, <1>2, AnswerCarries, Zenon

\* An event the handler has no failure to report of is in the WAL, unless it was
\* left out on purpose.
LEMMA Published ==
    ASSUME TypeOK, Stages, Held, NEW a \in Attempts, pc[a] = "answer", NEW i \in 1..N,
           ~Failed(a, i), out[<<a, i>>] # "nosplit", out[<<a, i>>] # "invalid", out[<<a, i>>] # "dropped"
    PROVE  Kept(a, i)
<1>1. out[<<a, i>>] \in Final
    BY Zenon DEF Stages, Staged
<1>2. out[<<a, i>>] = "stored"
    BY <1>1, Zenon DEF Final, Failed
<1> QED
    BY <1>2, Zenon DEF Held

\* Every answer is true when it is given and stays true.
LEMMA AnswersStep ==
    ASSUME TypeOK, Stages, Kinds, Held, Answers, Next
    PROVE  Answers'
<1>1. /\ payload' = payload /\ N' = N /\ Admitted' = Admitted
      /\ \A i : Ev(i)' = Ev(i)
      /\ \A a, i : Kept(a, i) => Kept(a, i)'
    BY Growth, SamePayload, KeptStays, Zenon
<1>2. \A b \in Attempts : TrueFor(b) /\ EarnedBy(b)
    BY AnswersByAttempt, Zenon DEF Answers
<1>3. ASSUME NEW a \in Attempts, TrueFor(a)', EarnedBy(a)', \A b \in Attempts : b # a => code'[b] = code[b]
      PROVE  Answers'
    <2>1. \A b \in Attempts : TrueFor(b)' /\ EarnedBy(b)'
        BY <1>2, <1>3, AnswerStands, Zenon
    <2> QED
        BY <2>1, AnswersNow, Zenon
<1>4. ASSUME code' = code
      PROVE  Answers'
    <2>1. \A b \in Attempts : TrueFor(b)' /\ EarnedBy(b)'
        BY <1>2, <1>4, AnswerStands, Zenon
    <2> QED
        BY <2>1, AnswersNow, Zenon
<1>5. ASSUME NEW a \in Attempts, Convert(a) \/ Parse(a)
      PROVE  Answers'
    <2>1. CASE code' = code
        BY <1>4, <2>1, Zenon
    <2>2. CASE \E c \in Codes : Reply(a, c) /\ Unparsed(c)
        <3>1. PICK c \in Codes : Reply(a, c) /\ Unparsed(c)
            BY <2>2, Zenon
        <3>2. code'[a] = c /\ \A b \in Attempts : b # a => code'[b] = code[b]
            BY <3>1, ReplyStep
        <3>3. \A i \in 1..N : out'[<<a, i>>] = "new"
            <4>1. pc[a] = "parse" /\ out' = out
                BY <1>5, ParseStep, Zenon
            <4> QED
                BY <4>1, Zenon DEF Stages, Staged
        <3>4. TrueFor(a)'
            <4>1. N + 1 \in 1..(N + 1) /\ ~(N + 1 <= N) /\ (N + 1) - 1 = N /\ c # 200
                BY <3>1, Shape DEF TypeOK, Unparsed
            <4>2. \A i \in 1..N : Withheld(a, i)'
                BY <3>3, Zenon DEF Withheld
            <4>3. \E k \in 1..(N + 1) : /\ k <= N => Ev(k).kind = "unmarshalable"
                                        /\ \A i \in 1..(k - 1) : Withheld(a, i)' \/ Kept(a, i)'
                <5> N + 1 \in 1..(N + 1)
                    BY <4>1
                <5> WITNESS N + 1 \in 1..(N + 1)
                <5> QED
                    BY <4>1, <4>2, Zenon
            <4>4. code'[a] # 200
                BY <3>2, <4>1, Zenon
            <4>5. N' = N /\ \A i : Ev(i)' = Ev(i)
                BY <1>1, Zenon
            <4> QED
                BY <4>3, <4>4, <4>5 DEF TrueFor
        <3>5. EarnedBy(a)'
            BY <1>1, <3>1, <3>2 DEF EarnedBy, Unparsed
        <3> QED
            BY <1>3, <3>2, <3>4, <3>5, Zenon
    <2> QED
        BY <1>5, <2>1, <2>2, ParseStep, Zenon
<1>6. ASSUME NEW a \in Attempts, Answer(a)
      PROVE  Answers'
    <2>1. pc[a] = "answer" /\ out' = out
        BY <1>6, AnswerStep, Zenon
    <2>2. PICK c \in Codes : Reply(a, c) /\ Deserved(a, c)
        BY <1>6, AnswerStep, Zenon
    <2>3. code'[a] = c /\ \A b \in Attempts : b # a => code'[b] = code[b]
        BY <2>2, ReplyStep
    <2>4. \A i \in 1..N : /\ out[<<a, i>>] = "dropped" => Ev(i).kind = "badVIN"
                          /\ out[<<a, i>>] = "invalid" => Ev(i).kind = "garbled"
                          /\ out[<<a, i>>] = "toolarge" => Ev(i).kind = "huge"
                          /\ out[<<a, i>>] = "nomarshal" => Ev(i).kind = "unmarshalable"
                          /\ out[<<a, i>>] = "nosplit" => payload.blob
        BY Zenon DEF Kinds
    <2>5. \A i \in 1..N : \/ Failed(a, i) \/ Kept(a, i)
                          \/ out[<<a, i>>] \in {"nosplit", "invalid", "dropped"}
        BY <2>1, Published, Zenon
    <2>6. TrueFor(a)'
        <3>1. c = 200 => \A i \in 1..N : Ev(i).kind = "badVIN" \/ Kept(a, i)
            BY <2>2, <2>4, <2>5 DEF Has, Deserved
        <3>2. \A i \in 1..N : Failed(a, i) \/ Withheld(a, i) \/ Kept(a, i)
            BY <2>5, Zenon DEF Withheld
        <3>3. ASSUME NEW k \in 1..(N + 1), \A i \in 1..(k - 1) : ~Failed(a, i)
              PROVE  \A i \in 1..(k - 1) : Withheld(a, i)' \/ Kept(a, i)'
            <4>1. \A i \in 1..(k - 1) : i \in 1..N
                BY Shape DEF TypeOK
            <4> QED
                BY <1>1, <2>1, <3>2, <3>3, <4>1, Zenon DEF Withheld
        <3>4. ASSUME c = 500
              PROVE  \E k \in 1..(N + 1) : /\ k <= N => Ev(k).kind = "unmarshalable"
                                           /\ \A i \in 1..(k - 1) : ~Failed(a, i)
            <4>0. 500 # 503 /\ 500 # 413
                OBVIOUS
            <4>1. CASE \E i \in 1..N : Outcome(a, i) /\ out[<<a, i>>] = "nomarshal"
                <5>1. PICK k \in 1..N : Outcome(a, k) /\ out[<<a, k>>] = "nomarshal"
                    BY <4>1, Zenon
                <5>2. k \in 1..(N + 1)
                    BY Shape DEF TypeOK
                <5> QED
                    BY <2>4, <5>1, <5>2, Zenon DEF Outcome
            <4>2. CASE \A i \in 1..N : ~Failed(a, i)
                <5>1. N + 1 \in 1..(N + 1) /\ ~(N + 1 <= N) /\ (N + 1) - 1 = N
                    BY Shape DEF TypeOK
                <5> QED
                    BY <4>2, <5>1, Zenon
            <4> QED
                BY <2>2, <3>4, <4>0, <4>1, <4>2, Zenon DEF Deserved
        <3>5. c = 500 => \E k \in 1..(N + 1) :
                           /\ k <= N => Ev(k).kind = "unmarshalable"
                           /\ \A i \in 1..(k - 1) : Withheld(a, i)' \/ Kept(a, i)'
            <4> SUFFICES ASSUME c = 500
                         PROVE  \E k \in 1..(N + 1) :
                                   /\ k <= N => Ev(k).kind = "unmarshalable"
                                   /\ \A i \in 1..(k - 1) : Withheld(a, i)' \/ Kept(a, i)'
                BY Zenon
            <4>1. PICK k \in 1..(N + 1) : /\ k <= N => Ev(k).kind = "unmarshalable"
                                          /\ \A i \in 1..(k - 1) : ~Failed(a, i)
                BY <3>4
            <4>2. \A i \in 1..(k - 1) : Withheld(a, i)' \/ Kept(a, i)'
                BY <3>3, <4>1
            <4> QED
                BY <4>1, <4>2, Zenon
        <3> QED
            BY <1>1, <2>3, <3>1, <3>5, Zenon DEF TrueFor
    <2>7. c = 400 => /\ \E i \in 1..N : Ev(i).kind = "garbled"
                     /\ \A i \in 1..N : Ev(i).kind = "plain" => Kept(a, i)
        BY <2>2, <2>4, <2>5 DEF Has, Deserved
    <2>8. c = 413 => \E i \in 1..N : /\ Ev(i).kind = "huge"
                                     /\ \A j \in 1..(i - 1) : Ev(j).kind = "plain" => Kept(a, j)
        <3> SUFFICES ASSUME c = 413
                     PROVE  \E i \in 1..N : /\ Ev(i).kind = "huge"
                                            /\ \A j \in 1..(i - 1) : Ev(j).kind = "plain" => Kept(a, j)
            BY Zenon
        <3>0. 413 # 503 /\ 413 # 500 /\ 413 \notin {200, 400, 500}
            OBVIOUS
        <3>1. PICK i \in 1..N : Outcome(a, i) /\ out[<<a, i>>] = "toolarge"
            BY <2>2, <3>0, Zenon DEF Deserved
        <3>2. Ev(i).kind = "huge" /\ ~payload.blob
            BY <2>4, <3>1, Shape, Zenon DEF TypeOK
        <3>3. ASSUME NEW j \in 1..(i - 1), Ev(j).kind = "plain" PROVE Kept(a, j)
            <4>1. j \in 1..N
                BY <3>1, Shape DEF TypeOK
            <4>2. ~Failed(a, j)
                BY <3>1, Zenon DEF Outcome
            <4> QED
                BY <2>4, <2>5, <3>2, <3>3, <4>1, <4>2, Zenon
        <3> QED
            BY <3>1, <3>2, <3>3, Zenon
    <2>9. EarnedBy(a)'
        BY <1>1, <2>3, <2>7, <2>8 DEF EarnedBy
    <2> QED
        BY <1>3, <2>3, <2>6, <2>9, Zenon
<1>7. ASSUME NEW a \in Attempts, Split(a) \/ Submit(a) \/ Await(a)
      PROVE  code' = code
    BY <1>7, Zenon DEF Split, Submit, Await
<1>8. ASSUME NEW a \in Attempts, NEW i \in 1..N, Deliver(a, i) \/ Lose(a, i) \/ Forget(a, i)
      PROVE  code' = code
    BY <1>8, Zenon DEF Deliver, Lose, Forget
<1>9. Send \/ Hear \/ GiveUp \/ Crash => code' = code
    BY Zenon DEF Send, Hear, GiveUp, Crash
<1> QED
    BY <1>4, <1>5, <1>6, <1>7, <1>8, <1>9, Zenon DEF Next, Handler

-----------------------------------------------------------------------------
(***************************************************************************)
(* Copies.  An event's copies are counted against its lapses: an id in the *)
(* duplicate window accounts for one more copy than its lapses do.         *)
(***************************************************************************)

\* Copies of an event are paid for by lapses of the window.
Counted ==
    \A i \in 1..N : Ev(i).own =>
        Cardinality(Copies(i)) <= forgot[i] + (IF <<0, i>> \in window THEN 1 ELSE 0)

\* There are finitely many copies to count.
LEMMA FiniteCopies ==
    ASSUME TypeOK, NEW i
    PROVE  IsFiniteSet(Copies(i)) /\ Cardinality(Copies(i)) \in Nat
<1>1. IsFiniteSet(Attempts) /\ IsFiniteSet(1..MaxEvents)
    BY FaultsAssumption, EventsAssumption, FS_Interval DEF Attempts
<1>2. IsFiniteSet(Pairs)
    BY <1>1, FS_Product, Zenon DEF Pairs
<1>3. Copies(i) \subseteq Pairs
    BY Zenon DEF Copies, TypeOK
<1> QED
    BY <1>2, <1>3, FS_Subset, FS_CardinalityType, Zenon

\* The stream stores a copy only of an id outside the window, and then holds the id.
LEMMA CountedStep ==
    ASSUME TypeOK, Counted, Next
    PROVE  Counted'
<1>1. payload' = payload /\ N' = N /\ (\A i : Ev(i)' = Ev(i)) /\ TypeOK'
    BY Growth, SamePayload, TypeStep, Zenon
<1>2. ASSUME UNCHANGED <<wal, window, forgot>>
      PROVE  Counted'
    BY <1>1, <1>2, Zenon DEF Counted, Copies
<1>3. ASSUME NEW a \in Attempts, NEW i \in 1..N, MsgID(a, i) \notin window,
             wal' = wal \cup {<<a, i>>}, window' = window \cup {MsgID(a, i)}, forgot' = forgot
      PROVE  Counted'
    <2> SUFFICES ASSUME NEW j \in 1..N, Ev(j).own
                 PROVE  Cardinality(Copies(j)') <= forgot[j] + (IF <<0, j>> \in window' THEN 1 ELSE 0)
        BY <1>1, <1>3, Zenon DEF Counted
    <2>1. /\ IsFiniteSet(Copies(j)) /\ Cardinality(Copies(j)) \in Nat /\ forgot[j] \in Nat
          /\ Cardinality(Copies(j)) <= forgot[j] + (IF <<0, j>> \in window THEN 1 ELSE 0)
        <3>1. j \in 1..MaxEvents
            BY Shape, EventsAssumption DEF TypeOK
        <3> QED
            BY <3>1, FiniteCopies, Zenon DEF Counted, TypeOK
    <2>2. CASE j = i
        <3>1. MsgID(a, i) = <<0, j>>
            BY <2>2, Zenon DEF MsgID
        <3>2. Copies(j)' = Copies(j) \cup {<<a, i>>}
            BY <1>3, <2>2 DEF Copies
        <3> DEFINE C == Copies(j) \cup {<<a, i>>}
        <3>3. Cardinality(C) = IF <<a, i>> \in Copies(j) THEN Cardinality(Copies(j))
                                                         ELSE Cardinality(Copies(j)) + 1
            BY <2>1, FS_AddElement, Zenon
        <3>4. Cardinality(C) \in Nat /\ Cardinality(C) <= Cardinality(Copies(j)) + 1
            BY <2>1, <3>3
        <3>5. <<0, j>> \in window' /\ <<0, j>> \notin window
            BY <1>3, <3>1, Zenon
        <3> HIDE DEF C
        <3>6. Cardinality(C) <= forgot[j] + 1
            BY <2>1, <3>4, <3>5
        <3>7. Cardinality(Copies(j)') = Cardinality(C)
            BY <3>2, Zenon DEF C
        <3> QED
            BY <3>5, <3>6, <3>7, Zenon
    <2>3. CASE j # i
        <3>1. Copies(j)' = Copies(j)
            BY <1>3, <2>3 DEF Copies
        <3>2. <<0, j>> \in window' <=> <<0, j>> \in window
            BY <1>3, <2>3, Zenon DEF MsgID
        <3> QED
            BY <2>1, <3>1, <3>2, Zenon
    <2> QED
        BY <2>2, <2>3, Zenon
<1>4. ASSUME NEW a \in Attempts, NEW i \in 1..N, Forget(a, i)
      PROVE  Counted'
    <2> SUFFICES ASSUME NEW j \in 1..N, Ev(j).own
                 PROVE  Cardinality(Copies(j)) <= forgot'[j] + (IF <<0, j>> \in window' THEN 1 ELSE 0)
        BY <1>1, <1>4, Zenon DEF Counted, Copies, Forget
    <2>2. i \in 1..MaxEvents /\ j \in 1..MaxEvents
        BY Shape, EventsAssumption DEF TypeOK
    <2>a. Cardinality(Copies(j)) \in Nat /\ forgot[j] \in Nat
        BY <2>2, FiniteCopies, Zenon DEF TypeOK
    <2>b. Cardinality(Copies(j)) <= forgot[j] + (IF <<0, j>> \in window THEN 1 ELSE 0)
        BY Zenon DEF Counted
    <2>1. /\ Cardinality(Copies(j)) \in Nat /\ forgot[j] \in Nat
          /\ Cardinality(Copies(j)) <= forgot[j] + (IF <<0, j>> \in window THEN 1 ELSE 0)
        BY <2>a, <2>b, Zenon
    <2>3. forgot \in [1..MaxEvents -> Nat] /\ forgot' = [forgot EXCEPT ![i] = forgot[i] + 1]
          /\ window' = window \ {MsgID(a, i)}
        BY <1>4, Zenon DEF Forget, TypeOK
    <2>4. CASE j = i
        BY <2>1, <2>2, <2>3, <2>4
    <2>5. CASE j # i
        <3>1. <<0, j>> \in window' <=> <<0, j>> \in window
            BY <2>3, <2>5, Zenon DEF MsgID
        <3> QED
            BY <2>1, <2>2, <2>3, <2>5, <3>1, Zenon
    <2> QED
        BY <2>4, <2>5, Zenon
<1>5. ASSUME NEW a \in Attempts, NEW i \in 1..N, Deliver(a, i) \/ Lose(a, i)
      PROVE  Counted'
    BY <1>2, <1>3, <1>5, NetStep, Zenon
<1>6. ASSUME NEW a \in Attempts, Handler(a)
      PROVE  UNCHANGED <<wal, window, forgot>>
    BY <1>6, Zenon DEF Handler, Convert, Parse, Split, Submit, Await, Answer
<1>7. Send \/ Hear \/ GiveUp \/ Crash => UNCHANGED <<wal, window, forgot>>
    BY Zenon DEF Send, Hear, GiveUp, Crash
<1> QED
    BY <1>2, <1>4, <1>5, <1>6, <1>7, Zenon DEF Next

-----------------------------------------------------------------------------
\* The invariant holds before the first request.
LEMMA Initially ==
    ASSUME Init
    PROVE  Inv /\ Counted
<1>1. TypeOK
    <2>1. N \in Nat /\ 1 <= N
        BY Shape, Zenon DEF Init
    <2> QED
        BY <2>1, FaultsAssumption DEF Init, TypeOK, Places, Outs, Nets, Codes
<1>2. \A a \in Attempts, i \in 1..N : <<a, i>> \in Pairs
    BY <1>1, Index, Zenon DEF TypeOK
<1>3. \A a \in Attempts, i \in 1..N : out[<<a, i>>] = "new" /\ net[<<a, i>>] = "unsent"
    BY <1>2, Zenon DEF Init
<1>4. \A a \in Attempts : pc[a] = "idle" /\ next[a] = 1 /\ code[a] = 0
    BY Zenon DEF Init
<1>5. Stages /\ Kinds /\ Blobbed
    BY <1>3, <1>4, Zenon DEF Stages, Staged, Kinds, Blobbed
<1>6. Held
    BY <1>3, Zenon DEF Held, Init
<1>7. Answers
    BY <1>4 DEF Answers, AnswerIsTrue, PermanentIsEarned
<1>8. Counted
    <2>1. \A i : Copies(i) = {}
        BY Zenon DEF Copies, Init
    <2>2. \A i \in 1..N : forgot[i] \in Nat
        BY <1>1, Shape, EventsAssumption DEF TypeOK
    <2> QED
        BY <2>1, <2>2, FS_EmptySet DEF Counted
<1> QED
    BY <1>1, <1>5, <1>6, <1>7, <1>8, Zenon DEF Inv

\* Inv and the count of copies are inductive.
THEOREM Invariance == Spec => [](Inv /\ Counted)
<1>1. Init => Inv /\ Counted
    BY Initially, Zenon
<1>2. Inv /\ Counted /\ [Next]_vars => Inv' /\ Counted'
    <2> SUFFICES ASSUME Inv, Counted, [Next]_vars PROVE Inv' /\ Counted'
        BY Zenon
    <2>1. CASE Next
        BY <2>1, TypeStep, StagesStep, KindsStep, BlobbedStep, HeldStep, AnswersStep, CountedStep, Zenon DEF Inv
    <2>2. CASE UNCHANGED vars
        <3>0. /\ N' = N /\ (\A i : Ev(i)' = Ev(i)) /\ Admitted' = Admitted
              /\ \A a, i : MsgID(a, i)' = MsgID(a, i)
            BY <2>2, Zenon DEF vars, N, Ev, Admitted, MsgID
        <3>k. \A a, i : Kept(a, i)' <=> Kept(a, i)
            BY <2>2, <3>0, Zenon DEF vars, Kept
        <3>1. TypeOK'
            BY <2>2, Zenon DEF vars, Inv, TypeOK, N
        <3>2. Stages'
            BY <2>2, <3>0, Zenon DEF vars, Inv, Stages, Staged
        <3>3. Kinds' /\ Blobbed'
            BY <2>2, <3>0, Zenon DEF vars, Inv, Kinds, Blobbed
        <3>4. Held'
            BY <2>2, <3>0, <3>k, Zenon DEF vars, Inv, Held
        <3>6. AnswerIsTrue' /\ PermanentIsEarned'
            <4>1. \A a \in Attempts : TrueFor(a) /\ EarnedBy(a)
                BY AnswersByAttempt, Zenon DEF Inv, Answers
            <4>2. payload' = payload /\ code' = code /\ out' = out
                BY <2>2, Zenon DEF vars
            <4>3. \A a \in Attempts : TrueFor(a)' /\ EarnedBy(a)'
                BY <3>0, <3>k, <4>1, <4>2, AnswerCarries, Zenon DEF Inv
            <4> QED
                BY <4>3, AnswersNow, Zenon DEF Answers
        <3>5. Counted'
            BY <2>2, Zenon DEF vars, Counted, Copies, Ev, N
        <3> QED
            BY <3>1, <3>2, <3>3, <3>4, <3>5, <3>6, Zenon DEF Inv, Answers
    <2> QED
        BY <2>1, <2>2, Zenon
<1> QED
    BY <1>1, <1>2, PTL DEF Spec

\* A device is told 200 only for what is stored (handler.go:108-122), and 500 only
\* with the siblings of the failed split stored, up to the first event that cannot
\* be marshaled (publisher.go:165-167, 201-206), for every payload, however many
\* attempts overlap and whatever is lost.
THEOREM AnswersAreTrue == Spec => []AnswerIsTrue
<1>1. Inv /\ Counted => AnswerIsTrue
    BY Zenon DEF Inv, Answers
<1> QED
    BY <1>1, Invariance, PTL

\* No passing fault ever turns into a final refusal (publisher.go:147-157).
THEOREM RefusalsAreEarned == Spec => []PermanentIsEarned
<1>1. Inv /\ Counted => PermanentIsEarned
    BY Zenon DEF Inv, Answers
<1> QED
    BY <1>1, Invariance, PTL

\* An event with an id of its own is stored at most once per lapse of the
\* duplicate window (subjects.go:78-85), for any number of attempts.
THEOREM StoredOnce == Spec => []StoredOncePerWindow
<1>1. Inv /\ Counted => StoredOncePerWindow
    <2> SUFFICES ASSUME Inv, Counted, NEW i \in 1..N, Ev(i).own
                 PROVE  Cardinality(Copies(i)) <= 1 + forgot[i]
        BY Zenon DEF StoredOncePerWindow
    <2>1. Cardinality(Copies(i)) \in Nat /\ forgot[i] \in Nat
        BY FiniteCopies, Shape, EventsAssumption DEF Inv, TypeOK
    <2>2. Cardinality(Copies(i)) <= forgot[i] + (IF <<0, i>> \in window THEN 1 ELSE 0)
        BY Zenon DEF Counted
    <2> QED
        BY <2>1, <2>2
<1> QED
    BY <1>1, Invariance, PTL
-------------------------------------------------------------------------------
(***************************************************************************)
(* Signals.  Pruning leaves a sorted batch with one signal for each name   *)
(* and time (Cleaned).  The loop takes out of it only coordinates that it  *)
(* has passed (Scanned), all of them but the parts of the triple under     *)
(* construction (OthersHeld), which lie in one window (TripleHeld); a      *)
(* location is made of what is taken out, so no part is used twice         *)
(* (Locations), and a lone good pair is never torn (PairKept).             *)
(***************************************************************************)
\* The signals a location is made of.
Coords == {Lat, Lon, HDOP}

\* Anything the batch may hold, pruned or not.
Entry == [name : DOMAIN nameOrder \cup {"prune"}, time : Nat, value : Values]
Location == [time : Nat, lat : Signal, lon : Signal, hdop : SUBSET Signal]

\* The batch is sorted.
InputSorted ==
    /\ input \in Seq(Signal)
    /\ \A i, j \in 1..Len(input) : i < j => Ordered(input[i], input[j])

\* What the pruning of the batch leaves: signals of it that are not in the future,
\* sorted, one for each name and time.
Cleaned(b) ==
    /\ b \in Seq(Signal)
    /\ \A i \in 1..Len(b) : b[i] \in Range(input) /\ b[i].time <= Now
    /\ \A i, j \in 1..Len(b) : i < j => Ordered(b[i], b[j]) /\ ~signalEqual(b[i], b[j])
    /\ \A x \in Range(input) : x.time <= Now => \E k \in 1..Len(b) : signalEqual(b[k], x)

\* The batch s is b without some of the coordinates before index.
Scanned(b, s) ==
    /\ s \in Seq(Entry) /\ Len(s) = Len(b) /\ index \in 1..(Len(b) + 1)
    /\ \A i \in 1..Len(b) :
          \/ s[i] = b[i]
          \/ i < index /\ b[i].name \in Coords /\ s[i].name = "prune"

\* The triple has the coordinates before index that are still in the batch.
OthersHeld(b, s) ==
    \A i \in 1..Len(b) : i < index /\ b[i].name \in Coords =>
        s[i].name = "prune" \/ i \in {last.lat, last.lon, last.hdop}

\* A timestamp within the window that begins at the time begin, or none.
Within(begin, time) ==
    \/ time = zeroTime
    \/ begin # zeroTime /\ begin <= time /\ time - begin < maxLatLongDur

\* A part of the triple: a signal of its name, within the window that lastTime opens.
Part(b, i, name) ==
    i # 0 => /\ i < index /\ b[i].name = name /\ signals[i] = b[i]
             /\ Within(lastTime, b[i].time)

TripleHeld(b) ==
    /\ last \in [lat : 0..Len(b), lon : 0..Len(b), hdop : 0..Len(b)]
    /\ lastTime \in Nat
    /\ Part(b, last.lat, Lat) /\ Part(b, last.lon, Lon) /\ Part(b, last.hdop, HDOP)
    /\ lastTime # zeroTime =>
          \E i \in {last.lat, last.lon, last.hdop} : i # 0 /\ b[i].time = lastTime

\* What a location is made of.
Parts(c) == {c.lat, c.lon} \cup c.hdop

Sound(b, c) ==
    /\ Parts(c) \subseteq Range(b)
    /\ validLatLon(c.lat.value, c.lon.value)
    /\ \A x \in Parts(c) : Within(c.time, x.time)
    /\ \E x \in Parts(c) : x.time = c.time

\* Nothing is in two locations: what is in one is out of the batch.
Used(b, s, x) == \E i \in 1..Len(b) : b[i] = x /\ s[i].name = "prune"

Locations(b, s, made) ==
    /\ made \in Seq(Location)
    /\ \A k \in 1..Len(made) :
          /\ Sound(b, made[k]) /\ Used(b, s, made[k].lat) /\ Used(b, s, made[k].lon)
          /\ \A j \in 1..(k - 1) : made[j].lat # made[k].lat /\ made[j].lon # made[k].lon

\* The batch b holds one latitude and one longitude, a good pair, and no HDOP.
OnePair(b, i, j) ==
    /\ b[i].name = Lat /\ b[j].name = Lon
    /\ validLatLon(b[i].value, b[j].value) /\ Near(b[i], b[j])
    /\ \A k \in 1..Len(b) : b[k].name \in Coords => k \in {i, j}

\* Then the pair is still to be joined, or was.
PairKept(b) ==
    \A i, j \in 1..Len(b) : OnePair(b, i, j) =>
        \/ created = <<>> /\ (i < index => last.lat = i) /\ (j < index => last.lon = j)
        \/ Len(created) = 1 /\ last = noTriple /\ i < index /\ j < index

Merging(b) ==
    /\ Cleaned(b) /\ Scanned(b, signals) /\ OthersHeld(b, signals)
    /\ TripleHeld(b) /\ Locations(b, signals, created) /\ PairKept(b)

\* The inductive invariant of the merge.
SignalsInv ==
    /\ InputSorted
    /\ stage \in {"choose", "merge", "done"}
    /\ stage = "choose" => /\ signals = <<>> /\ index = 1 /\ last = noTriple
                           /\ lastTime = zeroTime /\ created = <<>>
    /\ stage = "merge" => Merging(pruned(input))
    /\ DecodeMatchesReference

\* A non-empty set of naturals has a least element.
LEMMA LeastExists ==
    ASSUME NEW S \in SUBSET Nat, S # {}
    PROVE  \E x \in S : \A y \in S : x <= y
<1> DEFINE R == {p \in Nat \X Nat : p[1] < p[2]}
<1>1. IsWellFoundedOn(R, Nat)
  <2>1. R = OpToRel(<, Nat)
    BY Zenon DEF OpToRel
  <2> QED
    BY <2>1, NatLessThanWellFounded, Zenon
<1>2. PICK x \in S : \A y \in S : ~(<<y, x>> \in R)
  BY <1>1, WFMin, Zenon
<1>3. ASSUME NEW y \in S PROVE x <= y
  <2>1. <<y, x>> \in Nat \X Nat /\ <<y, x>>[1] = y /\ <<y, x>>[2] = x
    BY Zenon
  <2>2. ~(y < x)
    BY <1>2, <2>1, Zenon
  <2> QED
    BY <2>2
<1> QED
  BY <1>3, Zenon

\* The loop of dropPruned, as a function of the signals it has seen: the recursion
\* f must satisfy on 0..m.
Drops(s, f, m) ==
    f = [n \in 0..m |-> IF n = 0 THEN <<>>
                        ELSE IF s[n].name = "prune" THEN f[n - 1]
                        ELSE Append(f[n - 1], s[n])]

\* The first n signals of s without the pruned ones are d, and g says where each
\* of d was.
Picks(s, n, d, g) ==
    /\ g \in [1..Len(d) -> 1..n]
    /\ \A j, k \in 1..Len(d) : j < k => g[j] < g[k]
    /\ \A k \in 1..Len(d) : d[k] = s[g[k]] /\ s[g[k]].name # "prune"
    /\ \A i \in 1..n : s[i].name # "prune" => \E k \in 1..Len(d) : g[k] = i

\* The loop ends, whatever the batch.
LEMMA DropsExist == ASSUME NEW s, NEW len \in Nat PROVE \E f : Drops(s, f, len)
<1> DEFINE Bad == {m \in 0..len : ~\E f : Drops(s, f, m)}
<1> SUFFICES Bad = {}
  BY SMT
<1> SUFFICES ASSUME Bad # {} PROVE FALSE
  BY Zenon
<1>1. PICK m \in Bad : \A y \in Bad : m <= y
  <2>1. Bad \in SUBSET Nat
    BY SMT
  <2> HIDE DEF Bad
  <2> QED
    BY <2>1, LeastExists, Zenon
<1>2. m # 0
  <2>1. Drops(s, [n \in 0..0 |-> <<>>], 0)
    BY DEF Drops
  <2> QED
    BY <1>1, <2>1, Zenon
<1>3. m - 1 \in 0..len /\ m \in Nat /\ m - 1 \notin Bad
  <2>1. m \in 0..len
    BY Zenon
  <2> HIDE DEF Bad
  <2> QED
    BY <1>1, <1>2, <2>1, SMT
<1>4. PICK f : Drops(s, f, m - 1)
  BY <1>3, Zenon
<1> DEFINE top == IF s[m].name = "prune" THEN f[m - 1] ELSE Append(f[m - 1], s[m])
           g == [n \in 0..m |-> IF n = m THEN top ELSE f[n]]
<1>5. Drops(s, g, m)
  <2>1. ASSUME NEW n \in 0..m
        PROVE  g[n] = IF n = 0 THEN <<>> ELSE IF s[n].name = "prune" THEN g[n - 1]
                      ELSE Append(g[n - 1], s[n])
    <3>1. CASE n = m
      <4>1. g[n - 1] = f[m - 1] /\ g[n] = top
        BY <1>2, <1>3, <3>1
      <4> QED
        BY <1>2, <3>1, <4>1
    <3>2. CASE n # m
      <4>1. n \in 0..(m - 1) /\ (n # 0 => n - 1 \in 0..m /\ n - 1 # m)
        BY <1>3, <3>2
      <4>2. g[n] = f[n] /\ (n # 0 => g[n - 1] = f[n - 1])
        BY <3>2, <4>1, Zenon
      <4>3. f[n] = IF n = 0 THEN <<>> ELSE IF s[n].name = "prune" THEN f[n - 1]
                   ELSE Append(f[n - 1], s[n])
        BY <1>4, <4>1, Zenon DEF Drops
      <4> QED
        BY <4>2, <4>3, Zenon
    <3> QED
      BY <3>1, <3>2, Zenon
  <2> HIDE DEF top
  <2> QED
    BY <2>1, Zenon DEF Drops
<1> QED
  BY <1>1, <1>5, Zenon

\* dropPruned returns what its loop has kept at the end.
LEMMA DropIsLoop ==
    ASSUME NEW s PROVE dropPruned(s) = (CHOOSE f : Drops(s, f, Len(s)))[Len(s)]
BY DEF dropPruned, Drops

\* The loop drops the pruned signals and leaves the others in their order.
LEMMA DropPicks ==
    ASSUME NEW s \in Seq(Entry)
    PROVE  /\ dropPruned(s) \in Seq(Entry)
           /\ \E g : Picks(s, Len(s), dropPruned(s), g)
<1> DEFINE f == CHOOSE h : Drops(s, h, Len(s))
<1>1. Len(s) \in Nat /\ (\A i \in 1..Len(s) : s[i] \in Entry)
  OBVIOUS
<1>2. Drops(s, f, Len(s)) /\ dropPruned(s) = f[Len(s)]
  BY <1>1, DropsExist, DropIsLoop, Zenon
<1>3. \A n \in 0..Len(s) : f[n] = IF n = 0 THEN <<>> ELSE IF s[n].name = "prune" THEN f[n - 1]
                                  ELSE Append(f[n - 1], s[n])
  BY <1>2, Zenon DEF Drops
<1> HIDE DEF f
<1> DEFINE Good(n) == f[n] \in Seq(Entry) /\ \E g : Picks(s, n, f[n], g)
           Bad == {n \in 0..Len(s) : ~Good(n)}
<1>4. SUFFICES Bad = {}
  <2>1. Len(s) \in 0..Len(s)
    BY <1>1
  <2> QED
    BY <1>2, <1>4, <2>1, Zenon
<1> SUFFICES ASSUME Bad # {} PROVE FALSE
  BY Zenon
<1>5. PICK n \in Bad : \A y \in Bad : n <= y
  <2>1. Bad \in SUBSET Nat
    BY <1>1
  <2> HIDE DEF Bad
  <2> QED
    BY <2>1, LeastExists, Zenon
<1>6. n \in 0..Len(s) /\ ~Good(n)
  BY <1>5, Zenon
<1>7. n # 0
  <2>1. ASSUME n = 0 PROVE Good(n)
    <3>1. f[n] = <<>>
      BY <1>3, <1>6, <2>1, Zenon
    <3>2. Picks(s, 0, <<>>, [k \in 1..0 |-> 0])
      BY DEF Picks
    <3> QED
      BY <2>1, <3>1, <3>2
  <2> QED
    BY <1>6, <2>1, Zenon
<1>8. n - 1 \in 0..Len(s) /\ n - 1 \in Nat /\ n \in 1..Len(s) /\ n - 1 \notin Bad
  <2>1. n - 1 \in Nat /\ n - 1 \in 0..Len(s) /\ n \in 1..Len(s) /\ ~(n <= n - 1)
    BY <1>1, <1>6, <1>7
  <2> QED
    BY <1>5, <2>1, Zenon
<1>9. Good(n - 1)
  BY <1>8, Zenon
<1> HIDE DEF Bad
<1>10. PICK g : Picks(s, n - 1, f[n - 1], g)
  BY <1>9, Zenon
<1>11. CASE s[n].name = "prune"
  <2>1. f[n] = f[n - 1]
    BY <1>3, <1>6, <1>7, <1>11, Zenon
  <2>2. Picks(s, n, f[n - 1], g)
    BY <1>8, <1>10, <1>11 DEF Picks
  <2> QED
    BY <1>6, <1>9, <2>1, <2>2, Zenon
<1>12. CASE s[n].name # "prune"
  <2> DEFINE d == f[n - 1]
             h == [k \in 1..(Len(d) + 1) |-> IF k = Len(d) + 1 THEN n ELSE g[k]]
  <2>1. f[n] = Append(d, s[n])
    BY <1>3, <1>6, <1>7, <1>12, Zenon
  <2>2. d \in Seq(Entry) /\ s[n] \in Entry
    BY <1>1, <1>8, <1>9, Zenon
  <2> HIDE DEF d
  <2>3. /\ f[n] \in Seq(Entry) /\ Len(f[n]) = Len(d) + 1 /\ Len(d) \in Nat
        /\ f[n][Len(d) + 1] = s[n] /\ \A k \in 1..Len(d) : f[n][k] = d[k]
    BY <2>1, <2>2
  <2>4. Picks(s, n - 1, d, g)
    BY <1>10, Zenon DEF d
  <2>5. \A k \in 1..(Len(d) + 1) : k \in 1..Len(d) \/ k = Len(d) + 1
    BY <2>3
  <2>6. h[Len(d) + 1] = n /\ \A k \in 1..Len(d) : h[k] = g[k] /\ g[k] \in 1..(n - 1)
    BY <2>3, <2>4 DEF Picks
  <2>7. h \in [1..(Len(d) + 1) -> 1..n]
    BY <1>8, <2>4, <2>3 DEF Picks
  <2> HIDE DEF h
  <2>8. \A j, k \in 1..(Len(d) + 1) : j < k => h[j] < h[k]
    BY <1>8, <2>3, <2>4, <2>5, <2>6 DEF Picks
  <2>9. \A k \in 1..(Len(d) + 1) : f[n][k] = s[h[k]] /\ s[h[k]].name # "prune"
    BY <1>12, <2>3, <2>4, <2>5, <2>6, Zenon DEF Picks
  <2>10. \A i \in 1..n : s[i].name # "prune" => \E k \in 1..(Len(d) + 1) : h[k] = i
    <3> TAKE i \in 1..n
    <3>1. CASE i = n
      BY <2>3, <2>6, <3>1
    <3>2. CASE i # n
      <4>1. i \in 1..(n - 1)
        BY <1>8, <3>2
      <4>2. s[i].name # "prune" => \E k \in 1..Len(d) : g[k] = i
        BY <2>4, <4>1, Zenon DEF Picks
      <4>3. \A k \in 1..Len(d) : k \in 1..(Len(d) + 1)
        BY <2>3
      <4> QED
        BY <2>6, <4>2, <4>3, Zenon
    <3> QED
      BY <3>1, <3>2, Zenon
  <2>11. Picks(s, n, f[n], h)
    BY <2>3, <2>7, <2>8, <2>9, <2>10, Zenon DEF Picks
  <2> QED
    BY <1>6, <2>3, <2>11, Zenon
<1> QED
  BY <1>11, <1>12, Zenon

\* The names are told apart by their order.
LEMMA NamesOrdered ==
    /\ DOMAIN nameOrder = {Lat, Lon, HDOP, "speed"}
    /\ \A a \in DOMAIN nameOrder : nameOrder[a] \in Int /\ a # "prune"
    /\ \A a, b \in DOMAIN nameOrder : nameOrder[a] = nameOrder[b] => a = b
    /\ Lat # Lon /\ Lat # HDOP /\ Lon # HDOP /\ "speed" \notin Coords
<1>1. DOMAIN nameOrder = {Lat, Lon, HDOP, "speed"}
  BY DEF nameOrder, Lat, Lon, HDOP
<1>2. nameOrder[Lat] = 1 /\ nameOrder[Lon] = 2 /\ nameOrder[HDOP] = 3 /\ nameOrder["speed"] = 4
  BY DEF nameOrder, Lat, Lon, HDOP
<1>3. /\ Lat # Lon /\ Lat # HDOP /\ Lon # HDOP /\ "speed" \notin Coords
      /\ \A a \in {Lat, Lon, HDOP, "speed"} : a # "prune"
  BY DEF Lat, Lon, HDOP, Coords
<1> HIDE DEF nameOrder
<1> QED
  BY <1>1, <1>2, <1>3

\* A signal's name, time and value.
LEMMA SignalFields ==
    ASSUME Configured
    PROVE  /\ Signal \subseteq Entry
           /\ \A x \in Signal : /\ x.name \in DOMAIN nameOrder /\ x.time \in Nat
                                /\ x.name \in Coords \/ x.name = "speed"
<1>1. \A x \in Signal : x \in [name : DOMAIN nameOrder, time : 0..MaxTime, value : Values]
  BY Zenon DEF Signal
<1>2. 0..MaxTime \subseteq Nat
  BY DEF Configured
<1> QED
  BY <1>1, <1>2, NamesOrdered DEF Entry, Coords

\* The order of the batch is transitive, and equal in both directions only for
\* signals of one name and time.
LEMMA OrderedTransitive ==
    ASSUME Configured, NEW a \in Signal, NEW b \in Signal, NEW c \in Signal, Ordered(a, b)
    PROVE  /\ Ordered(b, c) => Ordered(a, c)
           /\ Ordered(b, c) /\ signalEqual(a, c) => signalEqual(a, b)
<1>1. /\ a.time \in Nat /\ b.time \in Nat /\ c.time \in Nat
      /\ nameOrder[a.name] \in Int /\ nameOrder[b.name] \in Int /\ nameOrder[c.name] \in Int
      /\ nameOrder[a.name] = nameOrder[b.name] => a.name = b.name
  BY SignalFields, NamesOrdered, Zenon
<1>2. Ordered(b, c) => Ordered(a, c)
  BY <1>1 DEF Ordered
<1>3. Ordered(b, c) /\ signalEqual(a, c) => a.time = b.time /\ nameOrder[a.name] = nameOrder[b.name]
  BY <1>1 DEF Ordered, signalEqual
<1> QED
  BY <1>1, <1>2, <1>3, Zenon DEF signalEqual

\* A signal that joins the batch in sorted position leaves it sorted.
LEMMA DecodeSorts ==
    ASSUME Configured, InputSorted, NEW s \in Signal, Decode(s)
    PROVE  InputSorted'
<1>1. /\ input' = Append(input, s) /\ input \in Seq(Signal)
      /\ input # <<>> => Ordered(input[Len(input)], s)
  BY Zenon DEF Decode, InputSorted
<1> DEFINE n == Len(input)
<1>2. /\ input' \in Seq(Signal) /\ Len(input') = n + 1 /\ n \in Nat /\ input'[n + 1] = s
      /\ \A i \in 1..n : input'[i] = input[i] /\ input[i] \in Signal
      /\ input = <<>> <=> n = 0
  BY <1>1
<1>3. ASSUME NEW i \in 1..n PROVE Ordered(input[i], s)
  <2>1. n \in 1..n /\ input # <<>> /\ (i = n \/ i < n)
    BY <1>2
  <2>2. i < n => Ordered(input[i], input[n])
    BY <2>1, Zenon DEF InputSorted
  <2> QED
    BY <1>1, <1>2, <2>1, <2>2, OrderedTransitive, Zenon
<1>4. \A i, j \in 1..(n + 1) : i < j => i \in 1..n /\ (j \in 1..n \/ j = n + 1)
  BY <1>2
<1>5. \A i, j \in 1..(n + 1) : i < j => Ordered(input'[i], input'[j])
  BY <1>2, <1>3, <1>4, Zenon DEF InputSorted
<1> QED
  BY <1>2, <1>5, Zenon DEF InputSorted

\* Of the signals of one name and time, the batch holds a last one.
LEMMA LastOfRun ==
    ASSUME Configured, InputSorted, NEW i \in 1..Len(input)
    PROVE  \E j \in 1..Len(input) :
              /\ signalEqual(input[i], input[j])
              /\ j < Len(input) => ~signalEqual(input[j], input[j + 1])
<1> DEFINE n == Len(input)
           S == {m \in 0..n : n - m \in 1..n /\ signalEqual(input[i], input[n - m])}
<1>1. n \in Nat
  BY DEF InputSorted
<1>2. S \in SUBSET Nat /\ n - i \in S
  <2>1. n - i \in 0..n /\ n - (n - i) = i /\ i \in 1..n
    BY <1>1
  <2>2. signalEqual(input[i], input[i])
    BY Zenon DEF signalEqual
  <2>3. S \in SUBSET Nat
    BY <1>1
  <2> HIDE DEF n
  <2> QED
    BY <2>1, <2>2, <2>3, Zenon
<1>3. PICK m \in S : \A y \in S : m <= y
  <2> HIDE DEF S
  <2> QED
    BY <1>2, LeastExists, Zenon
<1> DEFINE j == n - m
<1>4. j \in 1..n /\ signalEqual(input[i], input[j]) /\ m \in 0..n
  BY <1>3, Zenon
<1>5. ASSUME j < n, signalEqual(input[j], input[j + 1]) PROVE FALSE
  <2>1. m - 1 \in 0..n /\ n - (m - 1) = j + 1 /\ j + 1 \in 1..n /\ ~(m <= m - 1)
    BY <1>1, <1>4, <1>5
  <2>2. signalEqual(input[i], input[j + 1])
    BY <1>4, <1>5, Zenon DEF signalEqual
  <2> HIDE DEF j, n
  <2>3. m - 1 \in S
    BY <2>1, <2>2, Zenon
  <2> QED
    BY <1>3, <2>1, <2>3, Zenon
<1> QED
  BY <1>4, <1>5, Zenon

\* What pruneFutureAndDuplicateSignals hands on is the sorted batch without its
\* future signals, the last of each name and time.
LEMMA PruneCleans == ASSUME Configured, InputSorted PROVE Cleaned(pruned(input))
<1> DEFINE n == Len(input)
           gone(i) == input[i].time > Now \/ (i < n /\ signalEqual(input[i], input[i + 1]))
           q == [i \in 1..n |-> IF gone(i) THEN pruneSignal ELSE input[i]]
           b == pruned(input)
<1>1. /\ input \in Seq(Signal) /\ n \in Nat
      /\ \A i \in 1..n : input[i] \in Signal /\ input[i] \in Entry /\ input[i] \in Range(input)
  <2>1. input \in Seq(Signal)
    BY Zenon DEF InputSorted
  <2>2. n \in Nat /\ DOMAIN input = 1..n /\ \A i \in 1..n : input[i] \in Signal
    BY <2>1
  <2> QED
    BY <2>1, <2>2, SignalFields, Zenon DEF Range
<1>2. \A x \in Range(input) : \E i \in 1..n : x = input[i]
  BY <1>1 DEF Range
<1>3. pruneSignal \in Entry /\ pruneSignal.name = "prune"
  BY DEF pruneSignal, Entry, Values
<1>4. q \in Seq(Entry) /\ Len(q) = n
  <2> HIDE DEF gone
  <2>1. \A i \in 1..n : q[i] \in Entry
    BY <1>1, <1>3, Zenon
  <2> QED
    BY <1>1, <2>1
<1>5. \A i \in 1..n : /\ q[i].name = "prune" <=> gone(i)
                      /\ ~gone(i) => q[i] = input[i]
  <2> HIDE DEF gone
  <2> QED
    BY <1>1, <1>3, SignalFields, NamesOrdered, Zenon
<1>6. b = dropPruned(q)
  BY Zenon DEF pruned
<1> HIDE DEF q, gone
<1>7. b \in Seq(Entry) /\ \E g : Picks(q, n, b, g)
  BY <1>4, <1>6, DropPicks, Zenon
<1> HIDE DEF b
<1>8. PICK g : Picks(q, n, b, g)
  BY <1>7, Zenon
<1>9. \A k \in 1..Len(b) : g[k] \in 1..n /\ b[k] = input[g[k]] /\ ~gone(g[k])
  BY <1>5, <1>8, Zenon DEF Picks
<1>10. b \in Seq(Signal)
  <2>1. \A k \in 1..Len(b) : b[k] \in Signal
    BY <1>1, <1>9, Zenon
  <2> QED
    BY <1>7, <2>1
<1>11. \A k \in 1..Len(b) : b[k] \in Range(input) /\ b[k].time <= Now
  <2>1. \A i \in 1..n : ~gone(i) => input[i].time <= Now
    BY <1>1, SignalFields DEF gone, Configured
  <2> QED
    BY <1>1, <1>9, <2>1, Zenon
<1>12. ASSUME NEW k \in 1..Len(b), NEW l \in 1..Len(b), k < l
       PROVE  Ordered(b[k], b[l]) /\ ~signalEqual(b[k], b[l])
  <2> DEFINE i == g[k]
             j == g[l]
  <2>1. i \in 1..n /\ j \in 1..n /\ i < j /\ b[k] = input[i] /\ b[l] = input[j] /\ ~gone(i)
    BY <1>8, <1>9, <1>12, Zenon DEF Picks
  <2> HIDE DEF i, j
  <2>2. i + 1 \in 1..n /\ i < i + 1 /\ i < n /\ (i + 1 = j \/ i + 1 < j)
    BY <1>1, <2>1
  <2>3. Ordered(input[i], input[j]) /\ Ordered(input[i], input[i + 1])
    BY <2>1, <2>2, Zenon DEF InputSorted
  <2>4. i + 1 < j => Ordered(input[i + 1], input[j])
    BY <2>1, <2>2, Zenon DEF InputSorted
  <2>5. ~signalEqual(input[i], input[i + 1])
    BY <2>1, <2>2, Zenon DEF gone
  <2>6. signalEqual(input[i], input[j]) => signalEqual(input[i], input[i + 1])
    BY <1>1, <2>1, <2>2, <2>3, <2>4, OrderedTransitive, Zenon
  <2> QED
    BY <2>1, <2>3, <2>5, <2>6, Zenon
<1>13. ASSUME NEW x \in Range(input), x.time <= Now
       PROVE  \E k \in 1..Len(b) : signalEqual(b[k], x)
  <2>1. PICK i \in 1..n : x = input[i]
    BY <1>2, Zenon
  <2>2. PICK j \in 1..n : /\ signalEqual(input[i], input[j])
                          /\ j < n => ~signalEqual(input[j], input[j + 1])
    BY LastOfRun, Zenon
  <2>3. input[j].time = x.time /\ input[j].time \in Nat /\ signalEqual(input[j], x)
    BY <1>1, <2>1, <2>2, SignalFields, Zenon DEF signalEqual
  <2>4. ~gone(j)
    BY <1>13, <2>2, <2>3 DEF gone, Configured
  <2>5. PICK k \in 1..Len(b) : g[k] = j
    BY <1>5, <1>8, <2>4, Zenon DEF Picks
  <2> QED
    BY <1>9, <2>3, <2>5, Zenon
<1> QED
  BY <1>10, <1>11, <1>12, <1>13, Zenon DEF Cleaned, b

\* The signals of the batch the loop works on.
LEMMA BatchFields ==
    ASSUME Configured, NEW b, Cleaned(b)
    PROVE  /\ b \in Seq(Signal) /\ Len(b) \in Nat
           /\ \A i \in 1..Len(b) :
                 /\ b[i] \in Signal /\ b[i] \in Range(b) /\ b[i].time \in Nat
                 /\ b[i].name \in Coords \/ b[i].name = "speed"
           /\ \A i, j \in 1..Len(b) : b[i] = b[j] => i = j
           /\ \A i, j \in 1..Len(b) : i <= j => b[i].time <= b[j].time
<1>1. b \in Seq(Signal)
  BY Zenon DEF Cleaned
<1>2. Len(b) \in Nat /\ DOMAIN b = 1..Len(b) /\ \A i \in 1..Len(b) : b[i] \in Signal
  BY <1>1
<1>3. \A i \in 1..Len(b) : /\ b[i] \in Signal /\ b[i] \in Range(b) /\ b[i].time \in Nat
                           /\ b[i].name \in Coords \/ b[i].name = "speed"
  BY <1>2, SignalFields, Zenon DEF Range
<1>4. \A i, j \in 1..Len(b) : i < j => /\ b[i] # b[j]
                                       /\ b[i].time < b[j].time \/ b[i].time = b[j].time
  BY Zenon DEF Cleaned, Ordered, signalEqual
<1>5. \A i, j \in 1..Len(b) : i = j \/ i < j \/ j < i
  BY <1>2
<1>6. \A i, j \in 1..Len(b) : b[i] = b[j] => i = j
  BY <1>4, <1>5, Zenon
<1>7. \A i, j \in 1..Len(b) : i <= j => b[i].time <= b[j].time
  BY <1>2, <1>3, <1>4, <1>5
<1> QED
  BY <1>1, <1>2, <1>3, <1>6, <1>7, Zenon

\* A part of the triple is in the batch, within the window.
LEMMA PartFields ==
    ASSUME Configured, NEW b, Cleaned(b), TripleHeld(b),
           NEW i \in {last.lat, last.lon, last.hdop}, i # 0
    PROVE  /\ i \in 1..Len(b) /\ i < index /\ b[i].name \in Coords /\ signals[i] = b[i]
           /\ Within(lastTime, b[i].time)
<1>1. Len(b) \in Nat
  BY BatchFields, Zenon
<1>2. last.lat \in 0..Len(b) /\ last.lon \in 0..Len(b) /\ last.hdop \in 0..Len(b)
  BY Zenon DEF TripleHeld
<1>3. i \in 1..Len(b)
  BY <1>1, <1>2
<1>4. \E name \in Coords : Part(b, i, name)
  BY Zenon DEF TripleHeld, Coords
<1> QED
  BY <1>3, <1>4, Zenon DEF Part

\* tryCreateLocation takes the triple out of the batch.
LEMMA CloseConsumes ==
    ASSUME Configured, NEW b, Merging(b)
    PROVE  /\ Scanned(b, consumed(signals, last))
           /\ \A i \in 1..Len(b) : i < index /\ b[i].name \in Coords =>
                 consumed(signals, last)[i].name = "prune"
           /\ \A i \in 1..Len(b) : signals[i].name = "prune" =>
                 consumed(signals, last)[i].name = "prune"
           /\ \A i \in {last.lat, last.lon, last.hdop} : i # 0 =>
                 i \in 1..Len(b) /\ consumed(signals, last)[i].name = "prune"
<1> DEFINE T == {last.lat, last.lon, last.hdop}
           q == consumed(signals, last)
<1>0. Cleaned(b) /\ Scanned(b, signals) /\ OthersHeld(b, signals) /\ TripleHeld(b)
  BY Zenon DEF Merging
<1>1. /\ signals \in Seq(Entry) /\ Len(signals) = Len(b) /\ Len(b) \in Nat
      /\ \A i \in 1..Len(b) : signals[i] \in Entry
  <2>1. signals \in Seq(Entry) /\ Len(signals) = Len(b)
    BY <1>0, Zenon DEF Scanned
  <2> QED
    BY <2>1
<1>2. \A x \in Entry : [x EXCEPT !.name = "prune"] \in Entry /\ [x EXCEPT !.name = "prune"].name = "prune"
  BY DEF Entry
<1>3. q = [i \in 1..Len(b) |-> IF i \in T THEN [signals[i] EXCEPT !.name = "prune"] ELSE signals[i]]
  BY <1>1, Zenon DEF consumed
<1> HIDE DEF q, T
<1>4. \A i \in 1..Len(b) : /\ q[i] \in Entry
                           /\ i \in T => q[i].name = "prune"
                           /\ i \notin T => q[i] = signals[i]
  BY <1>1, <1>2, <1>3, Zenon
<1>5. q \in Seq(Entry) /\ Len(q) = Len(b)
  BY <1>1, <1>3, <1>4
<1>6. \A i \in T : i # 0 => i \in 1..Len(b) /\ i < index /\ b[i].name \in Coords
  BY <1>0, PartFields, Zenon DEF T
<1>7. \A i \in 1..Len(b) : i # 0
  BY <1>1
<1>8. \A i \in 1..Len(b) : \/ q[i] = b[i]
                           \/ i < index /\ b[i].name \in Coords /\ q[i].name = "prune"
  BY <1>0, <1>4, <1>6, <1>7, Zenon DEF Scanned
<1>9. Scanned(b, q)
  BY <1>0, <1>5, <1>8, Zenon DEF Scanned
<1>10. \A i \in 1..Len(b) : i < index /\ b[i].name \in Coords => q[i].name = "prune"
  BY <1>0, <1>4, Zenon DEF OthersHeld, T
<1> QED
  BY <1>4, <1>6, <1>9, <1>10, Zenon DEF T, q

\* The location it creates is made of the triple.
LEMMA LocatedSound ==
    ASSUME Configured, NEW b, Cleaned(b), TripleHeld(b), last.lat # 0, last.lon # 0,
           validLatLon(signals[last.lat].value, signals[last.lon].value)
    PROVE  \E c \in Location :
              /\ located(signals, last, lastTime) = <<c>> /\ Sound(b, c)
              /\ c.lat = b[last.lat] /\ c.lon = b[last.lon]
<1> DEFINE H == IF last.hdop # 0 THEN {signals[last.hdop]} ELSE {}
           c == [time |-> lastTime, lat |-> signals[last.lat], lon |-> signals[last.lon], hdop |-> H]
           T == {last.lat, last.lon, last.hdop} \ {0}
<1>1. located(signals, last, lastTime) = <<c>>
  BY Zenon DEF located
<1>2. \A i \in T : i \in 1..Len(b) /\ signals[i] = b[i] /\ Within(lastTime, b[i].time)
  BY PartFields, Zenon
<1>3. \A i \in 1..Len(b) : b[i] \in Signal /\ b[i] \in Range(b)
  BY BatchFields, Zenon
<1>4. last.lat \in T /\ last.lon \in T /\ (last.hdop # 0 => last.hdop \in T)
  BY Zenon
<1>5. /\ c.time = lastTime /\ c.lat = signals[last.lat] /\ c.lon = signals[last.lon] /\ c.hdop = H
      /\ lastTime \in Nat /\ c.lat = b[last.lat] /\ c.lon = b[last.lon]
      /\ c.lat \in Signal /\ c.lon \in Signal
  BY <1>2, <1>3, <1>4, Zenon DEF TripleHeld
<1>6. H \subseteq Signal
  BY <1>2, <1>3, <1>4, Zenon
<1>7. c \in Location
  BY <1>5, <1>6, Zenon DEF Location
<1>8. \A x \in Parts(c) : \E i \in T : x = b[i]
  BY <1>2, <1>4, <1>5, Zenon DEF Parts
<1>9. \A i \in T : b[i] \in Parts(c)
  BY <1>2, <1>4, <1>5, Zenon DEF Parts
<1>10. \E i \in T : b[i].time = lastTime
  <2>1. CASE lastTime # zeroTime
    BY <2>1, Zenon DEF TripleHeld
  <2>2. CASE lastTime = zeroTime
    <3>1. b[last.lat].time = zeroTime
      BY <1>2, <1>4, <2>2, Zenon DEF Within
    <3> QED
      BY <1>4, <2>2, <3>1, Zenon
  <2> QED
    BY <2>1, <2>2, Zenon
<1> HIDE DEF c, T
<1>11. Sound(b, c)
  BY <1>2, <1>3, <1>5, <1>8, <1>9, <1>10, Zenon DEF Sound
<1> QED
  BY <1>1, <1>5, <1>7, <1>11, Zenon

\* No part of a new location is in an earlier one.
LEMMA CloseLocates ==
    ASSUME Configured, NEW b, Merging(b)
    PROVE  Locations(b, consumed(signals, last), created \o located(signals, last, lastTime))
<1> DEFINE q == consumed(signals, last)
           loc == located(signals, last, lastTime)
           made == created \o loc
           n == Len(created)
<1>0. Cleaned(b) /\ Scanned(b, signals) /\ TripleHeld(b) /\ Locations(b, signals, created)
  BY Zenon DEF Merging
<1>1. created \in Seq(Location) /\ n \in Nat
  <2>1. created \in Seq(Location)
    BY <1>0, Zenon DEF Locations
  <2> QED
    BY <2>1
<1>2. \A x : Used(b, signals, x) => Used(b, q, x)
  BY CloseConsumes, Zenon DEF Used
<1> HIDE DEF q
<1>3. \A k \in 1..n :
        /\ Sound(b, created[k]) /\ Used(b, q, created[k].lat) /\ Used(b, q, created[k].lon)
        /\ \A j \in 1..(k - 1) :
              created[j].lat # created[k].lat /\ created[j].lon # created[k].lon
  BY <1>0, <1>2, Zenon DEF Locations
<1>4. CASE loc = <<>>
  <2>1. made = created
    BY <1>1, <1>4
  <2> QED
    BY <1>1, <1>3, <2>1, Zenon DEF Locations, q
<1>5. CASE last.lat # 0 /\ last.lon # 0 /\ validLatLon(signals[last.lat].value, signals[last.lon].value)
  <2>1. PICK c \in Location : /\ loc = <<c>> /\ Sound(b, c)
                              /\ c.lat = b[last.lat] /\ c.lon = b[last.lon]
    BY <1>0, <1>5, LocatedSound, Zenon
  <2> HIDE DEF loc
  <2>2. /\ made \in Seq(Location) /\ Len(made) = n + 1 /\ made[n + 1] = c
        /\ \A k \in 1..n : made[k] = created[k]
    BY <1>1, <2>1
  <2>3. Used(b, q, c.lat) /\ Used(b, q, c.lon)
    BY <1>5, <2>1, CloseConsumes, Zenon DEF Used, q
  <2>4. ASSUME NEW i \in {last.lat, last.lon}, NEW x, Used(b, signals, x) PROVE x # b[i]
    <3>1. i \in 1..Len(b) /\ signals[i] = b[i] /\ b[i].name # "prune"
      <4>1. i \in 1..Len(b) /\ signals[i] = b[i]
        BY <1>0, <1>5, PartFields, Zenon
      <4>2. b[i] \in Signal
        BY <1>0, <4>1, BatchFields, Zenon
      <4> QED
        BY <4>1, <4>2, SignalFields, NamesOrdered, Zenon
    <3>2. \A j, k \in 1..Len(b) : b[j] = b[k] => j = k
      BY <1>0, BatchFields, Zenon
    <3> QED
      BY <2>4, <3>1, <3>2, Zenon DEF Used
  <2>5. \A j \in 1..n : made[j].lat # c.lat /\ made[j].lon # c.lon
    BY <1>0, <2>1, <2>2, <2>4, Zenon DEF Locations
  <2>6. ASSUME NEW k \in 1..(n + 1)
        PROVE  /\ Sound(b, made[k]) /\ Used(b, q, made[k].lat) /\ Used(b, q, made[k].lon)
               /\ \A j \in 1..(k - 1) : made[j].lat # made[k].lat /\ made[j].lon # made[k].lon
    <3>1. CASE k = n + 1
      <4>1. k - 1 = n
        BY <1>1, <3>1
      <4> QED
        BY <2>1, <2>2, <2>3, <2>5, <3>1, <4>1, Zenon
    <3>2. CASE k # n + 1
      <4>1. k \in 1..n /\ \A j \in 1..(k - 1) : j \in 1..n
        BY <1>1, <3>2
      <4> QED
        BY <1>3, <2>2, <4>1, Zenon
    <3> QED
      BY <3>1, <3>2, Zenon
  <2> QED
    BY <2>2, <2>6, Zenon DEF Locations, loc, q
<1> QED
  BY <1>4, <1>5, Zenon DEF located

\* Past the one pair of a batch, closing the triple leaves exactly its location.
LEMMA CloseJoins ==
    ASSUME Configured, NEW b, Merging(b), NEW i \in 1..Len(b), NEW j \in 1..Len(b),
           OnePair(b, i, j), i < index, j < index
    PROVE  Len(created \o located(signals, last, lastTime)) = 1
<1>0. TripleHeld(b) /\ PairKept(b) /\ Cleaned(b) /\ Locations(b, signals, created)
  BY Zenon DEF Merging
<1>1. CASE created = <<>> /\ last.lat = i /\ last.lon = j
  <2>1. last.lat # 0 /\ last.lon # 0
    <3>1. Len(b) \in Nat
      BY <1>0, BatchFields, Zenon
    <3> QED
      BY <1>1, <3>1
  <2>2. signals[last.lat] = b[i] /\ signals[last.lon] = b[j]
    BY <1>0, <1>1, <2>1, PartFields, Zenon
  <2>3. validLatLon(signals[last.lat].value, signals[last.lon].value)
    BY <2>2, Zenon DEF OnePair
  <2>4. PICK c \in Location : located(signals, last, lastTime) = <<c>>
    BY <1>0, <2>1, <2>3, LocatedSound, Zenon
  <2> QED
    BY <1>1, <2>4
<1>2. CASE Len(created) = 1 /\ last = noTriple
  <2>1. last.lat = 0
    BY <1>2 DEF noTriple
  <2>2. located(signals, last, lastTime) = <<>>
    BY <2>1, Zenon DEF located
  <2>3. created \in Seq(Location)
    BY <1>0, Zenon DEF Locations
  <2> QED
    BY <1>2, <2>2, <2>3
<1> QED
  BY <1>0, <1>1, <1>2, Zenon DEF PairKept

\* What processSignal works on once it has closed the triple, if it had to: t and
\* begun are what is left of the triple.
Open(b, t, begun) ==
    /\ Scanned(b, signals')
    /\ t \in [lat : 0..Len(b), lon : 0..Len(b), hdop : 0..Len(b)] /\ begun \in Nat
    /\ \A i \in 1..Len(b) : i < index /\ b[i].name \in Coords =>
          signals'[i].name = "prune" \/ i \in {t.lat, t.lon, t.hdop}
    /\ \A i \in {t.lat, t.lon, t.hdop} : i # 0 =>
          i < index /\ signals'[i] = b[i] /\ Within(begun, b[i].time)
    /\ t.lat # 0 => b[t.lat].name = Lat
    /\ t.lon # 0 => b[t.lon].name = Lon
    /\ t.hdop # 0 => b[t.hdop].name = HDOP
    /\ begun # zeroTime =>
          /\ begun <= b[index].time /\ b[index].time - begun < maxLatLongDur
          /\ \E i \in {t.lat, t.lon, t.hdop} : i # 0 /\ b[i].time = begun
    /\ b[index].name = Lat => t.lat = 0
    /\ b[index].name = Lon => t.lon = 0
    /\ b[index].name = HDOP => t.hdop = 0
    /\ Locations(b, signals', created')
    /\ \A i, j \in 1..Len(b) : OnePair(b, i, j) =>
          \/ created' = <<>> /\ (i < index => t.lat = i) /\ (j < index => t.lon = j)
          \/ Len(created') = 1 /\ t = noTriple /\ i < index /\ j < index

\* A triple that is not closed stays as it is.
LEMMA StaysOpen ==
    ASSUME Configured, NEW b, Merging(b), index \in 1..Len(b), ~forced(b[index]),
           UNCHANGED <<signals, created>>
    PROVE  Open(b, last, lastTime)
<1>0. /\ Cleaned(b) /\ Scanned(b, signals) /\ OthersHeld(b, signals) /\ TripleHeld(b)
      /\ Locations(b, signals, created) /\ PairKept(b)
  BY Zenon DEF Merging
<1>1. Len(b) \in Nat /\ \A i \in 1..Len(b) : b[i].time \in Nat
  BY <1>0, BatchFields, Zenon
<1>2. \A i \in {last.lat, last.lon, last.hdop} : i # 0 =>
        i \in 1..Len(b) /\ i < index /\ signals[i] = b[i] /\ Within(lastTime, b[i].time)
  BY <1>0, PartFields, Zenon
<1>3. lastTime # zeroTime =>
        /\ lastTime <= b[index].time /\ b[index].time - lastTime < maxLatLongDur
        /\ \E i \in {last.lat, last.lon, last.hdop} : i # 0 /\ b[i].time = lastTime
  <2> SUFFICES ASSUME lastTime # zeroTime
               PROVE  /\ lastTime <= b[index].time /\ b[index].time - lastTime < maxLatLongDur
                      /\ \E i \in {last.lat, last.lon, last.hdop} : i # 0 /\ b[i].time = lastTime
    BY Zenon
  <2>1. PICK i \in {last.lat, last.lon, last.hdop} : i # 0 /\ b[i].time = lastTime
    BY <1>0, Zenon DEF TripleHeld
  <2>2. i \in 1..Len(b) /\ i < index /\ lastTime \in Nat
    BY <1>0, <1>2, <2>1, Zenon DEF TripleHeld
  <2>3. i <= index
    BY <2>2
  <2>4. b[i].time <= b[index].time
    BY <1>0, <2>2, <2>3, BatchFields, Zenon
  <2>5. ~(b[index].time - lastTime >= maxLatLongDur)
    BY Zenon DEF forced
  <2>6. b[index].time - lastTime < maxLatLongDur
    BY <1>1, <2>2, <2>5 DEF Configured
  <2> QED
    BY <2>1, <2>4, <2>6, Zenon
<1>4. /\ last.lat # 0 => b[last.lat].name = Lat
      /\ last.lon # 0 => b[last.lon].name = Lon
      /\ last.hdop # 0 => b[last.hdop].name = HDOP
  BY <1>0, Zenon DEF TripleHeld, Part
<1>5. /\ last \in [lat : 0..Len(b), lon : 0..Len(b), hdop : 0..Len(b)]
      /\ lastTime \in Nat
  BY <1>0, Zenon DEF TripleHeld
<1>6. /\ b[index].name = Lat => last.lat = 0
      /\ b[index].name = Lon => last.lon = 0
      /\ b[index].name = HDOP => last.hdop = 0
  BY Zenon DEF forced
<1>7. signals' = signals /\ created' = created
  BY Zenon
<1> QED
  BY <1>0, <1>2, <1>3, <1>4, <1>5, <1>6, <1>7, Zenon DEF Open, OthersHeld, PairKept

\* The one pair of a batch is never torn by the time gap or by a repeated part.
LEMMA PairNotTorn ==
    ASSUME Configured, NEW b, Merging(b), index \in 1..Len(b), forced(b[index]),
           NEW i \in 1..Len(b), NEW j \in 1..Len(b), OnePair(b, i, j)
    PROVE  i < index /\ j < index
<1>0. Cleaned(b) /\ TripleHeld(b) /\ PairKept(b)
  BY Zenon DEF Merging
<1>1. Len(b) \in Nat /\ \A k \in 1..Len(b) : b[k].time \in Nat
  BY <1>0, BatchFields, Zenon
<1>2. \A k \in {last.lat, last.lon, last.hdop} : k # 0 =>
        k \in 1..Len(b) /\ k < index /\ k \in {i, j} /\ k # index
  <2>1. \A k \in {last.lat, last.lon, last.hdop} : k # 0 =>
          k \in 1..Len(b) /\ k < index /\ k \in {i, j}
    BY <1>0, PartFields, Zenon DEF OnePair
  <2> QED
    BY <1>1, <2>1
<1>3. /\ last.lat # 0 => b[last.lat].name = Lat
      /\ last.lon # 0 => b[last.lon].name = Lon
      /\ last.hdop # 0 => b[last.hdop].name = HDOP
  BY <1>0, Zenon DEF TripleHeld, Part
<1>4. last.hdop = 0
  BY <1>2, <1>3, NamesOrdered, Zenon DEF OnePair
<1>5. b[index].name \in Coords => index \in {i, j}
  BY Zenon DEF OnePair
<1>6. ~(b[index].name = Lat /\ last.lat # 0)
  BY <1>2, <1>3, <1>5, NamesOrdered, Zenon DEF OnePair, Coords
<1>7. ~(b[index].name = Lon /\ last.lon # 0)
  BY <1>2, <1>3, <1>5, NamesOrdered, Zenon DEF OnePair, Coords
<1>8. lastTime # zeroTime /\ b[index].time - lastTime >= maxLatLongDur
  BY <1>4, <1>6, <1>7, Zenon DEF forced
<1>9. PICK p \in {i, j} : p < index /\ b[p].time = lastTime
  BY <1>0, <1>2, <1>8, Zenon DEF TripleHeld
<1>10. ASSUME NEW k \in {i, j}, ~(k < index) PROVE FALSE
  <2>1. index <= k
    BY <1>1, <1>10
  <2>2. b[index].time <= b[k].time
    BY <1>0, <2>1, BatchFields, Zenon
  <2>3. k # p
    BY <1>9, <1>10, Zenon
  <2>4. b[k].time = zeroTime \/ b[k].time - b[p].time < maxLatLongDur
    BY <1>8, <1>9, <2>3, Zenon DEF OnePair, Near
  <2>5. b[k].time \in Nat /\ b[p].time \in Nat /\ b[index].time \in Nat
    BY <1>1, Zenon
  <2>6. \A x, y, z \in Nat : x - y >= maxLatLongDur /\ x <= z => z # zeroTime
    BY DEF Configured, zeroTime
  <2>7. \A x, y, z \in Nat : x - y >= maxLatLongDur /\ x <= z => ~(z - y < maxLatLongDur)
    BY DEF Configured
  <2> QED
    BY <1>8, <1>9, <2>2, <2>4, <2>5, <2>6, <2>7, Zenon
<1> QED
  BY <1>10, Zenon

\* A triple that is closed leaves nothing open.
LEMMA ClosesOpen ==
    ASSUME Configured, NEW b, Merging(b), index \in 1..Len(b), forced(b[index]),
           signals' = consumed(signals, last),
           created' = created \o located(signals, last, lastTime)
    PROVE  Open(b, noTriple, zeroTime)
<1>1. /\ Scanned(b, signals') /\ Locations(b, signals', created')
      /\ \A i \in 1..Len(b) : i < index /\ b[i].name \in Coords => signals'[i].name = "prune"
  BY CloseConsumes, CloseLocates, Zenon
<1>2. Len(b) \in Nat
  BY BatchFields, Zenon DEF Merging
<1>3. /\ noTriple \in [lat : 0..Len(b), lon : 0..Len(b), hdop : 0..Len(b)]
      /\ noTriple.lat = 0 /\ noTriple.lon = 0 /\ noTriple.hdop = 0 /\ zeroTime \in Nat
  BY <1>2 DEF noTriple, zeroTime
<1>4. \A i, j \in 1..Len(b) : OnePair(b, i, j) =>
         Len(created') = 1 /\ i < index /\ j < index
  BY PairNotTorn, CloseJoins, Zenon
<1> HIDE DEF noTriple
<1> QED
  BY <1>1, <1>3, <1>4, Zenon DEF Open

\* processSignal puts the signal at index where it belongs in the triple.
LEMMA ExtendsTriple ==
    ASSUME Configured, NEW b, Cleaned(b), index \in 1..Len(b), NEW t, NEW begun,
           Open(b, t, begun), index' = index + 1,
           last' = CASE b[index].name = Lat -> [t EXCEPT !.lat = index]
                     [] b[index].name = Lon -> [t EXCEPT !.lon = index]
                     [] b[index].name = HDOP -> [t EXCEPT !.hdop = index]
                     [] OTHER -> t,
           lastTime' = IF b[index].name \in {Lat, Lon, HDOP} /\ begun = zeroTime
                       THEN b[index].time ELSE begun,
           UNCHANGED input
    PROVE  Merging(b)'
<1> DEFINE x == b[index].name
           T == {t.lat, t.lon, t.hdop}
<1>1. /\ Len(b) \in Nat /\ index \in Nat /\ index # 0
      /\ \A i \in 1..Len(b) : b[i].time \in Nat /\ (b[i].name \in Coords \/ b[i].name = "speed")
      /\ \A i \in 1..Len(b) : i # 0
  <2>1. /\ Len(b) \in Nat
        /\ \A i \in 1..Len(b) : b[i].time \in Nat /\ (b[i].name \in Coords \/ b[i].name = "speed")
    BY BatchFields, Zenon
  <2> QED
    BY <2>1
<1>2. /\ t \in [lat : 0..Len(b), lon : 0..Len(b), hdop : 0..Len(b)] /\ begun \in Nat
      /\ t.lat \in 0..Len(b) /\ t.lon \in 0..Len(b) /\ t.hdop \in 0..Len(b)
  BY Zenon DEF Open
<1>3. index \in 0..Len(b) /\ index < index' /\ index' \in 1..(Len(b) + 1)
  BY <1>1
<1>4. \A i \in 1..Len(b) : (i < index => i < index') /\ (i < index' => i < index \/ i = index)
  BY <1>1
<1>5. /\ last'.lat = IF x = Lat THEN index ELSE t.lat
      /\ last'.lon = IF x = Lon THEN index ELSE t.lon
      /\ last'.hdop = IF x = HDOP THEN index ELSE t.hdop
      /\ last' \in [lat : 0..Len(b), lon : 0..Len(b), hdop : 0..Len(b)]
      /\ x \notin Coords => last' = t
  <2>0. x \in Coords <=> x = Lat \/ x = Lon \/ x = HDOP
    BY Zenon DEF Coords
  <2> HIDE DEF x
  <2>1. CASE x = Lat
    <3>1. last' = [t EXCEPT !.lat = index]
      BY <2>1, NamesOrdered, Zenon DEF x
    <3> QED
      BY <1>2, <1>3, <2>0, <2>1, <3>1, NamesOrdered
  <2>2. CASE x = Lon
    <3>1. last' = [t EXCEPT !.lon = index]
      BY <2>2, NamesOrdered, Zenon DEF x
    <3> QED
      BY <1>2, <1>3, <2>0, <2>2, <3>1, NamesOrdered
  <2>3. CASE x = HDOP
    <3>1. last' = [t EXCEPT !.hdop = index]
      BY <2>3, NamesOrdered, Zenon DEF x
    <3> QED
      BY <1>2, <1>3, <2>0, <2>3, <3>1, NamesOrdered
  <2>4. CASE x \notin Coords
    <3>1. last' = t
      BY <2>0, <2>4, Zenon DEF x
    <3> QED
      BY <1>2, <2>0, <2>4, <3>1, Zenon
  <2> QED
    BY <2>0, <2>1, <2>2, <2>3, <2>4, Zenon
<1>6. /\ x = Lat => t.lat = 0
      /\ x = Lon => t.lon = 0
      /\ x = HDOP => t.hdop = 0
  BY Zenon DEF Open
<1>7. Scanned(b, signals)'
  <2>1. /\ signals' \in Seq(Entry) /\ Len(signals') = Len(b)
        /\ \A i \in 1..Len(b) : \/ signals'[i] = b[i]
                                \/ i < index /\ b[i].name \in Coords /\ signals'[i].name = "prune"
    BY Zenon DEF Open, Scanned
  <2> QED
    BY <1>3, <1>4, <2>1, Zenon DEF Scanned
<1>8. signals'[index] = b[index]
  <2>1. ~(index < index)
    BY <1>1
  <2> QED
    BY <2>1, Zenon DEF Open, Scanned
<1>9. OthersHeld(b, signals)'
  <2>1. x \in Coords => index \in {last'.lat, last'.lon, last'.hdop}
    BY <1>5, NamesOrdered, Zenon DEF Coords
  <2>2. \A i \in T : i # 0 => i \in {last'.lat, last'.lon, last'.hdop}
    BY <1>5, <1>6, Zenon
  <2>3. \A i \in 1..Len(b) : i < index /\ b[i].name \in Coords => signals'[i].name = "prune" \/ i \in T
    BY Zenon DEF Open
  <2> HIDE DEF x, T
  <2> QED
    BY <1>1, <1>4, <2>1, <2>2, <2>3, Zenon DEF OthersHeld, x
<1>10. /\ x \in Coords => Within(lastTime', b[index].time)
       /\ begun # zeroTime => lastTime' = begun
       /\ x \notin Coords => lastTime' = begun
       /\ lastTime' \in Nat
  <2>1. b[index].time \in Nat
    BY <1>1, Zenon
  <2>2. begun # zeroTime => begun <= b[index].time /\ b[index].time - begun < maxLatLongDur
    BY Zenon DEF Open
  <2>3. lastTime' = IF x \in Coords /\ begun = zeroTime THEN b[index].time ELSE begun
    BY Zenon DEF Coords
  <2> HIDE DEF x
  <2> QED
    BY <1>2, <2>1, <2>2, <2>3 DEF Configured, Within, zeroTime
<1>11. \A i \in T : i # 0 =>
         i \in 1..Len(b) /\ i < index' /\ signals'[i] = b[i] /\ Within(lastTime', b[i].time)
  <2>1. \A i \in T : i # 0 => i \in 1..Len(b)
    BY <1>1, <1>2
  <2>2. \A i \in T : i # 0 => i < index /\ signals'[i] = b[i] /\ Within(begun, b[i].time)
    BY Zenon DEF Open
  <2>3. \A time : Within(begun, time) => Within(lastTime', time)
    BY <1>10, Zenon DEF Within
  <2> QED
    BY <1>4, <2>1, <2>2, <2>3, Zenon
<1>12. Part(b, last.lat, Lat)'
  <2>1. t.lat # 0 => b[t.lat].name = Lat
    BY Zenon DEF Open
  <2>2. x = Lat => x \in Coords
    BY Zenon DEF Coords
  <2> QED
    BY <1>3, <1>5, <1>8, <1>10, <1>11, <2>1, <2>2, Zenon DEF Part
<1>13. Part(b, last.lon, Lon)'
  <2>1. t.lon # 0 => b[t.lon].name = Lon
    BY Zenon DEF Open
  <2>2. x = Lon => x \in Coords
    BY Zenon DEF Coords
  <2> QED
    BY <1>3, <1>5, <1>8, <1>10, <1>11, <2>1, <2>2, Zenon DEF Part
<1>14. Part(b, last.hdop, HDOP)'
  <2>1. t.hdop # 0 => b[t.hdop].name = HDOP
    BY Zenon DEF Open
  <2>2. x = HDOP => x \in Coords
    BY Zenon DEF Coords
  <2> QED
    BY <1>3, <1>5, <1>8, <1>10, <1>11, <2>1, <2>2, Zenon DEF Part
<1>15. lastTime' # zeroTime => \E i \in {last'.lat, last'.lon, last'.hdop} : i # 0 /\ b[i].time = lastTime'
  <2>1. CASE begun # zeroTime
    <3>1. PICK i \in T : i # 0 /\ b[i].time = begun
      BY <2>1, Zenon DEF Open
    <3>2. i \in {last'.lat, last'.lon, last'.hdop}
      BY <1>5, <1>6, <3>1, Zenon
    <3> QED
      BY <1>10, <2>1, <3>1, <3>2, Zenon
  <2>2. CASE begun = zeroTime /\ x \in Coords
    <3>1. index \in {last'.lat, last'.lon, last'.hdop}
      BY <1>5, <2>2, Zenon DEF Coords
    <3>2. lastTime' = b[index].time
      BY <2>2, Zenon DEF Coords
    <3> QED
      BY <1>1, <3>1, <3>2, Zenon
  <2>3. CASE begun = zeroTime /\ x \notin Coords
    BY <1>10, <2>3, Zenon
  <2> QED
    BY <2>1, <2>2, <2>3, Zenon
<1>16. TripleHeld(b)'
  BY <1>5, <1>10, <1>12, <1>13, <1>14, <1>15, Zenon DEF TripleHeld
<1>17. Locations(b, signals, created)'
  BY Zenon DEF Open, Locations, Used
<1>18. PairKept(b)'
  <2> SUFFICES ASSUME NEW i \in 1..Len(b), NEW j \in 1..Len(b), OnePair(b, i, j)
               PROVE  \/ created' = <<>> /\ (i < index' => last'.lat = i)
                                         /\ (j < index' => last'.lon = j)
                      \/ Len(created') = 1 /\ last' = noTriple /\ i < index' /\ j < index'
    BY Zenon DEF PairKept, OnePair
  <2>1. CASE created' = <<>> /\ (i < index => t.lat = i) /\ (j < index => t.lon = j)
    <3>1. b[i].name = Lat /\ b[j].name = Lon /\ i # 0 /\ j # 0
      BY <1>1, Zenon DEF OnePair
    <3>2. i < index' => last'.lat = i
      BY <1>4, <1>5, <1>6, <2>1, <3>1, Zenon
    <3>3. j < index' => last'.lon = j
      BY <1>4, <1>5, <1>6, <2>1, <3>1, Zenon
    <3> QED
      BY <2>1, <3>2, <3>3, Zenon
  <2>2. CASE Len(created') = 1 /\ t = noTriple /\ i < index /\ j < index
    <3>1. x \notin Coords
      <4>1. index # i /\ index # j
        BY <1>1, <2>2
      <4> QED
        BY <4>1, Zenon DEF OnePair
    <3> QED
      BY <1>4, <1>5, <2>2, <3>1, Zenon
  <2> QED
    BY <2>1, <2>2, Zenon DEF Open
<1>19. Cleaned(b)'
  BY Zenon DEF Cleaned
<1> QED
  BY <1>7, <1>9, <1>16, <1>17, <1>18, <1>19, Zenon DEF Merging

\* Every signal of the batch leaves the loop's invariant as it was.
LEMMA ProcessKeeps ==
    ASSUME Configured, NEW b, Merging(b), processSignal
    PROVE  Merging(b)'
<1> DEFINE sig == signals[index]
<1>0. Cleaned(b) /\ Scanned(b, signals)
  BY Zenon DEF Merging
<1>1. index \in 1..Len(b) /\ ~(index < index)
  <2>1. Len(b) \in Nat
    BY <1>0, BatchFields, Zenon
  <2>2. index \in 1..(Len(b) + 1) /\ index <= Len(b)
    BY <1>0, Zenon DEF Scanned, processSignal
  <2> QED
    BY <2>1, <2>2
<1>2. sig = b[index]
  BY <1>0, <1>1, Zenon DEF Scanned
<1>3. PICK t : t = IF forced(sig) THEN noTriple ELSE last
  BY Zenon
<1>4. PICK begun : begun = IF forced(sig) THEN zeroTime ELSE lastTime
  BY Zenon
<1>5. /\ index' = index + 1
      /\ signals' = IF forced(sig) THEN consumed(signals, last) ELSE signals
      /\ created' = IF forced(sig) THEN created \o located(signals, last, lastTime) ELSE created
      /\ last' = CASE sig.name = Lat -> [t EXCEPT !.lat = index]
                   [] sig.name = Lon -> [t EXCEPT !.lon = index]
                   [] sig.name = HDOP -> [t EXCEPT !.hdop = index]
                   [] OTHER -> t
      /\ lastTime' = IF sig.name \in {Lat, Lon, HDOP} /\ begun = zeroTime THEN sig.time ELSE begun
      /\ input' = input
  BY <1>3, <1>4, Zenon DEF processSignal
<1> HIDE DEF sig
<1>6. Open(b, t, begun)
  <2>1. CASE forced(sig)
    BY <1>1, <1>2, <1>3, <1>4, <1>5, <2>1, ClosesOpen, Zenon
  <2>2. CASE ~forced(sig)
    BY <1>1, <1>2, <1>3, <1>4, <1>5, <2>2, StaysOpen, Zenon
  <2> QED
    BY <2>1, <2>2, Zenon
<1> QED
  BY <1>0, <1>1, <1>2, <1>5, <1>6, ExtendsTriple, Zenon

\* Times within one window are near each other.
LEMMA WindowNear ==
    ASSUME Configured, NEW x, NEW y, x.time \in Nat, y.time \in Nat, NEW z \in Nat,
           Within(z, x.time), Within(z, y.time)
    PROVE  Near(x, y)
BY DEF Configured, Within, Near, zeroTime

\* The batch that is published holds each other signal once, and nothing else.
LEMMA ResultMatches ==
    ASSUME Configured, NEW b, Merging(b), NEW q, NEW d, NEW g,
           \A i \in 1..Len(b) : b[i].name \in Coords => q[i].name = "prune",
           \A i \in 1..Len(b) : q[i] = b[i] \/ b[i].name \in Coords,
           d \in Seq(Entry), Picks(q, Len(b), d, g)
    PROVE  /\ Seen(d, DOMAIN nameOrder) = Seen(input, {"speed"})
           /\ Len(d) = Cardinality(Seen(input, {"speed"}))
<1>0. Cleaned(b)
  BY Zenon DEF Merging
<1>1. /\ Len(b) \in Nat
      /\ \A i \in 1..Len(b) : /\ b[i] \in Range(input) /\ b[i].time <= Now
                              /\ b[i].name \in Coords \/ b[i].name = "speed"
  BY <1>0, BatchFields, Zenon DEF Cleaned
<1>2. /\ \A k \in 1..Len(d) : g[k] \in 1..Len(b) /\ d[k] = b[g[k]] /\ d[k].name = "speed"
      /\ \A i \in 1..Len(b) : b[i].name = "speed" => \E k \in 1..Len(d) : g[k] = i
  <2>1. "speed" # "prune" /\ "speed" \notin Coords
    BY NamesOrdered
  <2>2. \A k \in 1..Len(d) : g[k] \in 1..Len(b) /\ d[k] = q[g[k]] /\ q[g[k]].name # "prune"
    BY Zenon DEF Picks
  <2>3. \A k \in 1..Len(d) : g[k] \in 1..Len(b) /\ d[k] = b[g[k]] /\ b[g[k]].name \notin Coords
    BY <2>2, Zenon
  <2>4. ASSUME NEW i \in 1..Len(b), b[i].name = "speed" PROVE \E k \in 1..Len(d) : g[k] = i
    <3>1. q[i] = b[i]
      BY <2>1, <2>4, Zenon
    <3>2. q[i].name # "prune"
      BY <2>1, <2>4, <3>1, Zenon
    <3> QED
      BY <3>2, Zenon DEF Picks
  <2>5. ASSUME NEW k \in 1..Len(d) PROVE g[k] \in 1..Len(b) /\ d[k] = b[g[k]] /\ d[k].name = "speed"
    <3>1. g[k] \in 1..Len(b) /\ d[k] = b[g[k]] /\ b[g[k]].name = "speed"
      BY <1>1, <2>3, Zenon
    <3> QED
      BY <3>1, Zenon
  <2> QED
    BY <2>4, <2>5, Zenon
<1>3. Len(d) \in Nat /\ DOMAIN d = 1..Len(d)
  OBVIOUS
<1> DEFINE S == Seen(input, {"speed"})
           h == [k \in 1..Len(d) |-> <<d[k].name, d[k].time>>]
<1>4. \A y : y \in S <=> \E x \in Range(input) : x.name = "speed" /\ x.time <= Now /\ y = <<x.name, x.time>>
  BY Zenon DEF Seen
<1>5. \A y : y \in Seen(d, DOMAIN nameOrder) <=> \E k \in 1..Len(d) : y = <<d[k].name, d[k].time>>
  <2>1. \A k \in 1..Len(d) : d[k].name \in DOMAIN nameOrder /\ d[k].time <= Now
    BY <1>1, <1>2, NamesOrdered, Zenon
  <2>2. Range(d) = {d[k] : k \in 1..Len(d)}
    BY <1>3, Zenon DEF Range
  <2> QED
    BY <2>1, <2>2, Zenon DEF Seen
<1>6. \A y : (\E k \in 1..Len(d) : y = <<d[k].name, d[k].time>>) <=> y \in S
  <2>1. ASSUME NEW k \in 1..Len(d) PROVE <<d[k].name, d[k].time>> \in S
    BY <1>1, <1>2, <1>4, Zenon
  <2>2. ASSUME NEW y \in S PROVE \E k \in 1..Len(d) : y = <<d[k].name, d[k].time>>
    <3>1. PICK x \in Range(input) : x.name = "speed" /\ x.time <= Now /\ y = <<x.name, x.time>>
      BY <1>4, Zenon
    <3>2. PICK i \in 1..Len(b) : signalEqual(b[i], x)
      BY <1>0, <3>1, Zenon DEF Cleaned
    <3>3. b[i].name = "speed" /\ b[i].time = x.time
      BY <3>1, <3>2, Zenon DEF signalEqual
    <3>4. PICK k \in 1..Len(d) : g[k] = i
      BY <1>2, <3>3, Zenon
    <3>5. d[k] = b[i]
      BY <1>2, <3>4, Zenon
    <3> QED
      BY <3>1, <3>3, <3>5, Zenon
  <2> QED
    BY <2>1, <2>2, Zenon
<1>7. Seen(d, DOMAIN nameOrder) = S
  BY <1>5, <1>6, Zenon
<1>8. h \in Bijection(1..Len(d), S)
  <2> HIDE DEF S
  <2>1. h \in [1..Len(d) -> S]
    BY <1>6, Zenon
  <2>2. ASSUME NEW j \in 1..Len(d), NEW k \in 1..Len(d), j < k PROVE h[j] # h[k]
    <3>1. g[j] \in 1..Len(b) /\ g[k] \in 1..Len(b) /\ g[j] < g[k]
      BY <1>2, <2>2, Zenon DEF Picks
    <3>2. ~signalEqual(b[g[j]], b[g[k]])
      BY <1>0, <3>1, Zenon DEF Cleaned
    <3>3. ~(d[j].name = d[k].name /\ d[j].time = d[k].time)
      BY <1>2, <3>2, Zenon DEF signalEqual
    <3> QED
      BY <3>3
  <2>3. \A j, k \in 1..Len(d) : j = k \/ j < k \/ k < j
    BY <1>3
  <2>4. \A j, k \in 1..Len(d) : h[j] = h[k] => j = k
    BY <2>2, <2>3, Zenon
  <2>5. \A y \in S : \E k \in 1..Len(d) : h[k] = y
    BY <1>6, Zenon
  <2> HIDE DEF h
  <2> QED
    BY <2>1, <2>4, <2>5, Zenon DEF Bijection, Injection, Surjection, IsInjective
<1>9. Cardinality(1..Len(d)) = Len(d) /\ IsFiniteSet(1..Len(d))
  <2>1. 1 \in Int /\ Len(d) \in Int
    BY <1>3
  <2>2. /\ IsFiniteSet(1..Len(d))
        /\ Cardinality(1..Len(d)) = IF 1 > Len(d) THEN 0 ELSE Len(d) - 1 + 1
    BY <2>1, FS_Interval, Zenon
  <2> QED
    BY <1>3, <2>2
<1>10. Cardinality(S) = Len(d)
  <2> HIDE DEF S, h
  <2> QED
    BY <1>8, <1>9, FS_Bijection, Zenon DEF ExistsBijection
<1> QED
  BY <1>7, <1>10, Zenon

\* A batch that is Simple keeps its pair when it is pruned.
LEMMA SimpleIsPair ==
    ASSUME Configured, InputSorted, NEW b, Cleaned(b), Simple(input) # {}
    PROVE  \E i, j \in 1..Len(b) : OnePair(b, i, j)
<1>1. PICK p \in Range(input) \X Range(input) :
        /\ p[1].name = Lat /\ p[2].name = Lon
        /\ p[1].time <= Now /\ p[2].time <= Now
        /\ validLatLon(p[1].value, p[2].value) /\ Near(p[1], p[2])
        /\ \A m \in 1..Len(input) : input[m].name # "speed" => input[m] \in {p[1], p[2]}
  BY Zenon DEF Simple
<1>2. p[1] \in Range(input) /\ p[2] \in Range(input)
  BY <1>1, Zenon
<1>3. \A x \in Range(input) : x.name # "speed" => x \in {p[1], p[2]}
  <2>1. DOMAIN input = 1..Len(input)
    BY DEF InputSorted
  <2> QED
    BY <1>1, <2>1, Zenon DEF Range
<1>4. \A k \in 1..Len(b) : b[k].name \in Coords => b[k] \in {p[1], p[2]}
  BY <1>3, NamesOrdered, Zenon DEF Cleaned
<1>5. PICK i \in 1..Len(b) : signalEqual(b[i], p[1])
  BY <1>1, <1>2, Zenon DEF Cleaned
<1>6. PICK j \in 1..Len(b) : signalEqual(b[j], p[2])
  BY <1>1, <1>2, Zenon DEF Cleaned
<1>7. b[i] = p[1] /\ b[j] = p[2]
  <2>1. b[i].name = Lat /\ b[j].name = Lon
    BY <1>1, <1>5, <1>6, Zenon DEF signalEqual
  <2>2. b[i] \in {p[1], p[2]} /\ b[j] \in {p[1], p[2]}
    BY <1>4, <2>1, Zenon DEF Coords
  <2> QED
    BY <1>1, <2>1, <2>2, NamesOrdered, Zenon
<1>8. \A k \in 1..Len(b) : b[k].name \in Coords => k \in {i, j}
  <2>1. \A k, m \in 1..Len(b) : b[k] = b[m] => k = m
    BY BatchFields, Zenon
  <2>2. ASSUME NEW k \in 1..Len(b), b[k].name \in Coords PROVE k \in {i, j}
    <3>1. b[k] = b[i] \/ b[k] = b[j]
      BY <1>4, <1>7, <2>2, Zenon
    <3> QED
      BY <2>1, <3>1, Zenon
  <2> QED
    BY <2>2, Zenon
<1> QED
  BY <1>1, <1>7, <1>8, Zenon DEF OnePair

\* The end of the loop: what is published is what the message holds.
LEMMA EndMatches ==
    ASSUME Configured, InputSorted, NEW b, Merging(b), processSignals
    PROVE  DecodeMatchesReference'
<1> DEFINE q == consumed(signals, last)
           made == created \o located(signals, last, lastTime)
<1>0. Cleaned(b) /\ Scanned(b, signals) /\ Scanned(b, q) /\ Locations(b, q, made)
  BY CloseConsumes, CloseLocates, Zenon DEF Merging
<1>1. created' = made /\ signals' = dropPruned(q) /\ input' = input
  BY Zenon DEF processSignals
<1>2. \A i \in 1..Len(b) : i < index
  <2>1. Len(b) \in Nat
    BY <1>0, BatchFields, Zenon
  <2>2. index \in 1..(Len(b) + 1) /\ index > Len(b)
    BY <1>0, Zenon DEF Scanned, processSignals
  <2> QED
    BY <2>1, <2>2
<1>3. \A i \in 1..Len(b) : b[i].name \in Coords => q[i].name = "prune"
  BY <1>2, CloseConsumes, Zenon
<1>4. Simple(input) # {} => Len(made) = 1
  BY <1>0, <1>2, SimpleIsPair, CloseJoins, Zenon
<1> HIDE DEF q, made
<1>5. /\ Seen(signals', DOMAIN nameOrder) = Seen(input, {"speed"})
      /\ Len(signals') = Cardinality(Seen(input, {"speed"}))
  <2>1. q \in Seq(Entry) /\ Len(q) = Len(b) /\ \A i \in 1..Len(b) : q[i] = b[i] \/ b[i].name \in Coords
    BY <1>0, Zenon DEF Scanned
  <2>2. PICK d : d = dropPruned(q)
    BY Zenon
  <2>3. d \in Seq(Entry) /\ \E g : Picks(q, Len(b), d, g)
    BY <2>1, <2>2, DropPicks, Zenon
  <2>4. /\ Seen(d, DOMAIN nameOrder) = Seen(input, {"speed"})
        /\ Len(d) = Cardinality(Seen(input, {"speed"}))
    BY <1>3, <2>1, <2>3, ResultMatches, Zenon
  <2> QED
    BY <1>1, <2>2, <2>4, Zenon
<1>6. ASSUME NEW k \in 1..Len(made)
      PROVE  /\ Parts(made[k]) \subseteq Range(input)
             /\ validLatLon(made[k].lat.value, made[k].lon.value)
             /\ \A x, y \in Parts(made[k]) : Near(x, y)
             /\ \A x \in Parts(made[k]) :
                   /\ x.time <= Now
                   /\ x.time # zeroTime => made[k].time # zeroTime /\ made[k].time <= x.time
             /\ \E x \in Parts(made[k]) : x.time = made[k].time
             /\ \A j \in 1..(k - 1) : made[j].lat # made[k].lat /\ made[j].lon # made[k].lon
  <2>1. Sound(b, made[k])
    BY <1>0, Zenon DEF Locations
  <2>2. made[k].time \in Nat
    <3>1. made \in Seq(Location)
      BY <1>0, Zenon DEF Locations
    <3>2. made[k] \in Location
      BY <3>1
    <3> QED
      BY <3>2, Zenon DEF Location
  <2>3. \A x \in Parts(made[k]) : \E i \in 1..Len(b) : x = b[i]
    <3>1. DOMAIN b = 1..Len(b)
      BY <1>0 DEF Cleaned
    <3> QED
      BY <2>1, <3>1, Zenon DEF Sound, Range
  <2>4. ASSUME NEW x \in Parts(made[k])
        PROVE  /\ x \in Range(input) /\ x.time <= Now /\ x.time \in Nat
               /\ Within(made[k].time, x.time)
    <3>1. PICK i \in 1..Len(b) : x = b[i]
      BY <2>3, Zenon
    <3>2. b[i] \in Range(input) /\ b[i].time <= Now
      BY <1>0, Zenon DEF Cleaned
    <3>3. b[i].time \in Nat
      BY <1>0, BatchFields, Zenon
    <3>4. Within(made[k].time, x.time)
      BY <2>1, Zenon DEF Sound
    <3> QED
      BY <3>1, <3>2, <3>3, <3>4, Zenon
  <2>5. \A x, y \in Parts(made[k]) : Near(x, y)
    BY <2>2, <2>4, WindowNear, Zenon
  <2> QED
    BY <1>0, <2>1, <2>4, <2>5, Zenon DEF Sound, Locations, Within
<1> QED
  BY <1>1, <1>4, <1>5, <1>6, Zenon DEF DecodeMatchesReference, Parts

\* The invariant holds before the first signal, and every step keeps it.
LEMMA MergeStarts == SignalsInit => SignalsInv
<1> SUFFICES ASSUME SignalsInit PROVE SignalsInv
  BY Zenon
<1>1. InputSorted
  BY DEF SignalsInit, InputSorted
<1>2. stage = "choose" /\ stage # "done" /\ stage # "merge"
  BY DEF SignalsInit
<1> QED
  BY <1>1, <1>2, Zenon DEF SignalsInit, SignalsInv, DecodeMatchesReference

\* The pruned batch is where the loop starts.
LEMMA PruneStarts ==
    ASSUME Configured, SignalsInv, pruneFutureAndDuplicateSignals
    PROVE  Merging(pruned(input))'
<1>1. PICK b : b = pruned(input)
  BY Zenon
<1>2. /\ signals' = b /\ input' = input /\ index' = 1 /\ last' = noTriple
      /\ lastTime' = zeroTime /\ created' = <<>>
  BY <1>1, Zenon DEF pruneFutureAndDuplicateSignals, SignalsInv
<1>3. Cleaned(b)
  BY <1>1, PruneCleans, Zenon DEF SignalsInv
<1>4. b \in Seq(Signal) /\ b \in Seq(Entry) /\ Len(b) \in Nat
  <2>1. b \in Seq(Signal) /\ Len(b) \in Nat
    BY <1>3, BatchFields, Zenon
  <2>2. Signal \subseteq Entry
    BY SignalFields, Zenon
  <2> QED
    BY <2>1, <2>2
<1>5. Cleaned(b)'
  BY <1>2, <1>3, Zenon DEF Cleaned
<1>6. 1 \in 1..(Len(b) + 1) /\ \A i \in 1..Len(b) : ~(i < 1)
  BY <1>4
<1>7. Scanned(b, signals)' /\ OthersHeld(b, signals)'
  BY <1>2, <1>4, <1>6, Zenon DEF Scanned, OthersHeld
<1>8. /\ noTriple \in [lat : 0..Len(b), lon : 0..Len(b), hdop : 0..Len(b)]
      /\ noTriple.lat = 0 /\ noTriple.lon = 0 /\ noTriple.hdop = 0 /\ zeroTime \in Nat
  BY <1>4 DEF noTriple, zeroTime
<1>9. TripleHeld(b)'
  BY <1>2, <1>8, Zenon DEF TripleHeld, Part
<1>10. Locations(b, signals, created)'
  BY <1>2 DEF Locations
<1>11. PairKept(b)'
  BY <1>2, <1>6, Zenon DEF PairKept
<1>12. Merging(b)'
  BY <1>5, <1>7, <1>9, <1>10, <1>11, Zenon DEF Merging
<1>13. pruned(input)' = b
  BY <1>1, <1>2, Zenon DEF pruned
<1> QED
  BY <1>12, <1>13, Zenon DEF Merging

\* Every step of the bridge on a batch keeps the invariant.
LEMMA MergeKeeps ==
    ASSUME Configured PROVE SignalsInv /\ [SignalsNext]_signalVars => SignalsInv'
<1> SUFFICES ASSUME SignalsInv, [SignalsNext]_signalVars PROVE SignalsInv'
  BY Zenon
<1>1. ASSUME NEW s \in Signal, Decode(s) PROVE SignalsInv'
  <2>1. InputSorted'
    BY <1>1, DecodeSorts, Zenon DEF SignalsInv
  <2>2. /\ stage = "choose" /\ stage' = "choose" /\ signals' = signals /\ index' = index
        /\ last' = last /\ lastTime' = lastTime /\ created' = created
    BY <1>1, Zenon DEF Decode
  <2> QED
    BY <2>1, <2>2, Zenon DEF SignalsInv, DecodeMatchesReference
<1>2. CASE pruneFutureAndDuplicateSignals
  <2>1. input' = input /\ stage' = "merge"
    BY <1>2, Zenon DEF pruneFutureAndDuplicateSignals
  <2>2. InputSorted'
    BY <2>1, Zenon DEF SignalsInv, InputSorted
  <2>3. Merging(pruned(input))'
    BY <1>2, PruneStarts, Zenon
  <2> QED
    BY <2>1, <2>2, <2>3, Zenon DEF SignalsInv, DecodeMatchesReference
<1>3. CASE processSignal
  <2>1. input' = input /\ stage = "merge" /\ stage' = "merge"
    BY <1>3, Zenon DEF processSignal
  <2>2. InputSorted'
    BY <2>1, Zenon DEF SignalsInv, InputSorted
  <2>3. PICK b : b = pruned(input)
    BY Zenon
  <2>4. Merging(b)'
    BY <1>3, <2>1, <2>3, ProcessKeeps, Zenon DEF SignalsInv
  <2>5. pruned(input') = b
    BY <2>1, <2>3, Zenon
  <2> QED
    BY <2>1, <2>2, <2>4, <2>5, Zenon DEF SignalsInv, DecodeMatchesReference
<1>4. CASE processSignals
  <2>1. input' = input /\ stage = "merge" /\ stage' = "done"
    BY <1>4, Zenon DEF processSignals
  <2>2. InputSorted'
    BY <2>1, Zenon DEF SignalsInv, InputSorted
  <2>3. PICK b : b = pruned(input)
    BY Zenon
  <2>4. DecodeMatchesReference'
    BY <1>4, <2>1, <2>3, EndMatches, Zenon DEF SignalsInv
  <2> QED
    BY <2>1, <2>2, <2>4, Zenon DEF SignalsInv
<1>5. CASE UNCHANGED signalVars
  <2>1. /\ input' = input /\ stage' = stage /\ signals' = signals /\ index' = index
        /\ last' = last /\ lastTime' = lastTime /\ created' = created
    BY <1>5, Zenon DEF signalVars
  <2>2. InputSorted'
    BY <2>1, Zenon DEF SignalsInv, InputSorted
  <2>3. DecodeMatchesReference'
    BY <2>1, Zenon DEF SignalsInv, DecodeMatchesReference
  <2>4. ASSUME NEW b, Merging(b) PROVE Merging(b)'
    BY <2>1, <2>4, Zenon DEF Merging, Cleaned, Scanned, OthersHeld, TripleHeld, Part, Locations, PairKept
  <2>5. pruned(input') = pruned(input)
    BY <2>1, Zenon
  <2> QED
    BY <2>1, <2>2, <2>3, <2>4, <2>5, Zenon DEF SignalsInv
<1> QED
  BY <1>1, <1>2, <1>3, <1>4, <1>5, Zenon DEF SignalsNext

\* What the bridge publishes of a message is what the message holds, for any length
\* of batch, span of timestamps and window (decodestream.go, location.go): every
\* other signal that is not in the future once, no bare coordinate, only locations
\* of valid parts, near each other but for those without a timestamp, none of which
\* is used twice, and the one good pair.
THEOREM DecodingIsExact == SignalsSpec => []DecodeMatchesReference
<1>1. SignalsInv => DecodeMatchesReference
  BY Zenon DEF SignalsInv
<1>2. SignalsInv /\ [SignalsNext]_signalVars => SignalsInv'
  BY MergeKeeps, SignalsAssumption, Zenon
<1> QED
  BY <1>1, <1>2, MergeStarts, PTL DEF SignalsSpec
=============================================================================
