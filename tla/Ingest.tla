------------------------------- MODULE Ingest -------------------------------
(***************************************************************************)
(* The ingest path from a device's POST to the WAL (the JetStream stream   *)
(* INGEST_RAW): handler.Connection and handler.Attestation, the converter  *)
(* and the attestation verifier in front of them, the splitter that moves  *)
(* large payloads to the object store, and the publisher that waits for    *)
(* the stream's acknowledgement before the device is told 200.             *)
(*                                                                         *)
(* One device has one payload to deliver.  Each attempt is an HTTP request *)
(* of its own, served by a handler of its own; a device that gives up on a *)
(* request sends the next one while the handler of the old one still runs. *)
(* Faults (a failed upload, a full stream, a lost message or ack, a device *)
(* or ack timeout, a crash, a lapsed duplicate window) draw on one budget. *)
(***************************************************************************)
EXTENDS Integers, Sequences, FiniteSets

CONSTANTS
    Payloads,       \* the payloads the device may have
    MaxEvents,      \* the most cloudevents a payload fans out to
    MaxFaults       \* how many faults a behaviour may contain

ASSUME FaultsAssumption == MaxFaults \in Nat

ASSUME EventsAssumption == MaxEvents \in Nat

\* What the code tells apart in one event of a payload: a fingerprint may carry
\* a bad VIN or not be convertible at all, an inline event may exceed the NATS
\* max_payload, MarshalJSON may fail on it, and its header may or may not carry
\* an id and time of its own.
EventKinds == {"plain", "badVIN", "garbled", "huge", "unmarshalable"}

Event == [kind: EventKinds, own: BOOLEAN]

\* signer: the source itself, a contract that confirms the signature, nobody (the
\* contract denies it), or a source at which no such call succeeds (no code there,
\* a revert).  blob: the data (shared by every event of a payload) is over the
\* split threshold; base64 tells whether data_base64, when it is used, decodes.
Payload == [path: {"connection", "attestation"}, body: {"ok", "invalid", "oversize"},
            signer: {"eoa", "contract", "none", "uncallable"}, tombstone: {"no", "good", "bad"},
            blob: BOOLEAN, base64: BOOLEAN, events: Seq(Event)]

ASSUME PayloadsAssumption ==
    \A p \in Payloads :
        /\ p \in Payload
        /\ Len(p.events) \in 1..MaxEvents
        /\ p.path = "attestation" => /\ Len(p.events) = 1
                                     /\ p.events[1].kind \in {"plain", "huge", "unmarshalable"}
        /\ p.blob => \A i \in 1..Len(p.events) : p.events[i].kind # "huge"

Attempts == 1..MaxFaults + 1
Pairs == Attempts \X (1..MaxEvents)

VARIABLES
    payload,  \* what the device has to deliver
    device,   \* ready to send, waiting for an answer, or finished
    cur,      \* its latest attempt
    pc,       \* where the handler of each attempt is
    next,     \* the event its loop has reached
    out,      \* what became of each event in each attempt
    code,     \* the status each attempt answered, 0 before it does
    net,      \* each publish: unsent, on the wire, acknowledged, refused or gone
    wal,      \* the messages the stream stored
    window,   \* the message ids in its duplicate window
    forgot,   \* how often the window lapsed for each event
    blobs,    \* the objects the splitter uploaded
    faults    \* faults so far

vars == <<payload, device, cur, pc, next, out, code, net, wal, window, forgot, blobs, faults>>

N == Len(payload.events)
Ev(i) == payload.events[i]

Init ==
    /\ payload \in Payloads
    /\ device = "ready"
    /\ cur = 0
    /\ pc = [a \in Attempts |-> "idle"]
    /\ next = [a \in Attempts |-> 1]
    /\ out = [m \in Pairs |-> "new"]
    /\ code = [a \in Attempts |-> 0]
    /\ net = [m \in Pairs |-> "unsent"]
    /\ wal = {}
    /\ window = {}
    /\ forgot = [i \in 1..MaxEvents |-> 0]
    /\ blobs = {}
    /\ faults = 0

Fault == faults < MaxFaults /\ faults' = faults + 1
NoFault == faults' = faults

\* The request context of a handler nobody waits for any more is cancelled.
HungUp(a) == ~(a = cur /\ device = "waiting")

-----------------------------------------------------------------------------
(***************************************************************************)
(* The handler.                                                            *)
(***************************************************************************)

Reply(a, status) ==
    /\ pc' = [pc EXCEPT ![a] = "done"]
    /\ code' = [code EXCEPT ![a] = status]

\* A body cut short by a device that hung up is answered 500, to nobody.
BodyLost(a) == HungUp(a) /\ Reply(a, 500)

\* Reading the body and Convert: one bad header refuses the whole payload.
Convert(a) ==
    /\ pc[a] = "parse"
    /\ payload.path = "connection"
    /\ \/ /\ payload.body = "ok"
          /\ pc' = [pc EXCEPT ![a] = "split"]
          /\ UNCHANGED code
       \/ payload.body = "oversize" /\ Reply(a, 413)
       \/ payload.body = "invalid" /\ Reply(a, 400)
       \/ BodyLost(a)
    /\ NoFault
    /\ UNCHANGED <<payload, device, cur, next, out, net, wal, window, forgot, blobs>>

\* Parse: validate, verify the signature (by an eth_call unless the source
\* itself signed), then read a tombstone's voidsId.  An eth_call that fails, by a
\* passing fault or every time, is a 500.
Parse(a) ==
    /\ pc[a] = "parse"
    /\ payload.path = "attestation"
    /\ \/ payload.body = "oversize" /\ Reply(a, 413) /\ NoFault
       \/ payload.body = "invalid" /\ Reply(a, 400) /\ NoFault
       \/ BodyLost(a) /\ NoFault
       \/ /\ payload.body = "ok" /\ payload.signer # "eoa"
          /\ Reply(a, 500)
          /\ IF HungUp(a) \/ payload.signer = "uncallable" THEN NoFault ELSE Fault
       \/ /\ payload.body = "ok" /\ payload.signer # "uncallable"
          /\ payload.signer = "none" \/ payload.tombstone = "bad"
          /\ Reply(a, 400) /\ NoFault
       \/ /\ payload.body = "ok" /\ payload.signer \in {"eoa", "contract"}
          /\ payload.tombstone # "bad"
          /\ pc' = [pc EXCEPT ![a] = "split"]
          /\ NoFault /\ UNCHANGED code
    /\ UNCHANGED <<payload, device, cur, next, out, net, wal, window, forgot, blobs>>

\* One round of a handler's loop over the events: from stage s to stage t.
Loop(a, s, t) ==
    /\ pc[a] = s
    /\ \/ /\ next[a] < N
          /\ next' = [next EXCEPT ![a] = @ + 1]
          /\ UNCHANGED pc
       \/ /\ next[a] = N
          /\ next' = [next EXCEPT ![a] = 1]
          /\ pc' = [pc EXCEPT ![a] = t]

Becomes(a, i, result) == out' = [out EXCEPT ![<<a, i>>] = result]

\* Variant: the event of a failed upload is published all the same.
PutObjectIgnored(a, i) ==
    \/ blobs' = blobs \cup {<<a, i>>} /\ Becomes(a, i, "ready") /\ NoFault
    \/ blobs' = blobs /\ Becomes(a, i, "ready") /\ Fault

\* PutObject under a fresh key; what a failed upload leaves behind, nothing names.
PutObject(a, i) ==
    \/ blobs' = blobs \cup {<<a, i>>} /\ Becomes(a, i, "ready") /\ NoFault
    \/ /\ blobs' = blobs /\ Becomes(a, i, "nosplit")
       /\ IF HungUp(a) THEN NoFault ELSE Fault

\* MaybeSplit: an event over the threshold is uploaded first.
MaybeSplit(a, i) ==
    \/ ~payload.blob /\ Becomes(a, i, "ready") /\ NoFault /\ UNCHANGED blobs
    \/ payload.blob /\ ~payload.base64 /\ Becomes(a, i, "nosplit") /\ NoFault /\ UNCHANGED blobs
    \/ payload.blob /\ payload.base64 /\ PutObject(a, i)

\* The first loop: drop a bad VIN, note a fingerprint that does not convert,
\* note a failed split, and collect the rest.
Split(a) ==
    LET i == next[a] IN
    /\ Loop(a, "split", "submit")
    /\ \/ Ev(i).kind = "badVIN" /\ Becomes(a, i, "dropped") /\ NoFault /\ UNCHANGED blobs
       \/ Ev(i).kind = "garbled" /\ Becomes(a, i, "invalid") /\ NoFault /\ UNCHANGED blobs
       \/ Ev(i).kind \in {"plain", "huge", "unmarshalable"} /\ MaybeSplit(a, i)
    /\ UNCHANGED <<payload, device, cur, code, net, wal, window, forgot>>

\* submitAsync for each collected event: it marshals the event and hands it to the
\* client; a synchronous error is recorded and the loop goes on.
Submit(a) ==
    LET i == next[a] IN
    /\ Loop(a, "submit", "await")
    /\ \/ out[<<a, i>>] # "ready" /\ NoFault /\ UNCHANGED <<out, net>>
       \/ /\ out[<<a, i>>] = "ready" /\ Ev(i).kind = "unmarshalable"
          /\ Becomes(a, i, "nomarshal") /\ NoFault /\ UNCHANGED net
       \/ /\ out[<<a, i>>] = "ready" /\ Ev(i).kind = "huge"
          /\ Becomes(a, i, "toolarge") /\ NoFault /\ UNCHANGED net
       \/ /\ out[<<a, i>>] = "ready" /\ Ev(i).kind = "plain"
          /\ Becomes(a, i, "unavailable") /\ Fault /\ UNCHANGED net
       \/ /\ out[<<a, i>>] = "ready" /\ Ev(i).kind = "plain"
          /\ Becomes(a, i, "flight")
          /\ net' = [net EXCEPT ![<<a, i>>] = "wire"]
          /\ NoFault
    /\ UNCHANGED <<payload, device, cur, code, wal, window, forgot, blobs>>

\* Variant: no bound on the wait for an ack that never comes.
AwaitAckForever(a, i) ==
    \/ net[<<a, i>>] = "acked" /\ Becomes(a, i, "stored") /\ NoFault
    \/ net[<<a, i>>] = "refused" /\ Becomes(a, i, "unavailable") /\ NoFault

\* awaitAck: the ack, the refusal, or the end of the wait.
AwaitAck(a, i) ==
    \/ net[<<a, i>>] = "acked" /\ Becomes(a, i, "stored") /\ NoFault
    \/ net[<<a, i>>] = "refused" /\ Becomes(a, i, "unavailable") /\ NoFault
    \/ /\ Becomes(a, i, "unavailable")
       /\ IF net[<<a, i>>] = "gone" \/ HungUp(a) THEN NoFault ELSE Fault

Await(a) ==
    LET i == next[a] IN
    /\ Loop(a, "await", "answer")
    /\ \/ out[<<a, i>>] # "flight" /\ NoFault /\ UNCHANGED out
       \/ out[<<a, i>>] = "flight" /\ AwaitAck(a, i)
    /\ UNCHANGED <<payload, device, cur, code, net, wal, window, forgot, blobs>>

Has(a, result) == \E i \in 1..N : out[<<a, i>>] = result
Failed(a, i) == out[<<a, i>>] \in {"toolarge", "unavailable", "nomarshal"}

\* Variant: the errors are joined, so that writeError's precedence picks the 413.
JoinedOutcome(a, i) ==
    /\ Failed(a, i)
    /\ out[<<a, i>>] # "toolarge" => ~Has(a, "toolarge")

\* PublishBatch returns the error of the lowest failing index.
Outcome(a, i) ==
    /\ Failed(a, i)
    /\ \A j \in 1..(i - 1) : ~Failed(a, j)

\* writeError's class of a publish error; a marshal fault is a plain error.
Status(result) ==
    CASE result = "toolarge" -> 413
      [] result = "unavailable" -> 503
      [] result = "nomarshal" -> 500

\* What the handler answers: a publish error first, then a failed split, then a
\* fingerprint that did not validate.
Answer(a) ==
    /\ pc[a] = "answer"
    /\ \/ \E i \in 1..N : Outcome(a, i) /\ Reply(a, Status(out[<<a, i>>]))
       \/ /\ \A i \in 1..N : ~Failed(a, i)
          /\ \/ Has(a, "nosplit") /\ Reply(a, 500)
             \/ ~Has(a, "nosplit") /\ Has(a, "invalid") /\ Reply(a, 400)
             \/ ~Has(a, "nosplit") /\ ~Has(a, "invalid") /\ Reply(a, 200)
    /\ NoFault
    /\ UNCHANGED <<payload, device, cur, next, out, net, wal, window, forgot, blobs>>

-----------------------------------------------------------------------------
(***************************************************************************)
(* The stream.                                                             *)
(***************************************************************************)

\* Variant: the id covers what changes from attempt to attempt.
MsgIDPerAttempt(a, i) == <<a, i>>

\* The dedup id: the header's key.  An id or time the device left out was filled
\* in afresh by ValidateHeadersAndSetDefaults on this attempt.
MsgID(a, i) == IF Ev(i).own THEN <<0, i>> ELSE <<a, i>>

\* The stream stores a message, drops a duplicate with an ack, or refuses one it
\* has no room for (DiscardNew).
Deliver(a, i) ==
    /\ net[<<a, i>>] = "wire"
    /\ \/ /\ MsgID(a, i) \in window
          /\ net' = [net EXCEPT ![<<a, i>>] = "acked"]
          /\ NoFault /\ UNCHANGED <<wal, window>>
       \/ /\ MsgID(a, i) \notin window
          /\ net' = [net EXCEPT ![<<a, i>>] = "acked"]
          /\ wal' = wal \cup {<<a, i>>}
          /\ window' = window \cup {MsgID(a, i)}
          /\ NoFault
       \/ /\ MsgID(a, i) \notin window
          /\ net' = [net EXCEPT ![<<a, i>>] = "refused"]
          /\ Fault /\ UNCHANGED <<wal, window>>
    /\ UNCHANGED <<payload, device, cur, pc, next, out, code, forgot, blobs>>

\* A message, or the ack of one, is lost.
Lose(a, i) ==
    /\ \/ net[<<a, i>>] = "wire"
       \/ net[<<a, i>>] = "acked" /\ out[<<a, i>>] = "flight"
    /\ net' = [net EXCEPT ![<<a, i>>] = "gone"]
    /\ Fault
    /\ UNCHANGED <<payload, device, cur, pc, next, out, code, wal, window, forgot, blobs>>

\* The duplicate window of an id lapses.
Forget(a, i) ==
    /\ MsgID(a, i) \in window
    /\ window' = window \ {MsgID(a, i)}
    /\ forgot' = [forgot EXCEPT ![i] = @ + 1]
    /\ Fault
    /\ UNCHANGED <<payload, device, cur, pc, next, out, code, net, wal, blobs>>

-----------------------------------------------------------------------------
(***************************************************************************)
(* The device and the process.                                             *)
(***************************************************************************)

Send ==
    /\ device = "ready"
    /\ cur < MaxFaults + 1
    /\ cur' = cur + 1
    /\ device' = "waiting"
    /\ pc' = [pc EXCEPT ![cur + 1] = "parse"]
    /\ UNCHANGED <<payload, next, out, code, net, wal, window, forgot, blobs, faults>>

\* 200 is done, 400 and 413 are final, 500 and 503 are worth another attempt, as
\* is a connection that broke.
Hear ==
    /\ device = "waiting"
    /\ \/ pc[cur] = "done" /\ code[cur] = 200 /\ device' = "accepted"
       \/ pc[cur] = "done" /\ code[cur] \in {400, 413} /\ device' = "refused"
       \/ pc[cur] = "done" /\ code[cur] \in {500, 503} /\ device' = "ready"
       \/ pc[cur] = "dead" /\ device' = "ready"
    /\ UNCHANGED <<payload, cur, pc, next, out, code, net, wal, window, forgot, blobs, faults>>

\* The device stops waiting, or never sees the answer.
GiveUp ==
    /\ device = "waiting"
    /\ device' = "ready"
    /\ Fault
    /\ UNCHANGED <<payload, cur, pc, next, out, code, net, wal, window, forgot, blobs>>

Running(a) == pc[a] \notin {"idle", "done", "dead"}

\* The process dies with every handler it was running.
Crash ==
    /\ \E a \in Attempts : Running(a)
    /\ pc' = [a \in Attempts |-> IF Running(a) THEN "dead" ELSE pc[a]]
    /\ Fault
    /\ UNCHANGED <<payload, device, cur, next, out, code, net, wal, window, forgot, blobs>>

Handler(a) == Convert(a) \/ Parse(a) \/ Split(a) \/ Submit(a) \/ Await(a) \/ Answer(a)

Next ==
    \/ \E a \in Attempts : Handler(a)
    \/ \E a \in Attempts, i \in 1..N : Deliver(a, i) \/ Lose(a, i) \/ Forget(a, i)
    \/ Send \/ Hear \/ GiveUp \/ Crash

Spec == Init /\ [][Next]_vars

\* The handler goroutines, the stream and the device each keep moving; the waits
\* of the code are bounded (publishAckTimeout, erc1271CallTimeout).
Fairness ==
    /\ \A a \in Attempts : WF_vars(Handler(a))
    /\ \A m \in Pairs : WF_vars(m[2] <= N /\ Deliver(m[1], m[2]))
    /\ WF_vars(Send) /\ WF_vars(Hear)

-----------------------------------------------------------------------------
(***************************************************************************)
(* What the ingest path promises.                                          *)
(***************************************************************************)

\* Event i is in the stream under the id attempt a gave it, with its blob.
Kept(a, i) ==
    \E b \in Attempts : /\ <<b, i>> \in wal
                        /\ MsgID(b, i) = MsgID(a, i)
                        /\ payload.blob => <<b, i>> \in blobs

\* A payload the converter or the verifier lets through.
Admitted ==
    /\ payload.body = "ok"
    /\ payload.path = "attestation" => /\ payload.signer \in {"eoa", "contract"}
                                       /\ payload.tombstone # "bad"

\* Attempt a never came to publishing event i.
Withheld(a, i) == out[<<a, i>>] \in {"new", "nosplit", "dropped", "invalid"}

\* A 200 (handler.go:122) is sent only once every event but a fingerprint with a
\* bad VIN is in the WAL, its blob readable.  A 500 leaves out only events whose
\* split failed or that did not validate, their siblings are in the WAL; but what
\* stands behind an event that cannot be marshaled may be missing, whatever became
\* of it (PublishBatch answers for the lowest failing index).
AnswerIsTrue ==
    \A a \in Attempts :
        /\ code[a] = 200 => \A i \in 1..N : Ev(i).kind = "badVIN" \/ Kept(a, i)
        /\ code[a] = 500 => \E k \in 1..(N + 1) :
                              /\ k <= N => Ev(k).kind = "unmarshalable"
                              /\ \A i \in 1..(k - 1) : Withheld(a, i) \/ Kept(a, i)

\* A status a device does not retry (400, 413) is never the result of a passing
\* fault: the payload would be refused again, and what it carries of good events
\* (before the oversized one, for a 413) is in the WAL.
PermanentIsEarned ==
    \A a \in Attempts :
        /\ code[a] = 400 => \/ ~Admitted
                            \/ /\ \E i \in 1..N : Ev(i).kind = "garbled"
                               /\ \A i \in 1..N : Ev(i).kind = "plain" => Kept(a, i)
        /\ code[a] = 413 => \/ payload.body = "oversize"
                            \/ \E i \in 1..N :
                                  /\ Ev(i).kind = "huge"
                                  /\ \A j \in 1..(i - 1) : Ev(j).kind = "plain" => Kept(a, j)

Copies(i) == {m \in wal : m[2] = i}

\* However often the device retries, and however late the messages of abandoned
\* attempts arrive, an event with an id of its own is stored once per lapse of
\* the duplicate window (subjects.go:78-81).
StoredOncePerWindow ==
    \A i \in 1..N : Ev(i).own => Cardinality(Copies(i)) <= 1 + forgot[i]

\* A payload every attempt of which may be answered 500: the ERC-1271 call fails
\* each time, data_base64 over the threshold does not decode, or an event cannot
\* be marshaled.
Hopeless ==
    \/ payload.path = "attestation" /\ payload.signer = "uncallable"
    \/ payload.blob /\ ~payload.base64
    \/ \E i \in 1..N : Ev(i).kind = "unmarshalable"

\* Once the faults stop, the device gets a final answer, accepted or refused for
\* good, unless its payload is one the code answers 500 for ever.
DeviceServed == ~Hopeless => <>(device \in {"accepted", "refused"})

=============================================================================
