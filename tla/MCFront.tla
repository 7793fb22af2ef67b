------------------------------ MODULE MCFront ------------------------------
(***************************************************************************)
(* Small instances of the parts of Front.                                  *)
(***************************************************************************)
EXTENDS Front

plain == [kind |-> "plain", own |-> TRUE]
fresh == [kind |-> "plain", own |-> FALSE]
badVIN == [kind |-> "badVIN", own |-> TRUE]
garbled == [kind |-> "garbled", own |-> TRUE]
huge == [kind |-> "huge", own |-> TRUE]
unmarshalable == [kind |-> "unmarshalable", own |-> TRUE]

Connection(body, blob, events) ==
    [path |-> "connection", body |-> body, signer |-> "none", tombstone |-> "no",
     blob |-> blob, base64 |-> TRUE, events |-> events]
Attestation(body, signer, tombstone, blob, base64) ==
    [path |-> "attestation", body |-> body, signer |-> signer, tombstone |-> tombstone,
     blob |-> blob, base64 |-> base64, events |-> <<plain>>]

MCPayloads ==
    {Connection("ok", FALSE, <<plain, fresh>>), Connection("ok", TRUE, <<plain, badVIN>>),
     Connection("ok", FALSE, <<garbled, plain>>), Connection("ok", FALSE, <<plain, huge>>),
     Connection("ok", FALSE, <<huge, plain>>), Connection("ok", TRUE, <<plain, plain>>),
     Connection("ok", FALSE, <<plain, unmarshalable>>),
     Connection("ok", FALSE, <<unmarshalable, plain>>),
     Connection("invalid", FALSE, <<plain>>), Connection("oversize", FALSE, <<plain>>),
     Attestation("ok", "eoa", "no", FALSE, TRUE), Attestation("ok", "contract", "good", TRUE, TRUE),
     Attestation("ok", "none", "no", FALSE, TRUE), Attestation("ok", "uncallable", "no", FALSE, TRUE),
     Attestation("ok", "eoa", "bad", FALSE, TRUE),
     Attestation("invalid", "eoa", "no", FALSE, TRUE), Attestation("ok", "eoa", "no", TRUE, FALSE)}

\* One raw message with two decoded names, one that decodes to nothing.
MCNames == [m |-> {"x", "y"}, n |-> {}]

\* What is not in focus starts in one way only.
MCInit ==
    /\ FrontInit
    /\ focus # "ingest" => payload = Connection("ok", FALSE, <<plain, fresh>>)
    /\ focus # "layout" => count = 1

MCSpec == MCInit /\ [][FrontNext]_allVars /\ FrontFairness
============================================================================
