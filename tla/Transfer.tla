------------------------------ MODULE Transfer ------------------------------
(***************************************************************************)
(* One zone transfer (internal/dnsop/axfr.go and the AXFR methods of the   *)
(* two clients): the DNS library's goroutine reads the server's messages   *)
(* and hands them over an unbuffered channel, ParseAXFRStream collects     *)
(* them until the channel is closed and decides whether it has a zone.     *)
(*                                                                         *)
(* A resource record on the wire is [name, type, rdata]: name as it is     *)
(* spelled, rdata [form, value, rest] with the way a host name is written, *)
(* and a TXT string cut into two chunks when rest is not empty.            *)
(*                                                                         *)
(* Orchestrator takes a transfer as one step that delivers AxfrRecords of  *)
(* the zone or fails; AllOrNothing is what justifies that step.            *)
(***************************************************************************)
EXTENDS Dnsop

CONSTANTS
    Words,         \* what names and values are made of
    Modes,         \* RFC2136_AUTH_MODE: "gss-tsig", "hmac-tsig", "insecure"
    Servers,       \* kinds of server: "AD", "keyed", "open"
    Bodies         \* what zones hold between the two SOAs, in transfer order

SOA == [name |-> [form |-> "plain", labels |-> <<>>], type |-> "SOA",
        rdata |-> [form |-> "plain", value |-> <<>>, rest |-> <<>>]]

WireRecord ==
    [name : [form : {"plain", "upper"}, labels : Seq(Words)], type : TransferTypes \cup {"SRV"},
     rdata : [form : {"plain", "upper", "dotted"}, value : Seq(Words), rest : Seq(Words)]]

\* The zone's SOA comes only at the two ends.  Addresses and texts are written
\* in one way, and only texts come in chunks.
ASSUME TransferAssumption ==
    \A b \in Bodies :
        /\ b \in Seq(WireRecord)
        /\ \A i \in DOMAIN b :
            /\ b[i].rdata.form = "plain" \/ b[i].type \in {"CNAME", "MX", "NS", "SRV"}
            /\ b[i].rdata.rest = <<>> \/ b[i].type = "TXT"

VARIABLES
    mode, srv,     \* how this sidecar is configured and whom it talks to
    stream,        \* the whole transfer as the server means to send it
    pos,           \* how many records the library has read
    chan,          \* the envelope the library is waiting to hand over
    lib,           \* the library: "dial", "read", "quit" or "closed"
    parser,        \* the caller: "in", "range" or "returned"
    all, sawError, \* ParseAXFRStream's variables
    result,        \* what AXFR returned
    disturbed      \* history: the network or the server failed

wire == <<mode, srv, stream>>
transferVars == <<wire, pos, chan, lib, parser, all, sawError, result, disturbed>>

Envelope(rrs, err) == [rrs |-> rrs, err |-> err]
NoEnvelope == Envelope(<<>>, FALSE)
RecordsResult(ok, records) == [ok |-> ok, records |-> records]
Failed == RecordsResult(FALSE, {})

TransferInit ==
    /\ mode \in Modes
    /\ srv \in Servers
    /\ stream \in {<<SOA>> \o b \o <<SOA>> : b \in Bodies}
    /\ pos = 0
    /\ chan = NoEnvelope
    /\ lib = "dial"
    /\ parser = "in"
    /\ all = <<>>
    /\ sawError = FALSE
    /\ result = Failed
    /\ disturbed = FALSE

-----------------------------------------------------------------------------
(* The clients *)

\* Mutant of VerifiesReplies: the gss-tsig client sets a provider too.
VerifiesRepliesAlways(m) == m # "insecure"

\* With a TsigProvider the request is signed and every envelope verified.
\* RealClient.AXFR sets none; TSIGClient.sign gives one unless Insecure.
VerifiesReplies(m) == m = "hmac-tsig"

\* AXFR calls the library's In, which dials and sends the request.
AxfrIn ==
    /\ parser = "in"
    /\ \/ lib' = "read" /\ parser' = "range" /\ UNCHANGED disturbed
       \/ lib' = "closed" /\ parser' = "returned" /\ disturbed' = TRUE
    /\ UNCHANGED <<wire, pos, chan, all, sawError, result>>

-----------------------------------------------------------------------------
(* The library and the server (external) *)

\* An AD server answers anybody on its list, unsigned; a keyed server answers
\* signed requests only; an open one answers everybody.  The last two sign
\* their answers to signed requests.
Refuses == srv = "keyed" /\ ~VerifiesReplies(mode)
SignsReplies == srv # "AD"
Unusable == Refuses \/ (VerifiesReplies(mode) /\ ~SignsReplies)

Reading == lib = "read" /\ chan = NoEnvelope /\ pos < Len(stream)

\* The next message: any number of records.
LibMessage ==
    /\ Reading /\ ~Unusable
    /\ \E n \in 1..(Len(stream) - pos) :
        /\ chan' = Envelope(SubSeq(stream, pos + 1, pos + n), FALSE)
        /\ pos' = pos + n
    /\ UNCHANGED <<wire, lib, parser, all, sawError, result, disturbed>>

\* A refusal, or an envelope without the signature asked for.
LibReject ==
    /\ Reading /\ Unusable
    /\ chan' = Envelope(<<>>, TRUE)
    /\ lib' = "quit"
    /\ UNCHANGED <<wire, pos, parser, all, sawError, result, disturbed>>

\* A message is lost: the library reports an error and stops, or goes on.
LibError ==
    /\ Reading
    /\ chan' = Envelope(<<>>, TRUE)
    /\ lib' \in {"read", "quit"}
    /\ pos' \in (pos + 1)..Len(stream)
    /\ disturbed' = TRUE
    /\ UNCHANGED <<wire, parser, all, sawError, result>>

\* The stream ends early and nobody says so.
LibCut ==
    /\ Reading
    /\ lib' = "quit"
    /\ disturbed' = TRUE
    /\ UNCHANGED <<wire, pos, chan, parser, all, sawError, result>>

LibClose ==
    /\ chan = NoEnvelope
    /\ lib = "quit" \/ (lib = "read" /\ pos = Len(stream))
    /\ lib' = "closed"
    /\ UNCHANGED <<wire, pos, chan, parser, all, sawError, result, disturbed>>

-----------------------------------------------------------------------------
(* ParseAXFRStream *)

\* Mutants of ParseEnvelope: a good envelope forgets the error; the first
\* error ends the loop.
ParseEnvelopeForgets ==
    /\ parser = "range" /\ chan # NoEnvelope
    /\ sawError' = chan.err
    /\ all' = all \o chan.rrs
    /\ chan' = NoEnvelope
    /\ UNCHANGED <<wire, pos, lib, parser, result, disturbed>>
ParseEnvelopeReturns ==
    /\ parser = "range" /\ chan # NoEnvelope
    /\ parser' = IF chan.err THEN "returned" ELSE parser
    /\ sawError' = (sawError \/ chan.err)
    /\ all' = all \o chan.rrs
    /\ chan' = NoEnvelope
    /\ UNCHANGED <<wire, pos, lib, result, disturbed>>

\* One turn of the loop; the records of an envelope with an error are dropped.
ParseEnvelope ==
    /\ parser = "range" /\ chan # NoEnvelope
    /\ sawError' = (sawError \/ chan.err)
    /\ all' = IF chan.err THEN all ELSE all \o chan.rrs
    /\ chan' = NoEnvelope
    /\ UNCHANGED <<wire, pos, lib, parser, result, disturbed>>

HostnameTypes == {"CNAME", "MX", "NS"}
Spelled(rdata) == IF rdata.form = "plain" THEN rdata.value ELSE <<rdata.form>> \o rdata.value

\* Names and host name targets lose case and final dot, TXT chunks are joined,
\* addresses stay as they are.
rrToRecord(rr) ==
    [name |-> rr.name.labels, type |-> rr.type,
     value |-> IF rr.type \in HostnameTypes THEN rr.rdata.value
               ELSE IF rr.type = "TXT" THEN rr.rdata.value \o rr.rdata.rest
               ELSE Spelled(rr.rdata)]

IsSOA(rr) == rr.type = "SOA"

Complete(rrs) == Len(rrs) >= 2 /\ IsSOA(rrs[1]) /\ IsSOA(rrs[Len(rrs)])

\* Mutant of ParseEnd: what rrToRecord says of a type is not looked at.
ParseEndAllTypes ==
    /\ parser = "range" /\ lib = "closed" /\ chan = NoEnvelope
    /\ parser' = "returned"
    /\ result' = IF sawError \/ ~Complete(all)
                 THEN Failed
                 ELSE RecordsResult(TRUE, {rrToRecord(all[i]) : i \in 2..(Len(all) - 1)})
    /\ UNCHANGED <<wire, pos, chan, lib, all, sawError, disturbed>>

\* The channel is closed.  The bracketing SOAs and the types that are not
\* supported are left out of the records.
ParseEnd ==
    /\ parser = "range" /\ lib = "closed" /\ chan = NoEnvelope
    /\ parser' = "returned"
    /\ result' = IF sawError \/ ~Complete(all)
                 THEN Failed
                 ELSE RecordsResult(TRUE,
                        {rrToRecord(all[i]) : i \in {i \in DOMAIN all : all[i].type \in TransferTypes}})
    /\ UNCHANGED <<wire, pos, chan, lib, all, sawError, disturbed>>

-----------------------------------------------------------------------------
Library == LibMessage \/ LibReject \/ LibError \/ LibCut \/ LibClose
Caller == AxfrIn \/ ParseEnvelope \/ ParseEnd
Over == parser = "returned" /\ lib = "closed" /\ UNCHANGED transferVars

TransferNext == Library \/ Caller \/ Over

\* Both goroutines go on when they can: dialling and every read have a
\* deadline (AxfrTimeout), so the library always has a message or an error.
TransferSpec ==
    /\ TransferInit /\ [][TransferNext]_transferVars
    /\ WF_transferVars(Library) /\ WF_transferVars(Caller)

-----------------------------------------------------------------------------
(* Properties *)

TransferTypeOK ==
    /\ mode \in Modes /\ srv \in Servers
    /\ pos \in 0..Len(stream)
    /\ lib \in {"dial", "read", "quit", "closed"}
    /\ parser \in {"in", "range", "returned"}
    /\ sawError \in BOOLEAN /\ disturbed \in BOOLEAN /\ result.ok \in BOOLEAN
    /\ \A r \in result.records : r.type \in TransferTypes

\* The zone behind the stream, in the terms of the zone contents.
ZoneContent ==
    {[name |-> stream[i].name.labels, type |-> stream[i].type,
      value |-> stream[i].rdata.value \o stream[i].rdata.rest] : i \in DOMAIN stream}

\* A transfer that ParseAXFRStream calls complete is the zone: wherever the
\* stream is split, cut, or loses a message, a part of a zone never passes for
\* the whole, and what passes says what the zone says.
AllOrNothing ==
    parser = "returned" =>
        \/ ~result.ok /\ result.records = {}
        \/ result.ok /\ result.records = AxfrRecords(ZoneContent)

\* The servers each mode is meant for.
Meant == {<<"gss-tsig", "AD">>, <<"hmac-tsig", "keyed">>, <<"insecure", "open">>}

\* A transfer nobody disturbs succeeds in every mode with the servers that
\* mode is for, from an empty zone up: asking for a signature that AD never
\* gives, or for more than two records, would fail all of them.
CleanTransferSucceeds ==
    parser = "returned" /\ ~disturbed /\ <<mode, srv>> \in Meant => result.ok

\* The caller returns and the library's goroutine ends: neither is left
\* waiting on the channel for the other, after errors too.
TransferEnds == <>[](parser = "returned" /\ lib = "closed")

=============================================================================
