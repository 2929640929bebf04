--------------------------- MODULE TransferProofs ---------------------------
(***************************************************************************)
(* AllOrNothing for every zone, every way to split, cut or spoil its       *)
(* transfer, and every authentication mode.                                *)
(*                                                                         *)
(* The invariant behind it: while no error was seen, what the parser has   *)
(* and what the library is handing over are together a prefix of the       *)
(* stream.  The SOA occurs at the two ends only, so a prefix of at least   *)
(* two records that ends in a SOA is the stream.                           *)
(***************************************************************************)
EXTENDS Transfer, SequenceTheorems, TLAPS

RRs == WireRecord \cup {SOA}

\* What Init chooses and nothing changes.
StreamOK ==
    /\ stream \in Seq(RRs) /\ Len(stream) >= 2
    /\ \A i \in DOMAIN stream : IsSOA(stream[i]) <=> i \in {1, Len(stream)}
    /\ \A i \in DOMAIN stream : stream[i].type \in TransferTypes =>
          rrToRecord(stream[i]) =
             [name |-> stream[i].name.labels, type |-> stream[i].type,
              value |-> stream[i].rdata.value \o stream[i].rdata.rest]

\* What was received and is being handed over, until an error is seen.
PrefixSoFar ==
    /\ all \in Seq(RRs) /\ chan.rrs \in Seq(RRs)
    /\ sawError \/ chan.err
       \/ /\ Len(all) + Len(chan.rrs) = pos
          /\ \A i \in 1..Len(all) : all[i] = stream[i]
          /\ \A i \in 1..Len(chan.rrs) : chan.rrs[i] = stream[Len(all) + i]

TransferInv ==
    /\ TransferTypeOK /\ StreamOK /\ PrefixSoFar
    /\ chan = Envelope(chan.rrs, chan.err)
    /\ parser # "returned" => result = Failed
    /\ AllOrNothing

\* A record written in one of the allowed ways is read as what it means.
LEMMA ReadAsMeant ==
    ASSUME NEW rr \in WireRecord, rr.type \in TransferTypes,
           rr.rdata.form = "plain" \/ rr.type \in {"CNAME", "MX", "NS", "SRV"},
           rr.rdata.rest = <<>> \/ rr.type = "TXT"
    PROVE  rrToRecord(rr) = [name |-> rr.name.labels, type |-> rr.type,
                             value |-> rr.rdata.value \o rr.rdata.rest]
<1>1. rr.rdata.value \in Seq(Words)
  BY DEF WireRecord
<1>2. rr.rdata.value \o <<>> = rr.rdata.value
  BY <1>1
<1>3. CASE rr.type = "TXT"
  BY <1>3 DEF rrToRecord, HostnameTypes
<1>4. CASE rr.type \in HostnameTypes
  BY <1>2, <1>4 DEF rrToRecord, HostnameTypes
<1>5. CASE rr.type \in {"A", "AAAA"}
  BY <1>2, <1>5 DEF rrToRecord, HostnameTypes, Spelled
<1> QED BY <1>3, <1>4, <1>5 DEF TransferTypes, HostnameTypes

\* A body between two SOAs is a stream the parser can rely on.
LEMMA InitStream ==
    ASSUME TransferInit PROVE StreamOK
<1>1. PICK b \in Bodies : stream = <<SOA>> \o b \o <<SOA>>
  BY DEF TransferInit
<1> DEFINE n == Len(b)
<1>2. /\ b \in Seq(WireRecord)
      /\ \A i \in DOMAIN b :
            /\ b[i].rdata.form = "plain" \/ b[i].type \in {"CNAME", "MX", "NS", "SRV"}
            /\ b[i].rdata.rest = <<>> \/ b[i].type = "TXT"
  BY TransferAssumption
<1>3. b \in Seq(RRs) /\ <<SOA>> \in Seq(RRs) /\ Len(<<SOA>>) = 1 /\ <<SOA>>[1] = SOA
  <2>1. SOA \in RRs
    BY DEF RRs
  <2>2. b \in Seq(RRs)
    <3>1. Len(b) \in Nat /\ DOMAIN b = 1..Len(b) /\ \A i \in 1..Len(b) : b[i] \in WireRecord
      BY <1>2, LenProperties, ElementOfSeq
    <3>2. b = [i \in 1..Len(b) |-> b[i]]
      BY <1>2, LenProperties
    <3> QED BY <1>2 DEF RRs
  <2> QED BY <2>1, <2>2
<1>4. n \in Nat /\ DOMAIN b = 1..n
  BY <1>2, LenProperties
<1>5. /\ <<SOA>> \o b \in Seq(RRs) /\ Len(<<SOA>> \o b) = 1 + n
      /\ \A i \in 1..(1 + n) : (<<SOA>> \o b)[i] = IF i <= 1 THEN <<SOA>>[i] ELSE b[i - 1]
  <2>1. /\ <<SOA>> \o b \in Seq(RRs) /\ Len(<<SOA>> \o b) = Len(<<SOA>>) + Len(b)
        /\ \A i \in 1..(Len(<<SOA>>) + Len(b)) :
              (<<SOA>> \o b)[i] = IF i <= Len(<<SOA>>) THEN <<SOA>>[i] ELSE b[i - Len(<<SOA>>)]
    BY <1>3, ConcatProperties
  <2> QED BY <1>3, <2>1
<1> DEFINE front == <<SOA>> \o b
<1> HIDE DEF front
<1>6. /\ front \o <<SOA>> \in Seq(RRs) /\ Len(front \o <<SOA>>) = n + 2
      /\ \A i \in 1..(n + 2) : (front \o <<SOA>>)[i] =
            IF i <= n + 1 THEN front[i] ELSE <<SOA>>[i - (n + 1)]
  <2>0. front \in Seq(RRs) /\ Len(front) = 1 + n
    BY <1>5 DEF front
  <2>1. /\ front \o <<SOA>> \in Seq(RRs) /\ Len(front \o <<SOA>>) = Len(front) + Len(<<SOA>>)
        /\ \A i \in 1..(Len(front) + Len(<<SOA>>)) : (front \o <<SOA>>)[i] =
              IF i <= Len(front) THEN front[i] ELSE <<SOA>>[i - Len(front)]
    BY <1>3, <2>0, ConcatProperties
  <2> QED BY <1>3, <1>4, <2>0, <2>1
<1>7. /\ stream \in Seq(RRs) /\ Len(stream) = n + 2 /\ DOMAIN stream = 1..(n + 2)
      /\ stream[1] = SOA /\ stream[n + 2] = SOA
      /\ \A i \in 2..(n + 1) : stream[i] = b[i - 1]
  <2>1. stream = front \o <<SOA>>
    BY <1>1 DEF front
  <2>2. DOMAIN stream = 1..Len(stream)
    BY <2>1, <1>6, LenProperties
  <2>3. \A i \in 1..(1 + n) : front[i] = IF i <= 1 THEN <<SOA>>[i] ELSE b[i - 1]
    BY <1>5 DEF front
  <2>4. /\ stream \in Seq(RRs) /\ Len(stream) = n + 2
        /\ \A i \in 1..(n + 2) : stream[i] = IF i <= n + 1 THEN front[i] ELSE <<SOA>>[i - (n + 1)]
    BY <2>1, <1>6
  <2>5. stream[1] = SOA
    BY <1>3, <1>4, <2>3, <2>4
  <2>6. stream[n + 2] = SOA
    BY <1>3, <1>4, <2>4
  <2>7. \A i \in 2..(n + 1) : stream[i] = b[i - 1]
    BY <1>4, <2>3, <2>4
  <2> QED BY <2>2, <2>4, <2>5, <2>6, <2>7
<1>8. \A i \in 2..(n + 1) : /\ stream[i] \in WireRecord
                            /\ stream[i].rdata.form = "plain" \/ stream[i].type \in {"CNAME", "MX", "NS", "SRV"}
                            /\ stream[i].rdata.rest = <<>> \/ stream[i].type = "TXT"
  <2> SUFFICES ASSUME NEW i \in 2..(n + 1)
               PROVE  /\ b[i - 1] \in WireRecord
                      /\ b[i - 1].rdata.form = "plain" \/ b[i - 1].type \in {"CNAME", "MX", "NS", "SRV"}
                      /\ b[i - 1].rdata.rest = <<>> \/ b[i - 1].type = "TXT"
    BY <1>7
  <2>1. i - 1 \in 1..n
    BY <1>4
  <2> QED BY <1>2, <1>4, <2>1, ElementOfSeq
<1>9. /\ IsSOA(SOA) /\ SOA.type \notin TransferTypes
      /\ \A rr \in WireRecord : ~IsSOA(rr)
  BY DEF IsSOA, SOA, WireRecord, TransferTypes
<1>10. \A i \in DOMAIN stream : IsSOA(stream[i]) <=> i \in {1, Len(stream)}
  <2> SUFFICES ASSUME NEW i \in 1..(n + 2) PROVE IsSOA(stream[i]) <=> i \in {1, n + 2}
    BY <1>7
  <2>1. i = 1 \/ i = n + 2 \/ i \in 2..(n + 1)
    BY <1>4
  <2>2. CASE i \in 2..(n + 1)
    BY <1>4, <1>8, <1>9, <2>2
  <2> QED BY <1>7, <1>9, <2>1, <2>2
<1>11. ASSUME NEW i \in DOMAIN stream, stream[i].type \in TransferTypes
       PROVE  rrToRecord(stream[i]) =
                [name |-> stream[i].name.labels, type |-> stream[i].type,
                 value |-> stream[i].rdata.value \o stream[i].rdata.rest]
  <2>1. i \in 1..(n + 2)
    BY <1>7
  <2>2. i \in 2..(n + 1)
    BY <1>4, <1>7, <1>9, <1>11, <2>1
  <2> QED BY <1>8, <1>11, <2>2, ReadAsMeant
<1>12. stream \in Seq(RRs) /\ Len(stream) >= 2
  BY <1>4, <1>7
<1> QED BY <1>10, <1>11, <1>12, Zenon DEF StreamOK

\* The initial state satisfies the invariant.
LEMMA InitTransferInv == TransferInit => TransferInv
<1> SUFFICES ASSUME TransferInit PROVE TransferInv
  OBVIOUS
<1>1. StreamOK
  BY InitStream
<1>2. TransferTypeOK
  <2>1. pos \in 0..Len(stream)
    BY <1>1 DEF TransferInit, StreamOK
  <2>2. result.ok \in BOOLEAN /\ \A r \in result.records : r.type \in TransferTypes
    BY DEF TransferInit, Failed, RecordsResult
  <2> QED BY <2>1, <2>2, Zenon DEF TransferInit, TransferTypeOK
<1>3. PrefixSoFar
  <2>1. all = <<>> /\ chan.rrs = <<>> /\ pos = 0
    BY DEF TransferInit, NoEnvelope, Envelope
  <2> QED BY <2>1 DEF PrefixSoFar
<1> QED BY <1>1, <1>2, <1>3
        DEF TransferInit, TransferInv, NoEnvelope, Envelope, AllOrNothing

\* Steps that leave the library's and the parser's data alone.
LEMMA ControlStep ==
    ASSUME TransferInv, UNCHANGED <<wire, pos, chan, all, sawError>>,
           \/ UNCHANGED <<parser, result>>
           \/ result = Failed /\ UNCHANGED result,
           lib' \in {"dial", "read", "quit", "closed"}, parser' \in {"in", "range", "returned"},
           disturbed' \in BOOLEAN
    PROVE  TransferInv'
<1>1. StreamOK' /\ PrefixSoFar' /\ (chan = Envelope(chan.rrs, chan.err))'
  BY DEF TransferInv, StreamOK, PrefixSoFar, wire, Envelope
<1>2. TransferTypeOK'
  BY Zenon DEF TransferInv, TransferTypeOK, wire
<1>3. (parser # "returned" => result = Failed)'
  BY DEF TransferInv
<1>4. AllOrNothing'
  <2>1. CASE UNCHANGED <<parser, result>>
    BY <2>1 DEF TransferInv, AllOrNothing, ZoneContent, wire
  <2>2. CASE result = Failed /\ UNCHANGED result
    BY <2>2 DEF AllOrNothing, Failed, RecordsResult
  <2> QED BY <2>1, <2>2
<1> QED BY <1>1, <1>2, <1>3, <1>4 DEF TransferInv

\* The library moves an envelope into the channel.
LEMMA LibraryStep ==
    ASSUME TransferInv, Reading, UNCHANGED <<wire, parser, all, sawError, result>>,
           lib' \in {"dial", "read", "quit", "closed"}, disturbed' \in BOOLEAN,
           pos' \in 0..Len(stream), chan' = Envelope(chan'.rrs, chan'.err),
           chan'.rrs \in Seq(RRs), PrefixSoFar'
    PROVE  TransferInv'
<1>1. StreamOK'
  BY DEF TransferInv, StreamOK, wire
<1>2. TransferTypeOK'
  BY Zenon DEF TransferInv, TransferTypeOK, wire
<1>3. (parser # "returned" => result = Failed)' /\ AllOrNothing'
  BY DEF TransferInv, AllOrNothing, ZoneContent, wire
<1> QED BY <1>1, <1>2, <1>3, Zenon DEF TransferInv

\* Nothing has been read wrongly yet when the library looks for a message.
LEMMA EmptyChannel ==
    ASSUME TransferInv, chan = NoEnvelope
    PROVE  /\ chan.rrs = <<>> /\ chan.err = FALSE
           /\ all \in Seq(RRs) /\ Len(all) \in Nat
           /\ sawError \/ (Len(all) = pos /\ \A i \in 1..Len(all) : all[i] = stream[i])
<1>1. chan.rrs = <<>> /\ chan.err = FALSE
  BY DEF NoEnvelope, Envelope
<1>2. Len(chan.rrs) = 0
  BY <1>1
<1>3. all \in Seq(RRs) /\ Len(all) \in Nat
  BY LenProperties DEF TransferInv, PrefixSoFar
<1> QED BY <1>1, <1>2, <1>3 DEF TransferInv, PrefixSoFar

\* A message keeps the prefix.
LEMMA MessageInv == TransferInv /\ LibMessage => TransferInv'
<1> SUFFICES ASSUME TransferInv, LibMessage PROVE TransferInv'
  OBVIOUS
<1>1. PICK n \in 1..(Len(stream) - pos) :
        /\ chan' = Envelope(SubSeq(stream, pos + 1, pos + n), FALSE)
        /\ pos' = pos + n
  BY DEF LibMessage
<1>2. stream \in Seq(RRs) /\ Len(stream) \in Nat /\ pos \in 0..Len(stream)
  BY LenProperties DEF TransferInv, StreamOK, TransferTypeOK
<1>3. n \in Nat /\ n >= 1 /\ pos + n <= Len(stream) /\ pos \in Nat
  BY <1>1, <1>2
<1> DEFINE msg == SubSeq(stream, pos + 1, pos + n)
<1>4. /\ msg \in Seq(RRs) /\ Len(msg) = n
      /\ \A i \in 1..n : msg[i] = stream[pos + i]
  <2>1. pos + 1 \in 1..(Len(stream) + 1) /\ pos + n \in pos..Len(stream)
    BY <1>2, <1>3
  <2>2. msg \in Seq(RRs) /\ Len(msg) = n
    BY <1>2, <1>3, <2>1
  <2>3. \A i \in 1..n : msg[i] = stream[pos + i]
    BY <1>2, <1>3, <2>1
  <2> QED BY <2>2, <2>3
<1>5. chan'.rrs = msg /\ chan'.err = FALSE
  BY <1>1 DEF Envelope
<1>6. /\ all \in Seq(RRs) /\ Len(all) \in Nat
      /\ sawError \/ (Len(all) = pos /\ \A i \in 1..Len(all) : all[i] = stream[i])
  BY EmptyChannel DEF LibMessage, Reading
<1> HIDE DEF msg
<1>7. PrefixSoFar'
  <2>1. all' = all /\ sawError' = sawError /\ stream' = stream
    BY DEF LibMessage, wire
  <2>2. CASE sawError
    BY <1>4, <1>5, <1>6, <2>1, <2>2 DEF PrefixSoFar
  <2>3. CASE ~sawError
    BY <1>1, <1>3, <1>4, <1>5, <1>6, <2>1, <2>3 DEF PrefixSoFar
  <2> QED BY <2>2, <2>3
<1>8. /\ pos' \in 0..Len(stream) /\ chan'.rrs \in Seq(RRs)
      /\ chan' = Envelope(chan'.rrs, chan'.err)
  <2>1. pos' \in 0..Len(stream)
    BY <1>1, <1>2, <1>3
  <2>2. chan' = Envelope(msg, FALSE)
    BY <1>1 DEF msg
  <2> QED BY <1>4, <1>5, <2>1, <2>2
<1>9. /\ Reading /\ UNCHANGED <<wire, parser, all, sawError, result>>
      /\ lib' \in {"dial", "read", "quit", "closed"} /\ disturbed' \in BOOLEAN
  BY Zenon DEF LibMessage, TransferInv, TransferTypeOK
<1> QED BY <1>7, <1>8, <1>9, LibraryStep

\* An error in the channel leaves nothing to keep.
LEMMA ErrorInv == TransferInv /\ (LibReject \/ LibError) => TransferInv'
<1> SUFFICES ASSUME TransferInv, LibReject \/ LibError PROVE TransferInv'
  OBVIOUS
<1>1. chan' = Envelope(<<>>, TRUE) /\ UNCHANGED <<wire, parser, all, sawError, result>> /\ Reading
  BY DEF LibReject, LibError
<1>2. chan'.rrs = <<>> /\ chan'.err = TRUE
  BY <1>1 DEF Envelope
<1>3. chan'.rrs \in Seq(RRs) /\ chan' = Envelope(chan'.rrs, chan'.err) /\ PrefixSoFar'
  <2>1. chan'.rrs \in Seq(RRs)
    BY <1>2
  <2>2. all' \in Seq(RRs)
    BY <1>1, Zenon DEF TransferInv, PrefixSoFar
  <2>3. PrefixSoFar'
    BY <1>2, <2>1, <2>2, Zenon DEF PrefixSoFar
  <2> QED BY <1>1, <1>2, <2>1, <2>3
<1>4. pos' \in 0..Len(stream)
  <2>1. pos \in 0..Len(stream) /\ Len(stream) \in Nat
    BY LenProperties DEF TransferInv, TransferTypeOK, StreamOK
  <2>2. pos' = pos \/ pos' \in (pos + 1)..Len(stream)
    BY DEF LibReject, LibError
  <2> QED BY <2>1, <2>2
<1>5. lib' \in {"dial", "read", "quit", "closed"} /\ disturbed' \in BOOLEAN
  BY Zenon DEF LibReject, LibError, TransferInv, TransferTypeOK
<1> QED BY <1>1, <1>2, <1>3, <1>4, <1>5, LibraryStep

\* Taking an envelope moves the boundary, not the prefix.
LEMMA ParseEnvelopeInv == TransferInv /\ ParseEnvelope => TransferInv'
<1> SUFFICES ASSUME TransferInv, ParseEnvelope PROVE TransferInv'
  OBVIOUS
<1>1. /\ chan'.rrs = <<>> /\ chan'.err = FALSE /\ (chan = Envelope(chan.rrs, chan.err))'
      /\ UNCHANGED <<wire, pos, lib, parser, result, disturbed>>
  BY DEF ParseEnvelope, NoEnvelope, Envelope
<1>2. /\ all \in Seq(RRs) /\ chan.rrs \in Seq(RRs)
      /\ Len(all) \in Nat /\ Len(chan.rrs) \in Nat
  BY LenProperties DEF TransferInv, PrefixSoFar
<1>3. PrefixSoFar'
  <2>1. CASE sawError \/ chan.err
    <3>1. sawError'
      BY <2>1 DEF ParseEnvelope
    <3>2. all' \in Seq(RRs)
      BY <1>2, ConcatProperties DEF ParseEnvelope
    <3> QED BY <1>1, <3>1, <3>2 DEF PrefixSoFar
  <2>2. CASE ~(sawError \/ chan.err)
    <3>1. all' = all \o chan.rrs
      BY <2>2 DEF ParseEnvelope
    <3>2. /\ all' \in Seq(RRs) /\ Len(all') = Len(all) + Len(chan.rrs)
          /\ \A i \in 1..(Len(all) + Len(chan.rrs)) :
                all'[i] = IF i <= Len(all) THEN all[i] ELSE chan.rrs[i - Len(all)]
      BY <1>2, <3>1, ConcatProperties
    <3>3. /\ Len(all) + Len(chan.rrs) = pos
          /\ \A i \in 1..Len(all) : all[i] = stream[i]
          /\ \A i \in 1..Len(chan.rrs) : chan.rrs[i] = stream[Len(all) + i]
      BY <2>2 DEF TransferInv, PrefixSoFar
    <3>4. \A i \in 1..Len(all') : all'[i] = stream[i]
      <4> SUFFICES ASSUME NEW i \in 1..(Len(all) + Len(chan.rrs)) PROVE all'[i] = stream[i]
        BY <3>2
      <4>1. CASE i <= Len(all)
        BY <1>2, <3>2, <3>3, <4>1
      <4>2. CASE ~(i <= Len(all))
        <5>1. i - Len(all) \in 1..Len(chan.rrs) /\ Len(all) + (i - Len(all)) = i
          BY <1>2, <4>2
        <5> QED BY <3>2, <3>3, <4>2, <5>1
      <4> QED BY <4>1, <4>2
    <3>5. Len(chan'.rrs) = 0
      BY <1>1
    <3>6. chan'.rrs \in Seq(RRs) /\ pos' = pos /\ stream' = stream /\ Len(all') + 0 = Len(all')
      BY <1>1, <1>2, <3>2 DEF wire
    <3> QED BY <3>2, <3>3, <3>4, <3>5, <3>6 DEF PrefixSoFar
  <2> QED BY <2>1, <2>2
<1>4. StreamOK'
  BY <1>1 DEF TransferInv, StreamOK, wire
<1>5. TransferTypeOK'
  <2>1. sawError' \in BOOLEAN
    BY Zenon DEF ParseEnvelope
  <2> QED BY <1>1, <2>1, Zenon DEF TransferInv, TransferTypeOK, wire
<1>6. (parser # "returned" => result = Failed)' /\ AllOrNothing'
  BY <1>1 DEF TransferInv, AllOrNothing, ZoneContent, wire
<1> QED BY <1>1, <1>3, <1>4, <1>5, <1>6, Zenon DEF TransferInv

\* What the parser calls complete is the whole stream.
LEMMA CompleteIsWhole ==
    ASSUME TransferInv, chan = NoEnvelope, ~sawError, Complete(all)
    PROVE  all = stream
<1>1. /\ all \in Seq(RRs) /\ Len(all) \in Nat /\ Len(all) = pos
      /\ \A i \in 1..Len(all) : all[i] = stream[i]
  BY EmptyChannel
<1>2. stream \in Seq(RRs) /\ Len(stream) \in Nat /\ DOMAIN stream = 1..Len(stream) /\ pos \in 0..Len(stream)
  BY LenProperties DEF TransferInv, StreamOK, TransferTypeOK
<1>3. Len(all) >= 2 /\ IsSOA(stream[Len(all)]) /\ Len(all) \in DOMAIN stream
  BY <1>1, <1>2 DEF Complete
<1>4. Len(all) = Len(stream)
  <2>1. \A i \in DOMAIN stream : IsSOA(stream[i]) <=> i \in {1, Len(stream)}
    BY Zenon DEF TransferInv, StreamOK
  <2>2. Len(all) \in {1, Len(stream)}
    BY <1>3, <2>1, Zenon
  <2> QED BY <1>1, <1>3, <2>2
<1> QED BY <1>1, <1>2, <1>4, SeqEqual

\* The result of a complete stream is the zone.
LEMMA ParseEndInv == TransferInv /\ ParseEnd => TransferInv'
<1> SUFFICES ASSUME TransferInv, ParseEnd PROVE TransferInv'
  OBVIOUS
<1>1. /\ parser' = "returned" /\ UNCHANGED <<wire, pos, chan, lib, all, sawError, disturbed>>
      /\ chan = NoEnvelope
  BY DEF ParseEnd
<1>2. CASE sawError \/ ~Complete(all)
  <2>1. result = Failed /\ result' = Failed
    BY <1>2 DEF ParseEnd, TransferInv
  <2>2. lib' \in {"dial", "read", "quit", "closed"} /\ disturbed' \in BOOLEAN
    BY <1>1, Zenon DEF TransferInv, TransferTypeOK
  <2> QED BY <1>1, <2>1, <2>2, ControlStep
<1>3. CASE ~(sawError \/ ~Complete(all))
  <2>1. all = stream
    BY <1>1, <1>3, CompleteIsWhole
  <2>2. result' = RecordsResult(TRUE,
           {rrToRecord(stream[i]) : i \in {i \in DOMAIN stream : stream[i].type \in TransferTypes}})
    BY <1>3, <2>1 DEF ParseEnd
  <2>3. {rrToRecord(stream[i]) : i \in {i \in DOMAIN stream : stream[i].type \in TransferTypes}}
        = AxfrRecords(ZoneContent)
    <3> DEFINE M(i) == [name |-> stream[i].name.labels, type |-> stream[i].type,
                        value |-> stream[i].rdata.value \o stream[i].rdata.rest]
    <3>1. \A i \in DOMAIN stream : stream[i].type \in TransferTypes => rrToRecord(stream[i]) = M(i)
      BY DEF TransferInv, StreamOK
    <3>2. \A i \in DOMAIN stream : M(i).type = stream[i].type
      OBVIOUS
    <3>3. ZoneContent = {M(i) : i \in DOMAIN stream}
      BY DEF ZoneContent
    <3> HIDE DEF M
    <3> QED BY <3>1, <3>2, <3>3 DEF AxfrRecords
  <2>4. AllOrNothing'
    <3>1. ZoneContent' = ZoneContent
      BY <1>1 DEF ZoneContent, wire
    <3>2. result'.ok = TRUE /\ result'.records = AxfrRecords(ZoneContent)
      BY <2>2, <2>3 DEF RecordsResult
    <3> QED BY <3>1, <3>2 DEF AllOrNothing, AxfrRecords
  <2>5. StreamOK' /\ PrefixSoFar' /\ (chan = Envelope(chan.rrs, chan.err))'
    BY <1>1 DEF TransferInv, StreamOK, PrefixSoFar, wire, Envelope
  <2>6. TransferTypeOK'
    <3>1. result'.ok \in BOOLEAN /\ \A r \in result'.records : r.type \in TransferTypes
      BY <2>2, <2>3 DEF RecordsResult, AxfrRecords
    <3> QED BY <1>1, <3>1, Zenon DEF TransferInv, TransferTypeOK, wire
  <2> QED BY <1>1, <2>4, <2>5, <2>6 DEF TransferInv
<1> QED BY <1>2, <1>3

\* Every step keeps the invariant.
LEMMA NextTransferInv == TransferInv /\ [TransferNext]_transferVars => TransferInv'
<1> SUFFICES ASSUME TransferInv, [TransferNext]_transferVars PROVE TransferInv'
  OBVIOUS
<1>1. CASE AxfrIn
  <2>1. result = Failed
    BY <1>1 DEF AxfrIn, TransferInv
  <2>2. lib' \in {"dial", "read", "quit", "closed"} /\ parser' \in {"in", "range", "returned"}
        /\ disturbed' \in BOOLEAN
    BY <1>1, Zenon DEF AxfrIn, TransferInv, TransferTypeOK
  <2> QED BY <1>1, <2>1, <2>2, ControlStep DEF AxfrIn
<1>2. CASE LibCut \/ LibClose
  <2>1. lib' \in {"dial", "read", "quit", "closed"} /\ parser' \in {"in", "range", "returned"}
        /\ disturbed' \in BOOLEAN
    BY <1>2, Zenon DEF LibCut, LibClose, TransferInv, TransferTypeOK
  <2> QED BY <1>2, <2>1, ControlStep DEF LibCut, LibClose
<1>3. CASE UNCHANGED transferVars
  <2>1. lib' \in {"dial", "read", "quit", "closed"} /\ parser' \in {"in", "range", "returned"}
        /\ disturbed' \in BOOLEAN
    BY <1>3, Zenon DEF transferVars, TransferInv, TransferTypeOK
  <2> QED BY <1>3, <2>1, ControlStep DEF transferVars
<1> QED
  BY <1>1, <1>2, <1>3, MessageInv, ErrorInv, ParseEnvelopeInv, ParseEndInv
  DEF TransferNext, Library, Caller, Over

\* The parser returns the whole zone or nothing.
THEOREM TransferAllOrNothing == TransferSpec => []AllOrNothing
<1>1. TransferInv => AllOrNothing
  BY DEF TransferInv
<1> QED BY <1>1, InitTransferInv, NextTransferInv, PTL DEF TransferSpec

\* The variables keep their types, and no record of a type outside the
\* supported ones is returned.
THEOREM TransferTypeOKHolds == TransferSpec => []TransferTypeOK
<1>1. TransferInv => TransferTypeOK
  BY DEF TransferInv
<1> QED BY <1>1, InitTransferInv, NextTransferInv, PTL DEF TransferSpec

-----------------------------------------------------------------------------
(* Undisturbed transfers *)

\* A transfer nobody disturbed, with a server the mode is meant for.
Clean == ~disturbed /\ <<mode, srv>> \in Meant

\* It has seen no error and will not, and it only ends at the end.
CleanInv ==
    Clean =>
        /\ sawError = FALSE /\ chan.err = FALSE /\ lib # "quit"
        /\ lib = "closed" => pos = Len(stream)
        /\ parser = "returned" => result.ok

\* Every mode gets along with the servers it is meant for: the request is not
\* refused, and a signature is only asked for where one is given.
LEMMA MeantUsable ==
    ASSUME <<mode, srv>> \in Meant
    PROVE  ~Unusable
BY DEF Meant, Unusable, Refuses, VerifiesReplies, SignsReplies

\* When the library has closed the channel, the parser has the whole stream.
LEMMA ClosedIsComplete ==
    ASSUME TransferInv, chan = NoEnvelope, sawError = FALSE, pos = Len(stream)
    PROVE  Complete(all)
<1>1. /\ all \in Seq(RRs) /\ Len(all) \in Nat
      /\ Len(all) = Len(stream) /\ \A i \in 1..Len(all) : all[i] = stream[i]
  BY EmptyChannel
<1>2. Len(stream) >= 2 /\ DOMAIN stream = 1..Len(stream)
  BY LenProperties DEF TransferInv, StreamOK
<1>3. IsSOA(stream[1]) /\ IsSOA(stream[Len(stream)])
  <2>1. \A i \in DOMAIN stream : IsSOA(stream[i]) <=> i \in {1, Len(stream)}
    BY Zenon DEF TransferInv, StreamOK
  <2>2. 1 \in DOMAIN stream /\ Len(stream) \in DOMAIN stream
    BY <1>1, <1>2
  <2> QED BY <2>1, <2>2
<1>4. all[1] = stream[1] /\ all[Len(all)] = stream[Len(stream)]
  BY <1>1, <1>2
<1> QED BY <1>1, <1>2, <1>3, <1>4 DEF Complete

LEMMA CleanInvInductive ==
    /\ TransferInit => CleanInv
    /\ TransferInv /\ CleanInv /\ [TransferNext]_transferVars => CleanInv'
<1>1. TransferInit => CleanInv
  BY DEF TransferInit, CleanInv, NoEnvelope, Envelope
<1>2. ASSUME TransferInv, CleanInv, [TransferNext]_transferVars PROVE CleanInv'
  <2> SUFFICES ASSUME Clean'
               PROVE  /\ (sawError = FALSE /\ chan.err = FALSE /\ lib # "quit")'
                      /\ (lib = "closed" => pos = Len(stream))'
                      /\ (parser = "returned" => result.ok)'
    BY DEF CleanInv
  <2>1. UNCHANGED wire /\ (disturbed' = disturbed \/ disturbed' = TRUE)
    <3>1. CASE Library
      BY <3>1 DEF Library, LibMessage, LibReject, LibError, LibCut, LibClose
    <3>2. CASE Caller
      BY <3>2 DEF Caller, AxfrIn, ParseEnvelope, ParseEnd
    <3>3. CASE UNCHANGED transferVars
      BY <3>3 DEF transferVars
    <3> QED BY <1>2, <3>1, <3>2, <3>3 DEF TransferNext, Over
  <2>2. Clean
    BY <2>1 DEF Clean, wire
  <2>3. /\ sawError = FALSE /\ chan.err = FALSE /\ lib # "quit"
        /\ lib = "closed" => pos = Len(stream)
        /\ parser = "returned" => result.ok
    BY <1>2, <2>2 DEF CleanInv
  <2>4. ~disturbed' /\ ~Unusable /\ stream' = stream
    BY <2>1, <2>2, MeantUsable DEF Clean, wire
  <2>5. CASE LibMessage
    <3>1. chan'.err = FALSE
      BY <2>5 DEF LibMessage, Envelope
    <3> QED BY <2>3, <2>5, <3>1 DEF LibMessage, Reading
  <2>6. CASE LibReject \/ LibError \/ LibCut
    BY <2>4, <2>6 DEF LibReject, LibError, LibCut
  <2>7. CASE LibClose
    BY <2>3, <2>4, <2>7 DEF LibClose
  <2>8. CASE AxfrIn
    BY <2>3, <2>4, <2>8 DEF AxfrIn
  <2>9. CASE ParseEnvelope
    <3>1. chan'.err = FALSE
      BY <2>9 DEF ParseEnvelope, NoEnvelope, Envelope
    <3>2. sawError' = FALSE
      BY <2>3, <2>9 DEF ParseEnvelope
    <3> QED BY <2>3, <2>4, <2>9, <3>1, <3>2 DEF ParseEnvelope
  <2>10. CASE ParseEnd
    <3>1. Complete(all)
      BY <1>2, <2>3, <2>10, ClosedIsComplete DEF ParseEnd
    <3>2. result'.ok
      BY <2>3, <2>10, <3>1 DEF ParseEnd, RecordsResult
    <3> QED BY <2>3, <2>4, <2>10, <3>2 DEF ParseEnd
  <2>11. CASE UNCHANGED transferVars
    BY <2>3, <2>11 DEF transferVars, wire
  <2> QED BY <1>2, <2>5, <2>6, <2>7, <2>8, <2>9, <2>10, <2>11
          DEF TransferNext, Library, Caller, Over
<1> QED BY <1>1, <1>2

\* A transfer nobody disturbs succeeds in every mode with the servers that mode
\* is for, whatever the zone and however its records are cut into messages.
THEOREM CleanTransferSucceedsHolds == TransferSpec => []CleanTransferSucceeds
<1>1. CleanInv => CleanTransferSucceeds
  BY DEF CleanInv, Clean, CleanTransferSucceeds
<1> QED BY <1>1, InitTransferInv, NextTransferInv, CleanInvInductive, PTL DEF TransferSpec

=============================================================================
