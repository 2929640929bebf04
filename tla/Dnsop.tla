------------------------------- MODULE Dnsop -------------------------------
(***************************************************************************)
(* The DNS protocol layer (internal/dnsop): what an exchange with a DC     *)
(* returns to the orchestrator, and, as the environment, what a DC does    *)
(* with an RFC 2136 UPDATE.                                                *)
(*                                                                         *)
(* A resource record is [name, type, value]; TTLs are left out, the server *)
(* ignores them when it compares records.  A prerequisite is               *)
(* [kind, name, type, value] (NoValue for NXRRSET).  The changes of an     *)
(* UPDATE are a sequence of blocks [op, recs]: the records of one block    *)
(* come from one endpoint and their order among themselves has no effect.  *)
(***************************************************************************)
EXTENDS Integers, Sequences, FiniteSets

NoValue == <<"none">>

\* The rdata of a target that dns.NewRR cannot parse.
MalformedRdata == <<"malformed">>

\* The record types rrToRecord keeps; everything else in a transfer (SRV,
\* RRSIG, ...) is skipped.
TransferTypes == {"A", "AAAA", "CNAME", "MX", "NS", "TXT"}

\* The rcodes a DC can refuse an UPDATE with before it looks at the zone.
RefusalRcodes == {"SERVFAIL", "REFUSED", "NOTAUTH", "NOTZONE", "FORMERR"}

NoResponse == "none"
NoError == "nil"
TSIGErrors == {"badtime", "badsig", "badkey"}

ApplyResult(ok, rcode, retryable) ==
    [ok |-> ok, rcode |-> rcode, retryable |-> retryable]

NoResult == ApplyResult(FALSE, NoResponse, FALSE)

-----------------------------------------------------------------------------
(* What the client makes of an exchange. *)

ClassifyRcode(rcode) == ApplyResult(rcode = "NOERROR", rcode, rcode = "SERVFAIL")

\* Clock skew is worth a retry, a wrong key or signature is not.
classifyTSIGError(err) == ApplyResult(FALSE, NoResponse, err = "badtime")

\* A response counts whether or not its signature could be verified: an
\* unverifiable NOERROR is a success, logged as an unauthenticated write.
classifyExchangeResult(resp, err) ==
    IF resp # NoResponse
    THEN ClassifyRcode(resp)
    ELSE IF err \in TSIGErrors
         THEN classifyTSIGError(err)
         ELSE ApplyResult(FALSE, NoResponse, TRUE)

\* An UPDATE cannot be built when some record's rdata does not parse.
BuildUpdateMsgFails(changes) ==
    \E i \in DOMAIN changes : \E r \in changes[i].recs : r.value = MalformedRdata

BuildFailure == ApplyResult(FALSE, NoResponse, FALSE)

\* What a complete transfer of a zone with content R delivers.
AxfrRecords(R) == {r \in R : r.type \in TransferTypes}

-----------------------------------------------------------------------------
(* The DC (external). *)

RRset(R, name, type) == {r \in R : r.name = name /\ r.type = type}

\* RFC 2136 3.2: NXRRSET wants the RRset absent; the value-dependent YXRRSET
\* wants it to be exactly the values listed for it.
PrereqHolds(R, prereqs, p) ==
    IF p.kind = "NXRRSET"
    THEN RRset(R, p.name, p.type) = {}
    ELSE {r.value : r \in RRset(R, p.name, p.type)} =
         {q.value : q \in {q \in prereqs :
                    q.kind = "YXRRSET" /\ q.name = p.name /\ q.type = p.type}}

PrereqsHold(R, prereqs) == \A p \in prereqs : PrereqHolds(R, prereqs, p)

\* The rcode of a failed prerequisite is named after what was found.
PrereqRcodes(R, prereqs) ==
    {IF p.kind = "NXRRSET" THEN "YXRRSET" ELSE "NXRRSET" :
        p \in {p \in prereqs : ~PrereqHolds(R, prereqs, p)}}

\* A CNAME shares its name with no other type.
CnameClash(r, s) == r.name = s.name /\ (r.type = "CNAME") # (s.type = "CNAME")

\* RFC 2136 3.4.2.2: adding a CNAME beside other data, or other data beside
\* a CNAME, is silently ignored.  First against what the zone held before the
\* UPDATE and still holds when block i is processed ...
StillThere(R, changes, i) ==
    {s \in R : ~\E j \in 1..(i - 1) : changes[j].op = "delete" /\ s \in changes[j].recs}

IgnoredByZone(R, changes, i, r) == \E s \in StillThere(R, changes, i) : CnameClash(r, s)

\* ... and then against what earlier blocks added and nobody deleted since.
AddedBefore(R, changes, i) ==
    UNION {{s \in changes[j].recs :
              /\ changes[j].op = "add" /\ ~IgnoredByZone(R, changes, j, s)
              /\ ~\E k \in (j + 1)..(i - 1) : changes[k].op = "delete" /\ s \in changes[k].recs} :
           j \in 1..(i - 1)}

AddIgnored(R, changes, i, r) ==
    \E s \in StillThere(R, changes, i) \cup AddedBefore(R, changes, i) : CnameClash(r, s)

\* Block i changes whether r is in the zone: it adds or deletes r, or adds
\* another CNAME at r's name, which replaces r.
Affects(R, changes, i, r) ==
    \/ r \in changes[i].recs /\ (changes[i].op = "add" => ~AddIgnored(R, changes, i, r))
    \/ /\ changes[i].op = "add" /\ r.type = "CNAME" /\ r \notin changes[i].recs
       /\ \E s \in RRset(changes[i].recs, r.name, "CNAME") : ~AddIgnored(R, changes, i, s)

\* The zone after the blocks were processed in order: for every record, the
\* last block that affects it decides.
ServerApply(R, changes) ==
    {r \in R \cup UNION {changes[i].recs : i \in DOMAIN changes} :
        LET affecting == {i \in DOMAIN changes : Affects(R, changes, i, r)}
        IN  IF affecting = {}
            THEN r \in R
            ELSE \E i \in affecting :
                    /\ \A k \in affecting : k <= i
                    /\ changes[i].op = "add" /\ r \in changes[i].recs}

=============================================================================
