----------------------------- MODULE MCFailover -----------------------------
(***************************************************************************)
(* Two DCs, two nested zones, one operator: failover, cooldowns, clients   *)
(* that disconnect and restarts.  One request spans both zones and spells  *)
(* its names in different ways, the other has a record that cannot be sent *)
(* and one that is skipped for its missing label.                          *)
(***************************************************************************)
EXTENDS Orchestrator, TLC

MCWords == DataTypes \cup {"*", "ddo", "wildcard", "example", "dev", "app", "api"}
Example == <<(<<"example">>)>>
Dev == <<(<<"dev">>)>> \o Example
App == <<(<<"app">>)>> \o Example
Api == <<(<<"api">>)>> \o Example
Wild == <<Star>> \o Dev

Target(v) == [kind |-> "plain", value |-> <<v>>]
Spelled(form, name) == [form |-> form, labels |-> name]

BothZones ==
    [NoRequest EXCEPT !.owner = "X", !.create =
        <<[dnsName |-> Spelled("dotted", App), type |-> "A", targets |-> <<Target("1")>>, owner |-> "X"],
          [dnsName |-> Spelled("upper", Wild), type |-> "A", targets |-> <<Target("1")>>, owner |-> "X"]>>]

Unsendable ==
    [NoRequest EXCEPT !.owner = "X", !.create =
        <<[dnsName |-> Spelled("plain", App), type |-> "AAAA",
           targets |-> <<[kind |-> "misshapen", value |-> <<"?">>]>>, owner |-> "X"],
          [dnsName |-> Spelled("plain", Wild), type |-> "A", targets |-> <<Target("1")>>, owner |-> NoOwner]>>]

MCRequests == {BothZones, Unsendable}
MCZoneList == <<Example, Dev>>
MCInitialZone == [z \in {Example, Dev} |-> IF z = Dev THEN {} ELSE
    {[name |-> Api, type |-> "A", value |-> <<"1">>],
     [name |-> ownershipNameFor("A", Api), type |-> "TXT", value |-> encodeOwnership("X")]}]
MCHostList == <<"dc1", "dc2">>
MCOneZone == <<Example>>
MCOneInitialZone == [z \in {Example} |-> {}]
MCOneRequest == {BothZones}
ThreadSymmetry == Permutations(Threads)
=============================================================================
