---------------------------- MODULE MCOwnership ----------------------------
(***************************************************************************)
(* Two operators, X and Y, and the records app/A and app/CNAME of one      *)
(* zone.                                                                   *)
(***************************************************************************)
EXTENDS Orchestrator, TLC

MCWords == DataTypes \cup {"*", "ddo", "wildcard", "example", "app"}
Example == <<(<<"example">>)>>
App == <<(<<"app">>)>> \o Example

Target(v) == [kind |-> "plain", value |-> <<v>>]
Endpoint(name, type, values, owner) ==
    [dnsName |-> [form |-> "plain", labels |-> name], type |-> type,
     targets |-> [i \in DOMAIN values |-> Target(values[i])], owner |-> owner]

Create(o, e) == [NoRequest EXCEPT !.owner = o, !.create = <<e>>]
Update(o, old, new) == [NoRequest EXCEPT !.owner = o, !.updateOld = <<old>>, !.updateNew = <<new>>]
Remove(o, e) == [NoRequest EXCEPT !.owner = o, !.delete = <<e>>]

AppA(o, v) == Endpoint(App, "A", <<v>>, o)
AppC(o) == Endpoint(App, "CNAME", <<"host">>, o)

MCRequests ==
    {Create("X", AppA("X", "1")), Update("X", AppA("X", "1"), AppA("X", "2")),
     Remove("X", AppA("X", "1")), Create("X", AppC("X")),
     Create("Y", AppA("Y", "2")), Remove("Y", AppA("Y", "2")),
     Create("Y", AppC("Y")), Remove("Y", AppC("Y"))}

MCAdminRecords == {[name |-> App, type |-> "SRV", value |-> <<"srv">>]}
MCZoneList == <<Example>>
MCInitialZone == [z \in {Example} |-> {}]
MCHostList == <<"dc1">>
ThreadSymmetry == Permutations(Threads)
=============================================================================
