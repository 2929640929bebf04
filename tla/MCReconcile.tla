----------------------------- MODULE MCReconcile -----------------------------
(***************************************************************************)
(* One operator and two zones, one nested in the other.  At the start the  *)
(* outer one holds a record of X, the inner one a marker without a record. *)
(***************************************************************************)
EXTENDS Reconcile

MCWords == DataTypes \cup {"*", "ddo", "wildcard", "example", "dev", "app", "api"}
Example == <<(<<"example">>)>>
Dev == <<(<<"dev">>)>> \o Example
App == <<(<<"app">>)>> \o Example
Api == <<(<<"api">>)>> \o Dev

Target(v) == [kind |-> "plain", value |-> <<v>>]
Bad == [kind |-> "unparsable", value |-> <<"?">>]
Want(name, type, targets) == [name |-> name, type |-> type, targets |-> targets]
Rec(name, type, value) == [name |-> name, type |-> type, value |-> value]
Marker(name, type, owner) == Rec(ownershipNameFor(type, name), "TXT", encodeOwnership(owner))

Found == {Rec(App, "A", <<"1">>), Marker(App, "A", "X")}
Orphan == {Marker(Api, "A", "X")}

BothZones == <<Example, Dev>>
BothContent == [z \in {Example, Dev} |-> IF z = Dev THEN Orphan ELSE Found]

\* Another address for app; nothing, something or nothing sendable for api.
StayGoals ==
    [o \in {"X"} |->
        {{Want(App, "A", {Target("2"), Target("3")})} \cup api :
            api \in {{}, {Want(Api, "A", {Target("1")})}, {Want(Api, "A", {Target("1"), Bad})}}}]

\* Records that come and go.
LeaveGoals ==
    [o \in {"X"} |->
        {{Want(App, "A", {Target("1"), Bad}), Want(Api, "A", {Target("1")})},
         {Want(App, "A", {Target("2")})}, {Want(Api, "A", {Target("2"), Target("3")})}}]

MCHostList == <<"dc1">>
=============================================================================
