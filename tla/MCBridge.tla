------------------------------ MODULE MCBridge ------------------------------
(***************************************************************************)
(* Nested zones, a wildcard beside the name it covers, a domain filter, a  *)
(* type the transfer does not show, text and another operator's records.   *)
(***************************************************************************)
EXTENDS Bridge

MCWords == DataTypes \cup {"*", "ddo", "wildcard", "example", "dev", "app", "SRV"}
Example == <<(<<"example">>)>>
Dev == <<(<<"dev">>)>> \o Example
App == <<(<<"app">>)>> \o Dev
Wild == <<Star>> \o Dev
Outside == <<(<<"app">>)>> \o Example

Rec(name, type, value) == [name |-> name, type |-> type, value |-> value]
Marker(name, type, owner) == Rec(ownershipNameFor(type, name), "TXT", encodeOwnership(owner))

Universe ==
    {Rec(Dev, "A", <<"1">>), Marker(Dev, "A", "X"),
     Rec(Wild, "A", <<"1">>), Marker(Wild, "A", "Y"),
     Rec(App, "SRV", <<"srv">>), Rec(App, "TXT", <<"text">>),
     Rec(App, "CNAME", <<"host">>), Marker(App, "CNAME", "Y"), Marker(App, "A", ""),
     Rec(ownershipNameFor("A", Wild), "TXT", <<"text">>),
     Rec(ownershipNameFor("CNAME", App), "CNAME", <<"host">>)}

\* A zone never serves a CNAME beside other data.
MCContents ==
    {S \in SUBSET Universe : \A r, s \in S : ~CnameClash(r, s)}

Good(v) == [kind |-> "plain", value |-> <<v>>]
Dotted(v) == [kind |-> "dotted", value |-> <<v>>]
Blank == [kind |-> "blank", value |-> <<>>]
Ep(name, form, type, targets, owner) ==
    [dnsName |-> [form |-> form, labels |-> name], type |-> type,
     targets |-> targets, owner |-> owner]

MCEndpoints ==
    {Ep(n, "dotted", "A", <<Good("1"), Blank, Good("2")>>, "X") : n \in {Dev, Wild, App}}
    \cup {Ep(Wild, "upper", "AAAA", <<Good("a")>>, "X"), Ep(App, "plain", "CNAME", <<Dotted("other")>>, "X"),
          Ep(Dev, "plain", "MX", <<Good("10 mail"), [kind |-> "misshapen", value |-> <<>>]>>, "X"),
          Ep(App, "plain", "A", <<Good("1")>>, NoOwner), Ep(App, "plain", "SRV", <<Good("1")>>, "X"),
          Ep(Dev, "plain", "AAAA", <<Good("a"), [kind |-> "unparsable", value |-> <<>>]>>, "X"),
          Ep(Outside, "plain", "A", <<Good("1")>>, "X")}

MCOldEndpoints == {Ep(n, "plain", "A", <<Good("1")>>, "X") : n \in {Dev, Wild, App}}

MCZoneList == <<Example, Dev>>
MCDomainFilter == {Dev}
=============================================================================
