----------------------------- MODULE MCTransfer -----------------------------
(***************************************************************************)
(* Transfers of up to four records, in the spellings a server may use.     *)
(***************************************************************************)
EXTENDS Transfer

MCWords == {"app", "1", "2", "host", "owned-by", "X", "srv", "10 mail", "ns"}
App == [form |-> "upper", labels |-> <<"app">>]
Wire(type, form, value, rest) ==
    [name |-> App, type |-> type, rdata |-> [form |-> form, value |-> value, rest |-> rest]]

WireRecords ==
    {Wire("A", "plain", <<"1">>, <<>>), Wire("CNAME", "dotted", <<"host">>, <<>>),
     Wire("TXT", "plain", <<"owned-by">>, <<"X">>), Wire("SRV", "dotted", <<"srv">>, <<>>)}

MCBodies == {b \in UNION {[1..n -> WireRecords] : n \in 0..3} :
                \A i, j \in DOMAIN b : b[i] = b[j] => i = j}
            \cup {<<Wire("A", "plain", <<"1">>, <<>>), Wire("A", "plain", <<"2">>, <<>>),
                    Wire("MX", "upper", <<"10 mail">>, <<>>), Wire("NS", "dotted", <<"ns">>, <<>>)>>}
=============================================================================
