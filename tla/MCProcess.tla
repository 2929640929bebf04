------------------------------ MODULE MCProcess ------------------------------
(***************************************************************************)
(* A tick is a quarter of an hour, the ceiling four hours, and a kinit may *)
(* take two ticks; one environment per mode and one that Load refuses.     *)
(***************************************************************************)
EXTENDS Process

TGT(life) == [tgt |-> TRUE, life |-> life]
Ticket(life) == [tgt |-> FALSE, life |-> life]
Readable(entries) == [entries |-> entries, readable |-> TRUE]
Unreadable(entries) == [entries |-> entries, readable |-> FALSE]

MCFirstGrants == {Readable({TGT(40)}), Unreadable({TGT(19)})}

\* A first ticket shorter than the ceiling.
ShortGrants == {Readable({TGT(12)})}

\* Long and short tickets, beside others; tickets of a KDC whose clock is
\* behind, or that last no longer than a tick.
MCGrants == {Readable({TGT(5)}), Readable({TGT(12), Ticket(9)}), Readable({TGT(28), Ticket(1)}),
             Readable({TGT(40), TGT(36)}), Unreadable({TGT(20)})}
            \cup {Readable({TGT(life)}) : life \in {-3, 0, 1}}

Unset == [k \in EnvVars |-> ""]
Servers == <<[kind |-> "fqdn", name |-> "dc.example"]>>
Env(vars) == [vars |-> vars, hosts |-> Servers, zones |-> Servers, filter |-> <<>>]
MCEnvs ==
    {Env([Unset EXCEPT !["KERBEROS_REALM"] = "REALM", !["KERBEROS_PRINCIPAL"] = "svc@REALM",
                       !["AD_PASSWORD"] = "text"]),
     Env([Unset EXCEPT !["AUTH_MODE"] = "hmac-tsig", !["TSIG_KEY_NAME"] = "key",
                       !["TSIG_SECRET"] = "text"]),
     Env([Unset EXCEPT !["AUTH_MODE"] = "insecure"]),
     Env(Unset)}
=============================================================================
