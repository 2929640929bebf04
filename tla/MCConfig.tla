------------------------------ MODULE MCConfig ------------------------------
(***************************************************************************)
(* Environments: one that is right for its mode, changed in at most two    *)
(* variables and in one of its lists.                                      *)
(***************************************************************************)
EXTENDS Config

Unset == [k \in EnvVars |-> ""]
Name(n) == [kind |-> "fqdn", name |-> n]
Address == [kind |-> "address", name |-> "10.0.0.1"]
Bare == [kind |-> "bare", name |-> "dc01"]
Blank == [kind |-> "blank", name |-> ""]

Right == {
    [Unset EXCEPT !["KERBEROS_REALM"] = "REALM", !["KERBEROS_PRINCIPAL"] = "svc@REALM",
                  !["KEYTAB_FILE"] = "keytab"],
    [Unset EXCEPT !["AUTH_MODE"] = "gss-tsig", !["KERBEROS_REALM"] = "REALM",
                  !["KERBEROS_PRINCIPAL_FILE"] = "principalFile", !["AD_PASSWORD_FILE"] = "textFile"],
    [Unset EXCEPT !["AUTH_MODE"] = "hmac-tsig", !["TSIG_KEY_NAME"] = "key", !["TSIG_SECRET"] = "text"],
    [Unset EXCEPT !["AUTH_MODE"] = "insecure"]}

Paths == {"textFile", "emptyFile", "junkFile", "missing"}
ValuesOf(k) ==
    {""} \cup
    CASE k = "AUTH_MODE" -> AuthModes \cup {"blank", "junk"}
      [] k \in {"KEYTAB_BASE64_FILE", "AD_PASSWORD_FILE", "TSIG_SECRET_FILE"} -> Paths
      [] k = "KEYTAB_BASE64" -> {"text", "blank", "junk", "unwritable"}
      [] k = "KERBEROS_PRINCIPAL_FILE" -> {"principalFile", "emptyFile", "missing"}
      [] k = "KERBEROS_PRINCIPAL" -> {"svc@REALM", "svc"}
      [] k = "TSIG_ALGORITHM" -> {"hmac-sha256", "hmac-sha1", "hmac-md5", "blank"}
      [] k \in {"DRY_RUN", "AXFR_ENABLED"} -> {"true", "false", "junk"}
      [] k \in Numbers \cup {"KINIT_REFRESH_INTERVAL"} -> {"5", "0", "junk", "default"}
      [] OTHER -> {"text", "blank", "junk"}

Changed(vars) == UNION {{[vars EXCEPT ![k] = v] : v \in ValuesOf(k)} : k \in EnvVars}

Lists == {<<>>, <<Blank>>, <<Name("a.example")>>, <<Name("a.example"), Blank, Name("b.example")>>,
          <<Name("a.example"), Name("a.example")>>, <<Name("a.example"), Address>>,
          <<Address>>, <<Name("a.example"), Bare>>}
Good == <<Name("a.example")>>

MCEnvs ==
    [vars : UNION {Changed(vars) : vars \in UNION {Changed(v) : v \in Right}},
     hosts : {Good}, zones : {Good}, filter : {<<>>}]
    \cup [vars : Right, hosts : Lists, zones : Lists \ {<<Address>>, <<Name("a.example"), Address>>},
          filter : Lists]
=============================================================================
