------------------------------- MODULE Config -------------------------------
(***************************************************************************)
(* Reading the environment (internal/config/config.go): which settings     *)
(* Load accepts and what they become.                                      *)
(*                                                                         *)
(* An environment is [vars, hosts, zones, filter].  vars gives every       *)
(* scalar variable a string, "" if it is not set; "blank" stands for white *)
(* space and "junk" for something of the wrong form.  The three lists are  *)
(* sequences of entries [kind, name], where names that differ in case,     *)
(* padding or a final dot are one name; a "blank" entry is only space.     *)
(***************************************************************************)
EXTENDS Integers, Sequences, FiniteSets

CONSTANT Envs      \* the environments the process may be started in

VARIABLES
    env,           \* the environment
    cfg            \* what Load made of it: NotLoaded, NoConfig or a configuration

gssEnvVars ==
    {"KERBEROS_REALM", "KERBEROS_PRINCIPAL", "KERBEROS_PRINCIPAL_FILE", "KEYTAB_FILE",
     "KEYTAB_BASE64", "KEYTAB_BASE64_FILE", "AD_PASSWORD", "AD_PASSWORD_FILE",
     "KRB5_CONF", "KINIT_REFRESH_INTERVAL"}
tsigEnvVars == {"TSIG_KEY_NAME", "TSIG_SECRET", "TSIG_SECRET_FILE", "TSIG_ALGORITHM"}
Numbers ==
    {"AXFR_TIMEOUT_SECONDS", "UPDATE_TIMEOUT_SECONDS", "PORT", "DEFAULT_TTL", "MIN_TTL",
     "CIRCUIT_BREAKER_THRESHOLD"}
EnvVars ==
    gssEnvVars \cup tsigEnvVars \cup Numbers
    \cup {"AUTH_MODE", "DRY_RUN", "AXFR_ENABLED", "WEBHOOK_LISTEN"}

AuthModes == {"gss-tsig", "hmac-tsig", "insecure"}
tsigAlgs == {"hmac-sha1", "hmac-sha224", "hmac-sha256", "hmac-sha384", "hmac-sha512"}
SecretSources ==
    {"KEYTAB_FILE", "KEYTAB_BASE64", "KEYTAB_BASE64_FILE", "AD_PASSWORD", "AD_PASSWORD_FILE"}

\* What the files the settings may name hold, without final newlines; a path
\* that is not here cannot be read.
Files == [textFile |-> "text", emptyFile |-> "", junkFile |-> "junk",
          principalFile |-> "svc@REALM"]

Entry == [kind : STRING, name : STRING]

ASSUME EnvAssumption ==
    Envs \subseteq [vars : [EnvVars -> STRING],
                   hosts : Seq(Entry), zones : Seq(Entry), filter : Seq(Entry)]

Err == "error"

IsSet(e, k) == e.vars[k] # ""
Chosen(e, K) == {k \in K : IsSet(e, k)}

-----------------------------------------------------------------------------
(* The values of single settings *)

envOr(e, k, fallback) == IF IsSet(e, k) THEN e.vars[k] ELSE fallback
readFile(path) == IF path \in DOMAIN Files THEN Files[path] ELSE Err

parseAuthMode(raw) ==
    IF raw \in {"", "blank"} THEN "gss-tsig" ELSE IF raw \in AuthModes THEN raw ELSE Err

\* Numbers and durations: not set, positive, or refused.
parsePositive(e, k) == IF e.vars[k] \in {"blank", "junk", "0"} THEN Err ELSE envOr(e, k, "default")

\* A boolean that does not parse counts as not set.
parseBool(e, k, fallback) == IF e.vars[k] \in {"true", "false"} THEN e.vars[k] ELSE fallback

\* Mutant of envOrFile: the variable wins over the file.
envOrFileFirst(e, k, file) ==
    IF IsSet(e, k) THEN e.vars[k] ELSE IF IsSet(e, file) THEN readFile(e.vars[file]) ELSE ""

envOrFile(e, k, file) ==
    IF IsSet(e, k) /\ IsSet(e, file)
    THEN Err
    ELSE IF IsSet(e, k) THEN e.vars[k] ELSE IF IsSet(e, file) THEN readFile(e.vars[file]) ELSE ""

\* Whether a setting of another mode is there.
rejectForeignEnv(e, mode) ==
    Chosen(e, CASE mode = "gss-tsig" -> tsigEnvVars
                  [] mode = "hmac-tsig" -> gssEnvVars
                  [] mode = "insecure" -> gssEnvVars \cup tsigEnvVars) # {}

-----------------------------------------------------------------------------
(* Credentials *)

\* The temporary file a base64 keytab is decoded into; blanks decode to an
\* empty one.  "unwritable" decodes to what cannot be stored there.
materialiseKeytabFromBase64(b64) == IF b64 \in {"junk", "unwritable", Err} THEN Err ELSE "temporary keytab"

\* At most one source may be set.  A keytab file is not opened here.
resolveAuth(e) ==
    LET Cred(keytab, password) == [keytab |-> keytab, password |-> password]
        v == e.vars
        set == Chosen(e, SecretSources)
    IN  IF Cardinality(set) > 1 THEN Cred(Err, Err)
        ELSE IF set = {} THEN Cred("", "")
        ELSE CASE set = {"KEYTAB_FILE"} -> Cred(v["KEYTAB_FILE"], "")
               [] set = {"KEYTAB_BASE64"} -> Cred(materialiseKeytabFromBase64(v["KEYTAB_BASE64"]), "")
               [] set = {"KEYTAB_BASE64_FILE"} ->
                    Cred(materialiseKeytabFromBase64(readFile(v["KEYTAB_BASE64_FILE"])), "")
               [] set = {"AD_PASSWORD"} -> Cred("", v["AD_PASSWORD"])
               [] set = {"AD_PASSWORD_FILE"} -> Cred("", readFile(v["AD_PASSWORD_FILE"]))

\* Mutant of resolveTSIG: the key name is not trimmed.
resolveTSIGUntrimmed(e) ==
    [name |-> e.vars["TSIG_KEY_NAME"], secret |-> envOrFile(e, "TSIG_SECRET", "TSIG_SECRET_FILE"),
     alg |-> envOr(e, "TSIG_ALGORITHM", "hmac-sha256")]

\* A key name of blanks is no name; the algorithm must be known.
resolveTSIG(e) ==
    LET alg == envOr(e, "TSIG_ALGORITHM", "hmac-sha256")
    IN  [name |-> IF e.vars["TSIG_KEY_NAME"] = "blank" THEN "" ELSE e.vars["TSIG_KEY_NAME"],
         secret |-> envOrFile(e, "TSIG_SECRET", "TSIG_SECRET_FILE"),
         alg |-> IF alg \in tsigAlgs THEN alg ELSE Err]

-----------------------------------------------------------------------------
(* Lists *)

NotBlank(x) == x.kind # "blank"
Kept(list) == {i \in DOMAIN list : NotBlank(list[i])}

\* The names of the entries that are kept, in their order: n comes from the
\* entry that has n - 1 others before it.
SelectNames(list) ==
    LET At(n) == CHOOSE i \in Kept(list) : Cardinality({h \in Kept(list) : h < i}) = n - 1
    IN  [n \in 1..Cardinality(Kept(list)) |-> list[At(n)].name]
Kinds(list) == {list[i].kind : i \in DOMAIN list}

\* Names of one label are refused, addresses only where Kerberos needs a name;
\* <<>> is the error.
parseHosts(list, mode) ==
    IF "bare" \in Kinds(list) \/ ("address" \in Kinds(list) /\ mode = "gss-tsig")
    THEN <<>> ELSE SelectNames(list)

parseZones(list) == IF "bare" \in Kinds(list) THEN <<>> ELSE SelectNames(list)
parseDomainFilter(list) == SelectNames(list)

-----------------------------------------------------------------------------
NoConfig == [ok |-> FALSE]

HasRealm(principal) == principal = "svc@REALM"

\* The contract of each mode.
validate(c) ==
    CASE c.mode = "gss-tsig" ->
            /\ c.realm # "" /\ c.principal # "" /\ HasRealm(c.principal)
            /\ c.keytab # "" \/ c.password # ""
      [] c.mode = "hmac-tsig" -> c.tsig.name # "" /\ c.tsig.secret # ""
      [] c.mode = "insecure" -> TRUE

authMode(e) == parseAuthMode(e.vars["AUTH_MODE"])
credential(e) ==
    IF authMode(e) = "gss-tsig" THEN resolveAuth(e) ELSE [keytab |-> "", password |-> ""]
tsigKey(e) ==
    IF authMode(e) = "hmac-tsig" THEN resolveTSIG(e) ELSE [name |-> "", secret |-> "", alg |-> ""]
Settings(e) ==
    [ok |-> TRUE, mode |-> authMode(e), tsig |-> tsigKey(e),
     realm |-> e.vars["KERBEROS_REALM"],
     principal |-> envOrFile(e, "KERBEROS_PRINCIPAL", "KERBEROS_PRINCIPAL_FILE"),
     keytab |-> credential(e).keytab, password |-> credential(e).password,
     krb5Conf |-> envOr(e, "KRB5_CONF", "default"),
     numbers |-> [k \in Numbers \cup {"KINIT_REFRESH_INTERVAL"} |-> parsePositive(e, k)],
     dryRun |-> parseBool(e, "DRY_RUN", "false"),
     axfrEnabled |-> parseBool(e, "AXFR_ENABLED", "true"),
     listen |-> envOr(e, "WEBHOOK_LISTEN", "default"),
     hosts |-> parseHosts(e.hosts, authMode(e)), zones |-> parseZones(e.zones),
     filter |-> parseDomainFilter(e.filter)]

\* Any error ends Load; the order in which errors are found does not matter,
\* they all end in NoConfig.
Load(e) ==
    LET c == Settings(e)
    IN  IF \/ c.mode = Err \/ rejectForeignEnv(e, c.mode)
           \/ Err \in {c.keytab, c.password, c.tsig.secret, c.tsig.alg, c.principal}
           \/ \E k \in DOMAIN c.numbers : c.numbers[k] = Err
           \/ c.hosts = <<>> \/ c.zones = <<>>
           \/ ~validate(c)
        THEN NoConfig ELSE c

-----------------------------------------------------------------------------
(* Load on its own: main's first step *)

NotLoaded == [ok |-> FALSE, pending |-> TRUE]

ConfigInit == env \in Envs /\ cfg = NotLoaded

LoadConfig == cfg = NotLoaded /\ cfg' = Load(env) /\ UNCHANGED env

ConfigSpec == ConfigInit /\ [][LoadConfig]_<<env, cfg>>

-----------------------------------------------------------------------------
(* Properties *)

\* Settings that leave everything as it would be without them: "default" stands
\* for the default spelt out.
SaysNothing(e, k) ==
    \/ k \in Numbers \cup {"KINIT_REFRESH_INTERVAL", "KRB5_CONF", "WEBHOOK_LISTEN"}
       /\ e.vars[k] = "default"
    \/ k = "AUTH_MODE" /\ e.vars[k] \in {"blank", "gss-tsig"}
    \/ k = "TSIG_ALGORITHM" /\ e.vars[k] = "hmac-sha256"
    \/ k = "DRY_RUN" /\ e.vars[k] # "true"
    \/ k = "AXFR_ENABLED" /\ e.vars[k] # "false"

Without(list, i) == SubSeq(list, 1, i - 1) \o SubSeq(list, i + 1, Len(list))

\* An accepted environment has no setting that is read and dropped: whatever
\* variable or list entry is taken away, Load comes to something else.  So no
\* credential of another mode, no second source of a secret, no number that
\* does not parse and no host that cannot be used goes unnoticed.  (A boolean
\* that does not parse does: see SaysNothing.)
NoSettingIgnored ==
    cfg.ok =>
        /\ \A k \in Chosen(env, EnvVars) :
            SaysNothing(env, k) \/ Load([env EXCEPT !.vars[k] = ""]) # cfg
        /\ \A i \in DOMAIN env.hosts :
            NotBlank(env.hosts[i]) => Load([env EXCEPT !.hosts = Without(@, i)]) # cfg
        /\ \A i \in DOMAIN env.zones :
            NotBlank(env.zones[i]) => Load([env EXCEPT !.zones = Without(@, i)]) # cfg
        /\ \A i \in DOMAIN env.filter :
            NotBlank(env.filter[i]) => Load([env EXCEPT !.filter = Without(@, i)]) # cfg

\* A configuration holds the whole credential of its own mode and nothing of
\* another's: a keytab or a password but not both, a key with a real name and
\* a secret, or nothing at all.
CredentialOfMode ==
    cfg.ok =>
        LET kerberos == {cfg.realm, cfg.principal, cfg.keytab, cfg.password}
            key == {cfg.tsig.name, cfg.tsig.secret, cfg.tsig.alg}
        IN  CASE cfg.mode = "gss-tsig" ->
                    /\ (cfg.keytab = "") # (cfg.password = "")
                    /\ HasRealm(cfg.principal) /\ key = {""}
              [] cfg.mode = "hmac-tsig" ->
                    /\ kerberos = {""} /\ "" \notin key
                    /\ cfg.tsig.name # "blank" /\ cfg.tsig.alg \in tsigAlgs
              [] cfg.mode = "insecure" -> kerberos \cup key = {""}

=============================================================================
