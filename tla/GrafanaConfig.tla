--------------------------- MODULE GrafanaConfig ---------------------------
(***************************************************************************)
(* The configuration editor of the Grafana Kafka datasource, and what the  *)
(* backend makes of a saved configuration.  The editor holds the whole     *)
(* configuration as one object: every control replaces it by a copy with   *)
(* one entry changed.  Secrets are write-only: the editor only knows which *)
(* are configured, and a saved form leaves alone those it does not name.   *)
(* The editor decides what is shown, the backend, in another language,     *)
(* what is used.                                                           *)
(***************************************************************************)
EXTENDS Integers, FiniteSets, Sequences

CONSTANTS
    Used,       \* the controls the user touches, by the field they change
    Numbers,    \* numbers typed, in tenths, so that 25 is 2.5
    MaxEdits,   \* bound: edits of a behaviour
    None

Texts == {"bootstrapServers", "clientId", "saslUsername", "serverName", "logLevel",
          "schemaRegistryUrl", "schemaRegistryUsername"}
Flags == {"tlsSkipVerify", "tlsAuthWithCACert", "tlsAuth"}
Counts == {"healthcheckTimeout", "timeout", "flattenMaxDepth", "flattenFieldCap"}
Fields == Texts \cup Flags \cup Counts \cup {"securityProtocol", "saslMechanisms"}
Secrets == {"saslPassword", "tlsCACert", "tlsClientCert", "tlsClientKey",
            "schemaRegistryPassword"}

Protocols == {"PLAINTEXT", "SSL", "SASL_PLAINTEXT", "SASL_SSL"}
Mechanisms == {"PLAIN", "SCRAM-SHA-256", "SCRAM-SHA-512"}

ASSUME GrafanaConfigParams ==
    /\ Used \subseteq Fields \cup Secrets
    /\ Numbers \subseteq Nat /\ MaxEdits \in Nat
    /\ None \notin {"", "new"} \cup Protocols \cup Mechanisms
    /\ None \notin Nat /\ None \notin BOOLEAN

VARIABLES
    store,      \* the saved datasource: [json, secret]
    form,       \* the editor's copy of it: options.jsonData,
    secure,     \* options.secureJsonData, None if not named,
    configured, \* and options.secureJsonFields
    wanted,     \* what the user entered since the editor was opened, None if untouched
    filled,     \* how often the defaults were filled in since then
    open, edits

vars == <<store, form, secure, configured, wanted, filled, open, edits>>

-----------------------------------------------------------------------------
(* The saved configuration *)

defaultDataSourceOptions ==
    LET other == [securityProtocol |-> "PLAINTEXT", saslMechanisms |-> "",
                  healthcheckTimeout |-> 20000, timeout |-> 0,
                  flattenMaxDepth |-> 50, flattenFieldCap |-> 10000]
    IN  [f \in Fields |->
            IF f \in Texts THEN "" ELSE IF f \in Flags THEN FALSE ELSE other[f]]

\* { ...defaultDataSourceOptions, ...json }
Filled(json) ==
    [f \in Fields |-> IF json[f] = None THEN defaultDataSourceOptions[f] ELSE json[f]]

\* A file that sets the given fields and no others.
Only(given) == [f \in Fields |-> IF f \in DOMAIN given THEN given[f] ELSE None]

\* A new datasource, the provisioned one of the repository, one with a SASL
\* protocol and no mechanism, and one with every secret and a mechanism.
Provisioned ==
    LET none == [s \in Secrets |-> ""]
    IN  {[json |-> Only(<<>>), secret |-> none],
         [json |-> Only([bootstrapServers |-> "old", schemaRegistryUrl |-> "old"]),
          secret |-> none],
         [json |-> Only([securityProtocol |-> "SASL_PLAINTEXT"]), secret |-> none],
         [json |-> Only([securityProtocol |-> "SASL_SSL", saslUsername |-> "old",
                         saslMechanisms |-> "SCRAM-SHA-256", tlsAuth |-> TRUE,
                         tlsAuthWithCACert |-> TRUE]),
          secret |-> [s \in Secrets |-> "old"]]}

\* The settings page hands the editor the saved configuration, without the
\* secrets.
NoSecrets == [s \in Secrets |-> None]
ConfiguredIn(s) == [x \in Secrets |-> s.secret[x] # ""]

Untouched == [f \in Fields \cup Secrets |-> None]

Init ==
    /\ store \in Provisioned
    /\ form = store.json /\ secure = NoSecrets /\ configured = ConfiguredIn(store)
    /\ wanted = Untouched
    /\ filled = 0 /\ open = FALSE /\ edits = 0

-----------------------------------------------------------------------------
(* What the editor shows *)

Json == Filled(form)

isSaslRequired(json) == json.securityProtocol \in {"SASL_PLAINTEXT", "SASL_SSL"}
isTlsRequired(json) == json.securityProtocol \in {"SSL", "SASL_SSL"}

ConnectionFields == {"bootstrapServers", "clientId"}
ProtocolFields == {"securityProtocol"}
SaslFields(json) ==
    IF isSaslRequired(json) THEN {"saslMechanisms", "saslUsername", "saslPassword"} ELSE {}
TlsFields(json) == IF isTlsRequired(json) THEN Flags ELSE {}
CaFields(json) ==
    IF isTlsRequired(json) /\ json.tlsAuthWithCACert THEN {"tlsCACert"} ELSE {}
ClientFields(json) ==
    IF isTlsRequired(json) /\ json.tlsAuth
    THEN {"serverName", "tlsClientCert", "tlsClientKey"} ELSE {}
RegistryFields == {"schemaRegistryUrl", "schemaRegistryUsername", "schemaRegistryPassword"}
AdvancedFields == {"logLevel"} \cup Counts

Shown(json) ==
    ConnectionFields \cup ProtocolFields \cup SaslFields(json) \cup TlsFields(json)
        \cup CaFields(json) \cup ClientFields(json) \cup RegistryFields \cup AdvancedFields

\* The mechanism the list shows as selected.
ShownMechanism(json) ==
    IF json.saslMechanisms \in Mechanisms THEN json.saslMechanisms ELSE "PLAIN"

-----------------------------------------------------------------------------
(* The controls *)

\* The effect runs after the first render, before any event is handled.
Settled == Filled(form) = form

\* The user can enter something in control f; secrets that are configured
\* show a reset button instead of an input.
Usable(f) ==
    /\ open /\ Settled /\ edits < MaxEdits
    /\ f \in Used \cap Shown(Json)
    /\ edits' = edits + 1
    /\ UNCHANGED <<store, filled, open>>

\* onOptionsChange({ ...options, jsonData: { ...options.jsonData, [f]: v } })
Change(f, v) ==
    /\ form' = [form EXCEPT ![f] = v]
    /\ wanted' = [wanted EXCEPT ![f] = v]
    /\ UNCHANGED <<secure, configured>>

ChangeConnection(f) ==
    /\ f \in ConnectionFields
    /\ Usable(f)
    /\ \E v \in {"", "new"} : Change(f, v)

ChangeProtocol(v) ==
    /\ Usable("securityProtocol")
    /\ form' = [form EXCEPT
            !["securityProtocol"] = v,
            !["saslMechanisms"] =
                IF v \in {"SASL_PLAINTEXT", "SASL_SSL"} /\ @ = "" THEN "PLAIN" ELSE @]
    /\ wanted' = [wanted EXCEPT !["securityProtocol"] = v]
    /\ UNCHANGED <<secure, configured>>

ChangeMechanism(v) == Usable("saslMechanisms") /\ Change("saslMechanisms", v)

ChangeSaslUsername(v) == Usable("saslUsername") /\ Change("saslUsername", v)

\* onOptionsChange({ ...options, secureJsonData: { ...options.secureJsonData, [s]: v } })
ChangeSecret(s, v) ==
    /\ Usable(s) /\ ~ configured[s]
    /\ secure' = [secure EXCEPT ![s] = v]
    /\ wanted' = [wanted EXCEPT ![s] = v]
    /\ UNCHANGED <<form, configured>>

\* Mutant: a reset forgets the secrets typed before.
ResetSecretAlone(s) ==
    /\ Usable(s) /\ configured[s]
    /\ configured' = [configured EXCEPT ![s] = FALSE]
    /\ secure' = [NoSecrets EXCEPT ![s] = ""]
    /\ wanted' = [wanted EXCEPT ![s] = ""]
    /\ UNCHANGED form

ResetSecret(s) ==
    /\ Usable(s) /\ configured[s]
    /\ configured' = [configured EXCEPT ![s] = FALSE]
    /\ secure' = [secure EXCEPT ![s] = ""]
    /\ wanted' = [wanted EXCEPT ![s] = ""]
    /\ UNCHANGED form

ChangeSaslPassword(v) == ChangeSecret("saslPassword", v)
ResetSaslPassword == ResetSecret("saslPassword")

ToggleTls(f) == f \in Flags /\ Usable(f) /\ Change(f, ~ form[f])

ChangeServerName(v) == Usable("serverName") /\ Change("serverName", v)

ChangeTlsSecret(s, v) ==
    s \in {"tlsCACert", "tlsClientCert", "tlsClientKey"} /\ ChangeSecret(s, v)
ResetTlsSecret(s) == s \in {"tlsCACert", "tlsClientCert", "tlsClientKey"} /\ ResetSecret(s)

ChangeLogLevel(v) == Usable("logLevel") /\ Change("logLevel", v)

\* makeNumberChangeHandler; None stands for what is no number, or negative.
ChangeNumber(f, n) ==
    /\ f \in Counts
    /\ Usable(f)
    /\ Change(f, IF n = None THEN 0 ELSE n)

ChangeRegistry(f, v) ==
    f \in {"schemaRegistryUrl", "schemaRegistryUsername"} /\ Usable(f) /\ Change(f, v)
ChangeRegistryPassword(v) == ChangeSecret("schemaRegistryPassword", v)
ResetRegistryPassword == ResetSecret("schemaRegistryPassword")

\* Mutant: the effect does not compare before it writes.
FillDefaultsAlways ==
    /\ open
    /\ form' = Filled(form)
    /\ filled' = IF filled < 2 THEN filled + 1 ELSE filled
    /\ UNCHANGED <<store, secure, configured, wanted, open, edits>>

\* The effect that makes sure that the defaults are set.
FillDefaults ==
    /\ open /\ ~ Settled
    /\ form' = Filled(form)
    /\ filled' = IF filled < 2 THEN filled + 1 ELSE filled
    /\ UNCHANGED <<store, secure, configured, wanted, open, edits>>

Edit ==
    \/ \E f \in ConnectionFields : ChangeConnection(f)
    \/ \E v \in Protocols : ChangeProtocol(v)
    \/ \E v \in Mechanisms : ChangeMechanism(v)
    \/ \E v \in {"", "new"} :
        \/ ChangeSaslUsername(v)
        \/ ChangeSaslPassword(v)
        \/ ChangeServerName(v)
        \/ ChangeLogLevel(v)
        \/ ChangeRegistryPassword(v)
        \/ \E f \in RegistryFields : ChangeRegistry(f, v)
        \/ \E s \in Secrets : ChangeTlsSecret(s, v)
    \/ ResetSaslPassword
    \/ ResetRegistryPassword
    \/ \E s \in Secrets : ResetTlsSecret(s)
    \/ \E f \in Flags : ToggleTls(f)
    \/ \E f \in Counts, n \in Numbers \cup {None} : ChangeNumber(f, n)

-----------------------------------------------------------------------------
(* The settings page of Grafana *)

\* The page is opened, or left without saving and opened again.
Open ==
    /\ ~ open \/ (edits < MaxEdits /\ wanted # Untouched)
    /\ open' = TRUE
    /\ form' = store.json /\ secure' = NoSecrets /\ configured' = ConfiguredIn(store)
    /\ wanted' = Untouched /\ filled' = 0
    /\ UNCHANGED <<store, edits>>

\* Save & test: the secrets the form names are written, the rest are kept,
\* and the page reads the datasource back.
Save ==
    /\ open /\ Settled
    /\ store' = [json |-> form,
                 secret |-> [s \in Secrets |->
                    IF secure[s] = None THEN store.secret[s] ELSE secure[s]]]
    /\ form' = store'.json /\ secure' = NoSecrets /\ configured' = ConfiguredIn(store')
    /\ wanted' = Untouched /\ filled' = 0
    /\ UNCHANGED <<open, edits>>

Next == Open \/ FillDefaults \/ Edit \/ Save

Spec == Init /\ [][Next]_vars

-----------------------------------------------------------------------------
(* The backend *)

Zeroed(s) ==
    [f \in Fields |->
        IF s.json[f] # None THEN s.json[f]
        ELSE IF f \in Flags THEN FALSE ELSE IF f \in Counts THEN 0 ELSE ""]

\* getSASLMechanism
getSASLMechanism(json) == IF json.saslMechanisms = "" THEN "PLAIN" ELSE json.saslMechanisms

\* NewConnection: what the dialer of a saved configuration uses.
NewConnection(s) ==
    LET json == Zeroed(s)
        sasl == json.securityProtocol \in {"SASL_PLAINTEXT", "SASL_SSL"}
        tls == json.securityProtocol \in {"SSL", "SASL_SSL"}
        pair == json.tlsAuth /\ s.secret["tlsClientCert"] # "" /\ s.secret["tlsClientKey"] # ""
    IN  [ok |-> ~ sasl \/ (json.saslUsername # "" /\ s.secret["saslPassword"] # ""),
         mechanism |-> IF sasl THEN getSASLMechanism(json) ELSE None,
         tls |-> tls,
         roots |-> IF tls /\ json.tlsAuthWithCACert THEN s.secret["tlsCACert"] ELSE "",
         cert |-> IF tls /\ pair THEN s.secret["tlsClientCert"] ELSE ""]

-----------------------------------------------------------------------------
(* Properties *)

\* What is saved is, entry by entry, what the user entered last; what the
\* user did not touch is what was saved before, or its default.  Every
\* control writes the whole configuration, so one that drops or reverts an
\* entry of another control loses it here.  Only an empty mechanism may be
\* set by choosing a SASL protocol.
SavedAsEntered ==
    [][Save =>
        /\ \A f \in Fields :
            \/ store'.json[f] = IF wanted[f] = None THEN Filled(store.json)[f] ELSE wanted[f]
            \/ f = "saslMechanisms" /\ Filled(store.json)[f] = "" /\ store'.json[f] = "PLAIN"
        /\ \A s \in Secrets :
            store'.secret[s] = IF wanted[s] = None THEN store.secret[s] ELSE wanted[s]]_vars

\* The backend uses a layer of security of a saved configuration exactly if
\* the editor shows its controls for it: what a hidden section still holds
\* from an earlier protocol has no effect.
HiddenLayersInert ==
    LET c == NewConnection(store)
        json == Filled(store.json)
    IN  /\ c.mechanism # None <=> "saslPassword" \in Shown(json)
        /\ c.tls <=> "tlsAuth" \in Shown(json)
        /\ c.roots = IF "tlsCACert" \in Shown(json) THEN store.secret["tlsCACert"] ELSE ""
        /\ c.cert # "" => "tlsClientCert" \in Shown(json)

\* The backend authenticates with the mechanism the editor shows as
\* selected, also if none was ever chosen.
ShownMechanismUsed ==
    LET c == NewConnection(store)
    IN  c.mechanism # None => c.mechanism = ShownMechanism(Filled(store.json))

\* The effect fills in the defaults at most once each time the editor gets
\* a configuration: it does not trigger itself.
DefaultsSetOnce == filled <= 1

=============================================================================
