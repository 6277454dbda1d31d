--------------------------- MODULE GrafanaProofs ---------------------------
(***************************************************************************)
(* The Grafana datasource, for every set of controls and topics, every     *)
(* number typed and any number of edits: what the configuration editor     *)
(* saves is what was entered, the effect that fills in the defaults does   *)
(* not trigger itself, the backend uses the layers of security the editor  *)
(* shows, and the query editor runs, and streams, the query it shows.      *)
(***************************************************************************)
EXTENDS Data, TLAPS

M == "saslMechanisms"

\* The entries the backend and the editor decide by are of their kinds, or not set.
Kinded(j) ==
    /\ j["securityProtocol"] \in Protocols \cup {None}
    /\ j[M] \in Mechanisms \cup {"", None}
    /\ \A f \in Flags : j[f] \in BOOLEAN \cup {None}

\* The domains of what is updated.
Shape ==
    /\ Kinded(form) /\ Kinded(store.json)
    /\ form = [f \in Fields |-> form[f]]
    /\ secure = [s \in Secrets |-> secure[s]]
    /\ wanted = [f \in Fields \cup Secrets |-> wanted[f]]
    /\ wanted[M] \in Mechanisms \cup {None}
    /\ store.json = [f \in Fields |-> store.json[f]]

\* What the form holds of a field the user did not touch.
Kept(f) == form[f] \in {store.json[f], Filled(store.json)[f]}

\* Entry by entry, the form holds what was entered, or what was saved.
FormFaithful ==
    /\ \A f \in Fields :
        IF wanted[f] = None
        THEN Kept(f) \/ (f = M /\ Filled(store.json)[f] = "" /\ form[f] = "PLAIN")
        ELSE form[f] = wanted[f]
    /\ \A s \in Secrets : secure[s] = wanted[s]

FilledOnce == filled \in {0, 1} /\ (filled = 1 => Settled)

ConfigInv == Shape /\ FormFaithful /\ FilledOnce

-----------------------------------------------------------------------------
\* The mechanism is a field, and no field is a secret.
LEMMA FieldNames ==
    /\ M \in Fields /\ "securityProtocol" \in Fields /\ M # "securityProtocol"
    /\ \A f \in Fields : f \notin Secrets
BY DEF M, Fields, Secrets, Texts, Flags, Counts

\* What a filled form has of a field.
LEMMA FilledValue ==
  ASSUME NEW j, NEW f \in Fields
  PROVE  Filled(j)[f] = IF j[f] = None THEN defaultDataSourceOptions[f] ELSE j[f]
BY DEF Filled

\* The defaults of the entries that are decided by.
LEMMA Defaults ==
    /\ defaultDataSourceOptions["securityProtocol"] = "PLAINTEXT"
    /\ defaultDataSourceOptions[M] = ""
    /\ \A f \in Flags : defaultDataSourceOptions[f] = FALSE
<1> DEFINE other == [securityProtocol |-> "PLAINTEXT", saslMechanisms |-> "",
                     healthcheckTimeout |-> 20000, timeout |-> 0,
                     flattenMaxDepth |-> 50, flattenFieldCap |-> 10000]
           default(f) == IF f \in Texts THEN "" ELSE IF f \in Flags THEN FALSE ELSE other[f]
<1>1. other["securityProtocol"] = "PLAINTEXT" /\ other[M] = ""
  BY DEF M
<1>2. defaultDataSourceOptions = [f \in Fields |-> default(f)]
  BY DEF defaultDataSourceOptions
<1> HIDE DEF other
<1>3. ASSUME NEW f \in Fields
      PROVE  defaultDataSourceOptions[f] = default(f)
  BY <1>2, Zenon
<1>4. ASSUME NEW f \in Fields, f \notin Texts, f \notin Flags
      PROVE  defaultDataSourceOptions[f] = other[f]
  BY <1>3, <1>4, Zenon
<1>5. ASSUME NEW f \in Fields, f \notin Texts, f \in Flags
      PROVE  defaultDataSourceOptions[f] = FALSE
  <2>1. (IF f \in Flags THEN FALSE ELSE other[f]) = FALSE
    BY <1>5, Zenon
  <2> QED
    BY <1>3, <1>5, <2>1, Zenon
<1>6. /\ "securityProtocol" \notin Texts \cup Flags /\ M \notin Texts \cup Flags
      /\ \A f \in Flags : f \notin Texts /\ f \in Fields
  BY DEF Texts, Flags, M, Fields
<1> QED
  BY <1>1, <1>4, <1>5, <1>6, FieldNames

\* Two forms that agree on the fields are the same.
LEMMA FilledFunction ==
  ASSUME NEW j, j = [f \in Fields |-> j[f]], \A f \in Fields : Filled(j)[f] = j[f]
  PROVE  Filled(j) = j
<1>1. Filled(j) = [f \in Fields |-> Filled(j)[f]]
  BY DEF Filled
<1> QED
  BY <1>1, Zenon

\* A form without gaps has none after an entry is set to something.
LEMMA SettledKept ==
  ASSUME NEW j, NEW g \in Fields, NEW v, v # None,
         j = [f \in Fields |-> j[f]], Filled(j) = j
  PROVE  Filled([j EXCEPT ![g] = v]) = [j EXCEPT ![g] = v]
<1> DEFINE new == [j EXCEPT ![g] = v]
<1>1. \A f \in Fields : new[f] = IF f = g THEN v ELSE j[f]
  OBVIOUS
<1>2. \A f \in Fields : j[f] = None => defaultDataSourceOptions[f] = None
  BY FilledValue
<1>3. new = [f \in Fields |-> new[f]]
  OBVIOUS
<1> HIDE DEF new
<1>4. \A f \in Fields : Filled(new)[f] = new[f]
  BY <1>1, <1>2, FilledValue
<1>5. Filled(new) = new
  BY <1>3, <1>4, FilledFunction
<1> QED
  BY <1>5 DEF new

\* What the control of field f can set it to.
OfKind(f, v) ==
    /\ f = M => v \in Mechanisms
    /\ f = "securityProtocol" => v \in Protocols
    /\ f \in Flags => v \in BOOLEAN

\* The two forms of an edit: an entry of the configuration, with, for a
\* protocol, a mechanism where there is none, or a secret.
FieldEdit(f, v) ==
    /\ f \in Fields /\ v # None /\ OfKind(f, v)
    /\ wanted' = [wanted EXCEPT ![f] = v]
    /\ \/ form' = [form EXCEPT ![f] = v]
       \/ f # M /\ form[M] = "" /\ form' = [form EXCEPT ![f] = v, ![M] = "PLAIN"]
    /\ Settled
    /\ UNCHANGED <<store, filled, secure>>

SecretEdit(s, v) ==
    /\ s \in Secrets
    /\ wanted' = [wanted EXCEPT ![s] = v]
    /\ secure' = [secure EXCEPT ![s] = v]
    /\ UNCHANGED <<store, filled, form>>

\* Every edit has one of them.
LEMMA EditForms ==
  ASSUME Shape, Edit
  PROVE  \/ \E f \in Fields : \E v : FieldEdit(f, v)
         \/ \E s \in Secrets : \E v : SecretEdit(s, v)
<1> USE FieldNames
<1>1. ASSUME NEW f \in Fields, NEW v, v # None, OfKind(f, v), Usable(f), Change(f, v)
      PROVE  FieldEdit(f, v)
  BY <1>1 DEF FieldEdit, Usable, Change
<1>2. ASSUME NEW s \in Secrets, NEW v, ChangeSecret(s, v)
      PROVE  SecretEdit(s, v)
  BY <1>2 DEF SecretEdit, ChangeSecret, Usable
<1>3. ASSUME NEW s \in Secrets, ResetSecret(s)
      PROVE  SecretEdit(s, "")
  BY <1>3 DEF SecretEdit, ResetSecret, Usable
<1>4. ASSUME NEW v \in Protocols, ChangeProtocol(v)
      PROVE  FieldEdit("securityProtocol", v)
  <2> "securityProtocol" \notin Flags /\ OfKind("securityProtocol", v)
    BY <1>4 DEF OfKind, Flags, M
  <2>1. v # None
    BY GrafanaConfigParams
  <2>2. CASE v \in {"SASL_PLAINTEXT", "SASL_SSL"} /\ form[M] = ""
    <3>1. form' = [form EXCEPT !["securityProtocol"] = v, ![M] = "PLAIN"]
      BY <1>4, <2>2 DEF ChangeProtocol, M
    <3> QED
      BY <1>4, <2>1, <2>2, <3>1 DEF FieldEdit, ChangeProtocol, Usable
  <2>3. CASE ~ (v \in {"SASL_PLAINTEXT", "SASL_SSL"} /\ form[M] = "")
    <3>1. form' = [form EXCEPT !["securityProtocol"] = v]
      BY <1>4, <2>3 DEF ChangeProtocol, M, Shape
    <3> QED
      BY <1>4, <2>1, <3>1 DEF FieldEdit, ChangeProtocol, Usable
  <2> QED
    BY <2>2, <2>3
<1>5. \A v \in {"", "new"} : v # None
  BY GrafanaConfigParams
<1>6. ASSUME NEW v \in {"", "new"}, NEW f \in Texts, Usable(f), Change(f, v)
      PROVE  f \in Fields /\ FieldEdit(f, v)
  <2>1. f \in Fields /\ OfKind(f, v)
    BY DEF Fields, Texts, M, OfKind, Flags
  <2> QED
    BY <1>1, <1>5, <1>6, <2>1
<1>7. CASE \E f \in ConnectionFields : ChangeConnection(f)
  <2>1. PICK f \in ConnectionFields : ChangeConnection(f)
    BY <1>7
  <2>2. PICK v \in {"", "new"} : Usable(f) /\ Change(f, v)
    BY <2>1 DEF ChangeConnection
  <2>3. f \in Texts
    BY DEF ConnectionFields, Texts
  <2> QED
    BY <1>6, <2>2, <2>3
<1>8. CASE \E v \in Protocols : ChangeProtocol(v)
  BY <1>4, <1>8
<1>9. CASE \E v \in Mechanisms : ChangeMechanism(v)
  <2>1. PICK v \in Mechanisms : Usable(M) /\ Change(M, v)
    BY <1>9 DEF ChangeMechanism, M
  <2>2. v # None /\ OfKind(M, v)
    BY GrafanaConfigParams DEF OfKind, Flags, M
  <2> QED
    BY <1>1, <2>1, <2>2
<1>10. CASE \E v \in {"", "new"} :
              \/ ChangeSaslUsername(v) \/ ChangeServerName(v) \/ ChangeLogLevel(v)
              \/ \E f \in RegistryFields : ChangeRegistry(f, v)
  <2>1. PICK v \in {"", "new"}, f \in Texts : Usable(f) /\ Change(f, v)
    <3>1. {"saslUsername", "serverName", "logLevel", "schemaRegistryUrl",
           "schemaRegistryUsername"} \subseteq Texts
      BY DEF Texts
    <3> QED
      BY <1>10, <3>1 DEF ChangeSaslUsername, ChangeServerName, ChangeLogLevel, ChangeRegistry
  <2> QED
    BY <1>6, <2>1
<1>11. CASE \E v \in {"", "new"} :
              \/ ChangeSaslPassword(v) \/ ChangeRegistryPassword(v)
              \/ \E s \in Secrets : ChangeTlsSecret(s, v)
  <2>1. PICK v \in {"", "new"}, s \in Secrets : ChangeSecret(s, v)
    BY <1>11 DEF ChangeSaslPassword, ChangeRegistryPassword, ChangeTlsSecret, Secrets
  <2> QED
    BY <1>2, <2>1
<1>12. CASE ResetSaslPassword \/ ResetRegistryPassword \/ \E s \in Secrets : ResetTlsSecret(s)
  <2>1. PICK s \in Secrets : ResetSecret(s)
    BY <1>12 DEF ResetSaslPassword, ResetRegistryPassword, ResetTlsSecret, Secrets
  <2> QED
    BY <1>3, <2>1
<1>13. CASE \E f \in Flags : ToggleTls(f)
  <2>1. PICK f \in Flags : Usable(f) /\ Change(f, ~ form[f])
    BY <1>13 DEF ToggleTls
  <2>2. (~ form[f]) \in BOOLEAN
    BY Zenon
  <2>3. (~ form[f]) # None
    BY <2>2, GrafanaConfigParams, Zenon
  <2>4. f \in Fields /\ f # M /\ f # "securityProtocol"
    BY DEF Flags, Fields, M
  <2>5. OfKind(f, ~ form[f])
    BY <2>2, <2>4, Zenon DEF OfKind
  <2> QED
    BY <1>1, <2>1, <2>3, <2>4, <2>5, Zenon
<1>14. CASE \E f \in Counts, n \in Numbers \cup {None} : ChangeNumber(f, n)
  <2>1. PICK f \in Counts, n \in Numbers \cup {None} :
            Usable(f) /\ Change(f, IF n = None THEN 0 ELSE n)
    BY <1>14 DEF ChangeNumber
  <2>2. PICK v : v # None /\ Usable(f) /\ Change(f, v)
    <3>1. 0 # None
      <4>1. 0 \in Nat
        OBVIOUS
      <4> QED
        BY <4>1, GrafanaConfigParams, Zenon
    <3>2. CASE n = None
      <4>1. (IF n = None THEN 0 ELSE n) = 0
        BY <3>2
      <4>2. Usable(f) /\ Change(f, 0)
        BY <2>1, <4>1
      <4> QED
        BY <3>1, <4>2, Zenon
    <3>3. CASE n # None
      BY <2>1, <3>3, Zenon
    <3> QED
      BY <3>2, <3>3
  <2>3. f \in Fields /\ \A x : OfKind(f, x)
    BY DEF Counts, Fields, M, Flags, OfKind
  <2> QED
    BY <1>1, <2>2, <2>3
<1> QED
  BY <1>7, <1>8, <1>9, <1>10, <1>11, <1>12, <1>13, <1>14 DEF Edit

-----------------------------------------------------------------------------
\* An edit of a field keeps the form faithful.
LEMMA FieldEditStep ==
  ASSUME ConfigInv, NEW f \in Fields, NEW v, FieldEdit(f, v)
  PROVE  ConfigInv'
<1> USE FieldNames
<1> DEFINE set == [form EXCEPT ![f] = v]
           set2 == [set EXCEPT ![M] = "PLAIN"]
           extra == f # M /\ form[M] = "" /\ form' = set2
<1>1. form' = set \/ extra
  BY DEF FieldEdit
<1>2. \A g \in Fields : form'[g] = IF g = f THEN v
                                   ELSE IF g = M /\ form' # set THEN "PLAIN" ELSE form[g]
  BY <1>1 DEF ConfigInv, Shape
<1>3. Shape'
  <2>1. Kinded(form')
    <3>1. form'["securityProtocol"] \in Protocols \cup {None}
      BY <1>2 DEF FieldEdit, OfKind, ConfigInv, Shape, Kinded
    <3>2. form'[M] \in Mechanisms \cup {"", None}
      BY <1>2 DEF FieldEdit, OfKind, ConfigInv, Shape, Kinded, Mechanisms
    <3>3. ASSUME NEW g \in Flags
          PROVE  form'[g] \in BOOLEAN \cup {None}
      <4>1. g \in Fields /\ g # M
        BY DEF Flags, Fields, M
      <4>2. form'[g] = v \/ form'[g] = form[g]
        BY <1>2, <4>1
      <4>3. CASE g = f
        BY <1>2, <4>1, <4>3 DEF FieldEdit, OfKind
      <4>4. CASE g # f
        BY <1>2, <4>1, <4>4 DEF ConfigInv, Shape, Kinded
      <4> QED
        BY <4>3, <4>4
    <3> QED
      BY <3>1, <3>2, <3>3 DEF Kinded
  <2>2. wanted'[M] \in Mechanisms \cup {None}
    BY DEF FieldEdit, OfKind, ConfigInv, Shape
  <2>3. form' = [g \in Fields |-> form'[g]]
    BY <1>1 DEF FieldEdit, ConfigInv, Shape
  <2>4. wanted' = [g \in Fields \cup Secrets |-> wanted'[g]]
    BY DEF FieldEdit, ConfigInv, Shape
  <2> QED
    BY <2>1, <2>2, <2>3, <2>4 DEF FieldEdit, ConfigInv, Shape
<1>4. \A g \in Fields : wanted'[g] = IF g = f THEN v ELSE wanted[g]
  BY DEF FieldEdit, ConfigInv, Shape
<1>5. \A s \in Secrets : secure'[s] = wanted'[s]
  BY DEF FieldEdit, ConfigInv, Shape, FormFaithful
<1>6. ASSUME form' # set
      PROVE  wanted[M] = None /\ Filled(store.json)[M] = ""
  <2>1. form[M] = ""
    BY <1>1, <1>6
  <2>2. wanted[M] = None
    BY <2>1 DEF ConfigInv, FormFaithful, Shape, Mechanisms
  <2>3. Kept(M)
    BY <2>1, <2>2 DEF ConfigInv, FormFaithful
  <2> QED
    BY <2>1, <2>2, <2>3, FilledValue, GrafanaConfigParams DEF Kept
<1>7. FormFaithful'
  <2>1. ASSUME NEW g \in Fields
        PROVE  IF wanted'[g] = None
               THEN \/ form'[g] \in {store'.json[g], Filled(store'.json)[g]}
                    \/ g = M /\ Filled(store'.json)[g] = "" /\ form'[g] = "PLAIN"
               ELSE form'[g] = wanted'[g]
    <3>1. store' = store /\ v # None
      BY DEF FieldEdit
    <3>2. CASE g = f
      BY <1>2, <1>4, <3>1, <3>2
    <3>3. CASE g # f /\ form' # set /\ g = M
      BY <1>2, <1>4, <1>6, <3>1, <3>3
    <3>4. CASE g # f /\ ~ (form' # set /\ g = M)
      BY <1>2, <1>4, <3>1, <3>4 DEF ConfigInv, FormFaithful, Kept
    <3> QED
      BY <3>2, <3>3, <3>4
  <2> QED
    BY <1>5, <2>1 DEF FormFaithful, Kept
<1>8. Filled(form') = form'
  <2>1. v # None /\ "PLAIN" # None /\ Filled(form) = form /\ form = [g \in Fields |-> form[g]]
    BY GrafanaConfigParams DEF FieldEdit, Settled, Mechanisms, ConfigInv, Shape
  <2>2. Filled(set) = set
    BY <2>1, SettledKept
  <2>3. set = [g \in Fields |-> set[g]]
    BY <2>1
  <2>4. Filled(set2) = set2
    <3> HIDE DEF set
    <3> QED
      BY <2>1, <2>2, <2>3, SettledKept
  <2> QED
    BY <1>1, <2>2, <2>4
<1>9. FilledOnce'
  BY <1>8 DEF ConfigInv, FilledOnce, Settled, FieldEdit
<1> QED
  BY <1>3, <1>7, <1>9 DEF ConfigInv

\* So does one of a secret.
LEMMA SecretEditStep ==
  ASSUME ConfigInv, NEW s \in Secrets, NEW v, SecretEdit(s, v)
  PROVE  ConfigInv'
<1> USE FieldNames
<1>1. \A g \in Fields : wanted'[g] = wanted[g]
  BY DEF SecretEdit, ConfigInv, Shape
<1>2. Shape'
  BY <1>1 DEF SecretEdit, ConfigInv, Shape
<1>3. \A x \in Secrets : secure'[x] = wanted'[x]
  BY DEF SecretEdit, ConfigInv, Shape, FormFaithful
<1>4. FormFaithful'
  BY <1>1, <1>3 DEF SecretEdit, ConfigInv, FormFaithful, Kept
<1>5. FilledOnce'
  BY DEF SecretEdit, ConfigInv, FilledOnce, Settled
<1> QED
  BY <1>2, <1>4, <1>5 DEF ConfigInv

\* A form that was just loaded is faithful.
LEMMA LoadedFaithful ==
  ASSUME form = store.json, secure = NoSecrets, wanted = Untouched, filled = 0,
         store.json = [f \in Fields |-> store.json[f]], Kinded(store.json)
  PROVE  ConfigInv
BY FieldNames DEF ConfigInv, Shape, FormFaithful, FilledOnce, Kept, NoSecrets, Untouched

\* The same of the state after a step.
LEMMA LoadedThen ==
  ASSUME form' = store'.json, secure' = NoSecrets, wanted' = Untouched, filled' = 0,
         store'.json = [f \in Fields |-> store'.json[f]], Kinded(store'.json)
  PROVE  ConfigInv'
<1>1. Shape'
  BY FieldNames DEF Shape, NoSecrets, Untouched
<1>2. FormFaithful'
  BY DEF FormFaithful, Kept, NoSecrets, Untouched
<1>3. FilledOnce'
  BY DEF FilledOnce
<1> QED
  BY <1>1, <1>2, <1>3 DEF ConfigInv

LEMMA ConfigInit == Init => ConfigInv
<1> SUFFICES ASSUME Init PROVE ConfigInv
  OBVIOUS
<1>1. \A s \in Provisioned : \E given : s.json = Only(given)
  <2>1. \A s \in Provisioned : \E given, kept : s = [json |-> Only(given), secret |-> kept]
    BY Zenon DEF Provisioned
  <2> QED
    BY <2>1
<1>2. \A given : Only(given) = [f \in Fields |-> Only(given)[f]]
  BY DEF Only
<1>3. Kinded(store.json)
  <2>1. PICK given : /\ store.json = Only(given)
                     /\ "securityProtocol" \in DOMAIN given => given["securityProtocol"] \in Protocols
                     /\ M \in DOMAIN given => given[M] \in Mechanisms
                     /\ \A f \in Flags \cap DOMAIN given : given[f] = TRUE
    <3>1. CASE store.json = Only(<<>>)
      BY <3>1 DEF Protocols, Mechanisms
    <3>2. CASE store.json = Only([bootstrapServers |-> "old", schemaRegistryUrl |-> "old"])
      BY <3>2 DEF Flags, M
    <3>3. CASE store.json = Only([securityProtocol |-> "SASL_PLAINTEXT"])
      BY <3>3 DEF Flags, M, Protocols
    <3>4. CASE store.json = Only([securityProtocol |-> "SASL_SSL", saslUsername |-> "old",
                         saslMechanisms |-> "SCRAM-SHA-256", tlsAuth |-> TRUE,
                         tlsAuthWithCACert |-> TRUE])
      BY <3>4 DEF Flags, M, Protocols, Mechanisms
    <3>5. \A s \in Provisioned :
              \/ s.json = Only(<<>>)
              \/ s.json = Only([bootstrapServers |-> "old", schemaRegistryUrl |-> "old"])
              \/ s.json = Only([securityProtocol |-> "SASL_PLAINTEXT"])
              \/ s.json = Only([securityProtocol |-> "SASL_SSL", saslUsername |-> "old",
                         saslMechanisms |-> "SCRAM-SHA-256", tlsAuth |-> TRUE,
                         tlsAuthWithCACert |-> TRUE])
      <4>1. \A s \in Provisioned : \E kept :
              \/ s = [json |-> Only(<<>>), secret |-> kept]
              \/ s = [json |-> Only([bootstrapServers |-> "old", schemaRegistryUrl |-> "old"]),
                      secret |-> kept]
              \/ s = [json |-> Only([securityProtocol |-> "SASL_PLAINTEXT"]), secret |-> kept]
              \/ s = [json |-> Only([securityProtocol |-> "SASL_SSL", saslUsername |-> "old",
                                     saslMechanisms |-> "SCRAM-SHA-256", tlsAuth |-> TRUE,
                                     tlsAuthWithCACert |-> TRUE]),
                      secret |-> kept]
        BY Zenon DEF Provisioned
      <4> QED
        BY <4>1
    <3> QED
      BY <3>1, <3>2, <3>3, <3>4, <3>5, Zenon DEF Init
  <2>2. \A f \in Fields : store.json[f] = IF f \in DOMAIN given THEN given[f] ELSE None
    BY <2>1 DEF Only
  <2>3. Flags \subseteq Fields
    BY DEF Fields
  <2> QED
    BY <2>1, <2>2, <2>3, FieldNames DEF Kinded
<1> QED
  BY <1>1, <1>2, <1>3, LoadedFaithful DEF Init

\* Every step keeps the form faithful.
LEMMA ConfigStep == ConfigInv /\ [Next]_vars => ConfigInv'
<1> SUFFICES ASSUME ConfigInv, [Next]_vars PROVE ConfigInv'
  OBVIOUS
<1>1. CASE Open
  <2>1. /\ form' = store'.json /\ secure' = NoSecrets /\ wanted' = Untouched /\ filled' = 0
        /\ Kinded(store'.json)
        /\ store'.json = [f \in Fields |-> store'.json[f]]
    BY <1>1 DEF Open, ConfigInv, Shape
  <2> QED
    BY <2>1, LoadedThen
<1>2. CASE FillDefaults
  <2>1. form' = Filled(form) /\ UNCHANGED <<store, secure, wanted>> /\ ~ Settled
    BY <1>2 DEF FillDefaults
  <2>2. \A f \in Fields : form'[f] = IF form[f] = None THEN defaultDataSourceOptions[f] ELSE form[f]
    BY <2>1, FilledValue
  <2>3. form' = [f \in Fields |-> form'[f]]
    BY <2>1 DEF Filled
  <2>4. Filled(form') = form'
    <3>1. \A f \in Fields : Filled(form')[f] = form'[f]
      BY <2>2, FilledValue
    <3> QED
      BY <2>3, <3>1, FilledFunction
  <2>5. FilledOnce'
    BY <1>2, <2>1, <2>4 DEF FillDefaults, ConfigInv, FilledOnce, Settled
  <2>6. \A f \in Fields : wanted[f] # None => form'[f] = wanted[f]
    BY <2>2 DEF ConfigInv, FormFaithful
  <2>7. \A f \in Fields : wanted[f] = None =>
            \/ form'[f] \in {store.json[f], Filled(store.json)[f]}
            \/ f = M /\ Filled(store.json)[f] = "" /\ form'[f] = "PLAIN"
    <3> SUFFICES ASSUME NEW f \in Fields, wanted[f] = None
                 PROVE  \/ form'[f] \in {store.json[f], Filled(store.json)[f]}
                        \/ f = M /\ Filled(store.json)[f] = "" /\ form'[f] = "PLAIN"
      OBVIOUS
    <3>1. Filled(store.json)[f] = IF store.json[f] = None THEN defaultDataSourceOptions[f]
                                  ELSE store.json[f]
      BY FilledValue
    <3>2. CASE Kept(f)
      BY <2>2, <3>1, <3>2 DEF Kept
    <3>3. CASE ~ Kept(f)
      <4>1. "PLAIN" # None
        BY GrafanaConfigParams DEF Mechanisms
      <4>2. f = M /\ Filled(store.json)[f] = "" /\ form[f] = "PLAIN"
        BY <3>3 DEF ConfigInv, FormFaithful
      <4> QED
        BY <2>2, <4>1, <4>2
    <3> QED
      BY <3>2, <3>3
  <2>8. FormFaithful'
    BY <2>1, <2>6, <2>7 DEF ConfigInv, FormFaithful, Kept
  <2>9. Kinded(form')
    <3>1. /\ form'["securityProtocol"] \in {form["securityProtocol"], "PLAINTEXT"}
          /\ form'[M] \in {form[M], ""}
      BY <2>2, FieldNames, Defaults
    <3>2. \A f \in Flags : form'[f] = IF form[f] = None THEN FALSE ELSE form[f]
      <4>1. Flags \subseteq Fields
        BY DEF Fields
      <4> QED
        BY <2>2, <4>1, Defaults, Zenon
    <3> QED
      BY <3>1, <3>2 DEF Kinded, ConfigInv, Shape, Protocols
  <2> QED
    BY <2>1, <2>3, <2>5, <2>8, <2>9 DEF ConfigInv, Shape
<1>3. CASE Edit
  <2>1. \/ \E f \in Fields : \E v : FieldEdit(f, v)
        \/ \E s \in Secrets : \E v : SecretEdit(s, v)
    BY <1>3, EditForms DEF ConfigInv
  <2> QED
    BY <2>1, FieldEditStep, SecretEditStep
<1>4. CASE Save
  <2>1. form' = store'.json /\ store'.json = form /\ secure' = NoSecrets
        /\ wanted' = Untouched /\ filled' = 0
    BY <1>4 DEF Save
  <2>2. store'.json = [f \in Fields |-> store'.json[f]] /\ Kinded(store'.json)
    BY <2>1 DEF ConfigInv, Shape
  <2> QED
    BY <2>1, <2>2, LoadedThen
<1>5. CASE UNCHANGED vars
  BY <1>5 DEF vars, ConfigInv, Shape, FormFaithful, FilledOnce, Kept, Settled
<1> QED
  BY <1>1, <1>2, <1>3, <1>4, <1>5 DEF Next

-----------------------------------------------------------------------------
\* For every set of controls and every number of edits, what is saved is
\* what the user entered last, and the rest is what was saved before.
THEOREM ConfigSavedAsEntered == Spec => SavedAsEntered
<1>1. ASSUME ConfigInv, Save
      PROVE  /\ \A f \in Fields :
                \/ store'.json[f] = IF wanted[f] = None THEN Filled(store.json)[f] ELSE wanted[f]
                \/ f = "saslMechanisms" /\ Filled(store.json)[f] = "" /\ store'.json[f] = "PLAIN"
             /\ \A s \in Secrets :
                store'.secret[s] = IF wanted[s] = None THEN store.secret[s] ELSE wanted[s]
  <2>1. store'.json = form /\ Filled(form) = form
    BY <1>1 DEF Save, Settled
  <2>2. \A s \in Secrets : store'.secret[s] = IF secure[s] = None THEN store.secret[s] ELSE secure[s]
    BY <1>1 DEF Save
  <2>3. \A f \in Fields : form[f] = store.json[f] => form[f] = Filled(store.json)[f]
    BY <2>1, FilledValue
  <2>4. \A f \in Fields :
            \/ form[f] = IF wanted[f] = None THEN Filled(store.json)[f] ELSE wanted[f]
            \/ f = M /\ Filled(store.json)[f] = "" /\ form[f] = "PLAIN"
    BY <1>1, <2>3 DEF ConfigInv, FormFaithful, Kept
  <2>5. \A s \in Secrets : secure[s] = wanted[s]
    BY <1>1 DEF ConfigInv, FormFaithful
  <2> QED
    BY <2>1, <2>2, <2>4, <2>5, ZenonT(60) DEF M
<1>2. QED
  BY <1>1, ConfigInit, ConfigStep, PTL DEF Spec, SavedAsEntered

-----------------------------------------------------------------------------
(* What the backend makes of a saved configuration *)

\* The editor and the backend read a saved configuration alike.
LEMMA LayersAgree ==
  ASSUME ConfigInv
  PROVE  HiddenLayersInert /\ ShownMechanismUsed
<1> DEFINE shown == Filled(store.json)
           used == Zeroed(store)
<1> USE FieldNames
<1>1. Kinded(store.json)
  BY DEF ConfigInv, Shape
<1>2. {"tlsAuth", "tlsAuthWithCACert"} \subseteq Flags /\ Flags \subseteq Fields
  BY DEF Flags, Fields
<1>3. \A f \in {"securityProtocol", M} : used[f] = IF store.json[f] # None THEN store.json[f] ELSE ""
  BY DEF Zeroed, Flags, Counts, M
<1>4. /\ shown["securityProtocol"] = IF store.json["securityProtocol"] = None THEN "PLAINTEXT"
                                      ELSE store.json["securityProtocol"]
      /\ shown[M] = IF store.json[M] = None THEN "" ELSE store.json[M]
  BY FilledValue, Defaults
<1>5. ASSUME NEW f \in Flags
      PROVE  used[f] = shown[f]
  <2>1. f \in Fields
    BY <1>2
  <2>2. CASE store.json[f] = None
    <3>1. used[f] = IF f \in Flags THEN FALSE ELSE IF f \in Counts THEN 0 ELSE ""
      BY <2>1, <2>2 DEF Zeroed
    <3>2. (IF f \in Flags THEN FALSE ELSE IF f \in Counts THEN 0 ELSE "") = FALSE
      BY Zenon
    <3>3. shown[f] = defaultDataSourceOptions[f]
      BY <2>1, <2>2, FilledValue
    <3>4. defaultDataSourceOptions[f] = FALSE
      BY Defaults
    <3> QED
      BY <3>1, <3>2, <3>3, <3>4, Zenon
  <2>3. CASE store.json[f] # None
    <3>1. used[f] = store.json[f]
      BY <2>1, <2>3 DEF Zeroed
    <3>2. shown[f] = store.json[f]
      BY <2>1, <2>3, FilledValue
    <3> QED
      BY <3>1, <3>2
  <2> QED
    BY <2>2, <2>3
<1> HIDE DEF shown, used
<1>6. /\ isSaslRequired(shown) <=> used["securityProtocol"] \in {"SASL_PLAINTEXT", "SASL_SSL"}
      /\ isTlsRequired(shown) <=> used["securityProtocol"] \in {"SSL", "SASL_SSL"}
  BY <1>3, <1>4 DEF isSaslRequired, isTlsRequired
<1>7. /\ "saslPassword" \in Shown(shown) <=> isSaslRequired(shown)
      /\ "tlsAuth" \in Shown(shown) <=> isTlsRequired(shown)
      /\ "tlsCACert" \in Shown(shown) <=> isTlsRequired(shown) /\ shown.tlsAuthWithCACert
      /\ "tlsClientCert" \in Shown(shown) <=> isTlsRequired(shown) /\ shown.tlsAuth
  BY DEF Shown, ConnectionFields, ProtocolFields, SaslFields, TlsFields, CaFields,
         ClientFields, RegistryFields, AdvancedFields, Counts, Flags
<1>8. getSASLMechanism(used) = ShownMechanism(shown) /\ getSASLMechanism(used) # None
  BY <1>1, <1>3, <1>4, GrafanaConfigParams
  DEF getSASLMechanism, ShownMechanism, Kinded, M, Mechanisms
<1> DEFINE c == NewConnection(store)
<1>9. /\ used["tlsAuth"] = shown["tlsAuth"]
      /\ used["tlsAuthWithCACert"] = shown["tlsAuthWithCACert"]
  BY <1>2, <1>5
<1> DEFINE sasl == used.securityProtocol \in {"SASL_PLAINTEXT", "SASL_SSL"}
           tls == used.securityProtocol \in {"SSL", "SASL_SSL"}
           pair == used.tlsAuth /\ store.secret["tlsClientCert"] # "" /\ store.secret["tlsClientKey"] # ""
           ok == ~ sasl \/ (used.saslUsername # "" /\ store.secret["saslPassword"] # "")
           mechanism == IF sasl THEN getSASLMechanism(used) ELSE None
           roots == IF tls /\ used.tlsAuthWithCACert THEN store.secret["tlsCACert"] ELSE ""
           cert == IF tls /\ pair THEN store.secret["tlsClientCert"] ELSE ""
<1>10. c = [ok |-> ok, mechanism |-> mechanism, tls |-> tls, roots |-> roots, cert |-> cert]
  BY DEF NewConnection, used
<1>11. /\ mechanism = IF isSaslRequired(shown) THEN getSASLMechanism(used) ELSE None
       /\ tls <=> isTlsRequired(shown)
       /\ roots = IF isTlsRequired(shown) /\ shown.tlsAuthWithCACert
                  THEN store.secret["tlsCACert"] ELSE ""
       /\ cert # "" => isTlsRequired(shown) /\ shown.tlsAuth
  BY <1>6, <1>9
<1> HIDE DEF ok, mechanism, tls, roots, cert
<1>12. c.mechanism = mechanism /\ c.tls = tls /\ c.roots = roots /\ c.cert = cert
  BY <1>10
<1> HIDE DEF c
<1>13. c.mechanism # None <=> "saslPassword" \in Shown(shown)
  BY <1>7, <1>8, <1>11, <1>12
<1>14. c.tls <=> "tlsAuth" \in Shown(shown)
  <2>1. tls <=> "tlsAuth" \in Shown(shown)
    BY <1>7, <1>11
  <2> QED
    BY <1>12, <2>1
<1>15. c.roots = IF "tlsCACert" \in Shown(shown) THEN store.secret["tlsCACert"] ELSE ""
  BY <1>7, <1>11, <1>12
<1>16. c.cert # "" => "tlsClientCert" \in Shown(shown)
  BY <1>7, <1>11, <1>12
<1>17. HiddenLayersInert
  BY <1>13, <1>14, <1>15, <1>16, Zenon DEF HiddenLayersInert, c, shown
<1>18. ShownMechanismUsed
  <2>1. c.mechanism # None => c.mechanism = ShownMechanism(shown)
    BY <1>8, <1>11, <1>12
  <2> QED
    BY <2>1, Zenon DEF ShownMechanismUsed, c, shown
<1> QED
  BY <1>17, <1>18

-----------------------------------------------------------------------------
(* The query editor *)

QueryFields ==
    {"topic", "partition", "offset", "lastN", "stamp", "format", "source", "schema",
     "key", "fields", "filters", "alias", "interval", "buffer"}

\* A query has these settings and no others.
Whole(q) == q = [f \in QueryFields |-> q[f]]

\* The stream that is open is that of the query that ran, under its own path.
StreamInv ==
    panelStream # None =>
        /\ panelStream.data = Query!applyTemplateVariables(ran)
        /\ Whole(panelStream.data)
        /\ panelStream.path = Query!Path(panelStream.data)

QueryInv ==
    /\ Whole(query) /\ StreamInv
    /\ fetching # None => Whole(fetching)
    /\ reading # None => Whole(reading.query)
    /\ Query!RunsSettings

\* The path has every setting.
LEMMA PathTells ==
  ASSUME NEW p, NEW q, Whole(p), Whole(q), Query!Path(p) = Query!Path(q)
  PROVE  p = q
<1>1. \A f \in QueryFields : p[f] = q[f]
  BY DEF Query!Path, QueryFields
<1> QED
  BY <1>1 DEF Whole

\* A run opens the stream of its query, or keeps it.
LEMMA RunStep ==
  ASSUME NEW q, Whole(q), StreamInv, Query!Run(q)
  PROVE  ran' = q /\ StreamInv'
<1> DEFINE i == Query!applyTemplateVariables(q)
<1>1. Whole(i)
  BY DEF Whole, Query!applyTemplateVariables
<1>2. ran' = q
  BY DEF Query!Run
<1>3. \/ panelStream' = None
      \/ panelStream # None /\ panelStream.path = Query!Path(i) /\ panelStream' = panelStream
      \/ panelStream' = [path |-> Query!Path(i), data |-> i, buffer |-> Query!Buffer(i)]
  BY DEF Query!Run
<1> HIDE DEF i
<1>4. CASE panelStream' = None
  BY <1>2, <1>4 DEF StreamInv
<1>5. CASE panelStream # None /\ panelStream.path = Query!Path(i) /\ panelStream' = panelStream
  <2>1. panelStream.data = i
    BY <1>1, <1>5, PathTells DEF StreamInv
  <2> QED
    BY <1>2, <1>5, <2>1 DEF StreamInv, i
<1>6. CASE panelStream' = [path |-> Query!Path(i), data |-> i, buffer |-> Query!Buffer(i)]
  <2>1. panelStream'.path = Query!Path(i) /\ panelStream'.data = i
    BY <1>6
  <2> QED
    BY <1>1, <1>2, <2>1 DEF StreamInv, i
<1> QED
  BY <1>2, <1>3, <1>4, <1>5, <1>6

\* What is captured by a step is the query of the moment.
Captures ==
    /\ fetching' \in {fetching, None, query}
    /\ reading' \in {reading, None} \/ (reading # reading' /\ reading'.query = query)

LEMMA CaptureStep ==
  ASSUME QueryInv, Captures
  PROVE  /\ fetching' # None => Whole(fetching')
         /\ reading' # None => Whole(reading'.query)
BY DEF QueryInv, Captures

\* A step that runs the query it leaves, one that is debounced, and one that changes
\* and runs nothing but the topic.
LEMMA RanStep ==
  ASSUME QueryInv, Captures, Whole(query'), Query!Run(query')
  PROVE  QueryInv'
<1>1. ran' = query' /\ StreamInv'
  BY RunStep DEF QueryInv
<1> QED
  BY <1>1, CaptureStep DEF QueryInv, Query!RunsSettings

LEMMA DebounceStep ==
  ASSUME QueryInv, Captures, Whole(query'), Query!NoRun, debounced'
  PROVE  QueryInv'
BY CaptureStep DEF QueryInv, Query!RunsSettings, Query!NoRun, StreamInv

LEMMA RestStep ==
  ASSUME QueryInv, Captures, Query!NoRun,
         query' = query \/ \E t : query' = [query EXCEPT !.topic = t],
         panelOpen' => panelOpen /\ debounced' = debounced
  PROVE  QueryInv'
<1>1. Whole(query') /\ [query' EXCEPT !.topic = None] = [query EXCEPT !.topic = None]
  BY DEF QueryInv, Whole
<1> QED
  BY <1>1, CaptureStep DEF QueryInv, Query!RunsSettings, Query!NoRun, StreamInv

\* Changing settings leaves a query whole.
LEMMA Settings ==
  ASSUME NEW f \in QueryFields, NEW v, Whole(query)
  PROVE  Whole([query EXCEPT ![f] = v])
BY DEF Whole

LEMMA QueryInit == Query!Init => QueryInv
<1> SUFFICES ASSUME Query!Init PROVE QueryInv
  OBVIOUS
<1>1. Whole(query)
  <2>1. Whole(Query!defaultQuery)
    BY DEF Whole, Query!defaultQuery, QueryFields
  <2> QED
    BY <2>1 DEF Query!Init, Whole
<1>2. StreamInv
  <2> DEFINE i == Query!applyTemplateVariables(query)
  <2>1. ran = query
    BY DEF Query!Init
  <2>2. panelStream = None \/ panelStream = [path |-> Query!Path(i), data |-> i, buffer |-> Query!Buffer(i)]
    BY DEF Query!Init
  <2>3. Whole(i)
    BY <1>1 DEF Whole, Query!applyTemplateVariables
  <2> HIDE DEF i
  <2>4. panelStream # None => panelStream.path = Query!Path(i) /\ panelStream.data = i
    BY <2>2
  <2> QED
    BY <2>1, <2>3, <2>4 DEF StreamInv, i
<1> QED
  BY <1>1, <1>2 DEF QueryInv, Query!RunsSettings, Query!Init

LEMMA QueryStep == QueryInv /\ [Query!Next]_panelVars => QueryInv'
<1> SUFFICES ASSUME QueryInv, [Query!Next]_panelVars
             PROVE  QueryInv'
  OBVIOUS
<1> USE DEF Query!callVars, Query!topicVars
<1>1. Whole(query)
  BY DEF QueryInv
<1>2. ASSUME NEW q, Whole(q), Query!Now(q) \/ Query!AtOnce(q)
      PROVE  QueryInv'
  BY <1>2, RanStep DEF Query!Now, Query!AtOnce, Captures
<1>3. ASSUME NEW q, Whole(q), Query!Debounce(q)
      PROVE  QueryInv'
  BY <1>3, DebounceStep DEF Query!Debounce, Captures
<1>4. CASE \/ Query!onPartitionChange \/ Query!onMessageFormatChanged \/ Query!onKeyFormatChanged
           \/ Query!onAutoResetOffsetChanged \/ Query!onLastNChanged
           \/ Query!onTimestampModeChanged \/ Query!onSelectedFieldsChange
           \/ Query!onAddFilterCondition \/ Query!onRemoveFilterCondition
           \/ \E k \in Query!Kinds : Query!onSchemaSourceChanged(k)
  <2>1. \E f \in QueryFields : \E v : \/ Query!Now([query EXCEPT ![f] = v])
                                      \/ Query!AtOnce([query EXCEPT ![f] = v])
    <3>1. CASE Query!onPartitionChange
      BY <3>1 DEF Query!onPartitionChange, QueryFields
    <3>2. CASE Query!onMessageFormatChanged
      BY <3>2 DEF Query!onMessageFormatChanged, QueryFields
    <3>3. CASE Query!onKeyFormatChanged
      BY <3>3 DEF Query!onKeyFormatChanged, QueryFields
    <3>4. CASE Query!onAutoResetOffsetChanged
      BY <3>4 DEF Query!onAutoResetOffsetChanged, QueryFields
    <3>5. CASE Query!onLastNChanged
      BY <3>5 DEF Query!onLastNChanged, QueryFields
    <3>6. CASE Query!onTimestampModeChanged
      BY <3>6 DEF Query!onTimestampModeChanged, QueryFields
    <3>7. CASE Query!onSelectedFieldsChange
      BY <3>7 DEF Query!onSelectedFieldsChange, QueryFields
    <3>8. CASE Query!onAddFilterCondition
      BY <3>8 DEF Query!onAddFilterCondition, QueryFields
    <3>9. CASE Query!onRemoveFilterCondition
      BY <3>9 DEF Query!onRemoveFilterCondition, QueryFields
    <3>10. CASE \E k \in Query!Kinds : Query!onSchemaSourceChanged(k)
      BY <3>10 DEF Query!onSchemaSourceChanged, QueryFields
    <3> QED
      BY <1>4, <3>1, <3>2, <3>3, <3>4, <3>5, <3>6, <3>7, <3>8, <3>9, <3>10
  <2> QED
    BY <1>1, <1>2, <2>1, Settings
<1>5. CASE \/ Query!onFilterConditionChange \/ Query!onAliasChange
           \/ Query!onFrequencyHzChange \/ Query!onBufferDurationChange
  <2>1. \E f \in QueryFields : \E v : Query!Debounce([query EXCEPT ![f] = v])
    <3>1. CASE Query!onFilterConditionChange
      BY <3>1 DEF Query!onFilterConditionChange, QueryFields
    <3>2. CASE Query!onAliasChange
      BY <3>2 DEF Query!onAliasChange, QueryFields
    <3>3. CASE Query!onFrequencyHzChange
      BY <3>3 DEF Query!onFrequencyHzChange, QueryFields
    <3>4. CASE Query!onBufferDurationChange
      BY <3>4 DEF Query!onBufferDurationChange, QueryFields
    <3> QED
      BY <1>5, <3>1, <3>2, <3>3, <3>4
  <2> QED
    BY <1>1, <1>3, <2>1, Settings
<1>6. CASE \E t \in PanelTopics : Query!TypeTopic(t)
  BY <1>6, RestStep DEF Query!TypeTopic, Query!Uses, Captures
<1>7. CASE \E t \in PanelTopics : Query!SearchAnswer(t)
  BY <1>7, RestStep DEF Query!SearchAnswer, Captures
<1>8. CASE \E t \in PanelTopics : Query!onTopicSuggestionClick(t)
  <2>1. PICK t : query' = [query EXCEPT !["topic"] = t] /\ Query!Run(query') /\ Captures
    BY <1>8 DEF Query!onTopicSuggestionClick, Captures
  <2>2. Whole(query')
    BY <1>1, <2>1, Settings DEF QueryFields
  <2> QED
    BY <2>1, <2>2, RanStep
<1>9. CASE Query!Focus
  BY <1>9, RestStep DEF Query!Focus, Captures
<1>10. CASE Query!Blur
  BY <1>10, RestStep DEF Query!Blur, Captures
<1>11. CASE Query!BlurTimeout
  BY <1>1, <1>11, RanStep, RestStep DEF Query!BlurTimeout, Query!commitTopicIfChanged, Captures
<1>12. CASE Query!FetchPartitions
  <2>1. Captures /\ query' = query /\ debounced' = debounced /\ panelOpen' = panelOpen
    BY <1>12 DEF Query!FetchPartitions, Captures
  <2> QED
    BY <1>1, <1>12, <2>1, RanStep, RestStep DEF Query!FetchPartitions, Query!commitTopicIfChanged
<1>13. CASE Query!PartitionsAnswer
  <2>1. Captures /\ debounced' = debounced /\ panelOpen' = panelOpen
    BY <1>13 DEF Query!PartitionsAnswer, Captures
  <2>2. Whole([fetching EXCEPT !.partition = "all"])
    BY <1>13 DEF Query!PartitionsAnswer, QueryInv, Whole
  <2> QED
    BY <1>1, <1>13, <2>1, <2>2, RanStep, RestStep DEF Query!PartitionsAnswer
<1>14. CASE Query!SearchTimeout
  BY <1>14, RestStep DEF Query!SearchTimeout, Captures
<1>15. CASE Query!DebounceTimeout
  BY <1>1, <1>15, RanStep DEF Query!DebounceTimeout, Captures
<1>16. CASE Query!FileRead
  <2>1. Captures /\ debounced' = debounced /\ panelOpen' = panelOpen
    BY <1>16 DEF Query!FileRead, Captures
  <2>2. Whole([reading.query EXCEPT !.schema[reading.kind] = 9])
    BY <1>16 DEF Query!FileRead, QueryInv, Whole
  <2> QED
    BY <1>1, <1>16, <2>1, <2>2, RanStep, RestStep DEF Query!FileRead
<1>17. CASE Query!componentWillUnmount
  BY <1>17, RestStep DEF Query!componentWillUnmount, Captures
<1>18. ASSUME NEW k \in Query!Kinds, Query!onSchemaChanged(k)
       PROVE  QueryInv'
  <2>1. Captures /\ Query!Run(query')
    BY <1>18 DEF Query!onSchemaChanged, Captures
  <2>2. Whole(query')
    BY <1>1, <1>18 DEF Query!onSchemaChanged, Whole
  <2> QED
    BY <2>1, <2>2, RanStep
<1>19. ASSUME NEW k \in Query!Kinds, Query!onSchemaFileUpload(k)
       PROVE  QueryInv'
  <2>1. Captures
    BY <1>19 DEF Query!onSchemaFileUpload, Captures
  <2> QED
    BY <1>19, <2>1, RestStep DEF Query!onSchemaFileUpload
<1>20. ASSUME NEW c \in checking, Query!Validate(c)
       PROVE  QueryInv'
  BY <1>20, RestStep DEF Query!Validate, Captures
<1>21. CASE UNCHANGED panelVars
  BY <1>21, RestStep DEF panelVars, Query!NoRun, Captures
<1> QED
  BY <1>4, <1>5, <1>6, <1>7, <1>8, <1>9, <1>10, <1>11, <1>12, <1>13, <1>14, <1>15, <1>16,
     <1>17, <1>18, <1>19, <1>20, <1>21 DEF Query!Next

-----------------------------------------------------------------------------
(* The datasource among the data paths *)

LEMMA DatasourceInit == DataInit => ConfigInv /\ QueryInv
BY ConfigInit, QueryInit DEF DataInit

\* A step of the data paths is one of the editors, or leaves them alone.
LEMMA DatasourceStep ==
  [DataNext]_dataVars => [Next]_vars /\ [Query!Next]_panelVars
BY DEF DataNext, dataVars, InGrafanaConfig, InKafkaStream, InCarStatusFeed,
       InAngeliqueFeed, InGrafanaQuery, InLogSyncJobs, InLogNotes, InLogFiles

\* For every set of controls, topics and numbers and any number of edits: the query
\* editor runs what it shows and the stream is that of the query that ran, the backend
\* uses exactly the layers of security and the mechanism that the configuration editor
\* shows, and defaults are filled in once.
THEOREM DatasourceIsSound == DataSpec => []GrafanaSound
<1> DEFINE Inv == ConfigInv /\ QueryInv
<1>1. DataInit => Inv
  BY DatasourceInit
<1>2. Inv /\ [DataNext]_dataVars => Inv'
  BY DatasourceStep, ConfigStep, QueryStep
<1>3. Inv => GrafanaSound
  <2> SUFFICES ASSUME ConfigInv, QueryInv PROVE GrafanaSound
    OBVIOUS
  <2>1. HiddenLayersInert /\ ShownMechanismUsed
    BY LayersAgree
  <2>2. DefaultsSetOnce
    BY DEF ConfigInv, FilledOnce, DefaultsSetOnce
  <2>3. RunsSettings
    BY DEF QueryInv, RunsSettings
  <2>4. StreamIsForQuery
    BY DEF QueryInv, StreamInv, StreamIsForQuery, Query!StreamIsForQuery
  <2> QED
    BY <2>1, <2>2, <2>3, <2>4 DEF GrafanaSound
<1> HIDE DEF Inv
<1> QED
  BY <1>1, <1>2, <1>3, PTL DEF DataSpec

\* Among the other data paths too, what is saved is what the user entered last.
THEOREM DatasourceSavedAsEntered == DataSpec => SavedAsEntered
<1>1. DataInit => Init
  BY DEF DataInit
<1>2. [DataNext]_dataVars => [Next]_vars
  BY DatasourceStep
<1> QED
  BY <1>1, <1>2, ConfigSavedAsEntered, PTL DEF DataSpec, Spec
=============================================================================
