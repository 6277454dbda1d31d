---------------------------- MODULE AngeliqueFeed ----------------------------
(***************************************************************************)
(* A packet of the car Angelique on its way from a writer to the viewer:   *)
(* encoded by one generated stub, carried by Kafka, decoded by another and *)
(* handed on as JSON.  The two stubs kept in the repository are both used  *)
(* as writers and as readers.  A message is a function from field names to *)
(* values; every value is a sequence, a number being a sequence of one     *)
(* element.  A stub is given by the tables of the fields it writes, the    *)
(* fields it reads, and its keys.                                          *)
(***************************************************************************)
EXTENDS Integers, Sequences, SequencesExt, FiniteSets

CONSTANTS
    Writers,    \* the stubs that encode, of "viewer" and "ingest"
    Readers,    \* the stubs that decode
    Mixed,      \* a packet of one stub may be read by another
    Sections,   \* the messages of AngeliqueSensorData that are filled
    MaxSet      \* bound: fields of the message that are not zero

AngeliqueFeedParams ==
    /\ Writers \subseteq {"viewer", "ingest"} /\ Readers \subseteq {"viewer", "ingest"}
    /\ Mixed \in BOOLEAN
    /\ Sections \subseteq {"dynamics", "controls", "pack", "diagnostics", "thermal"}
    /\ MaxSet \in Nat

-----------------------------------------------------------------------------
(* The wire format and the JSON form *)

Names(t) == {t[i].name : i \in DOMAIN t}
Field(t, name) == t[CHOOSE i \in DOMAIN t : t[i].name = name]

\* Fields with consecutive numbers, of one kind.
Fields(first, kind, names) ==
    [i \in DOMAIN names |-> [name |-> names[i], num |-> first + i - 1, kind |-> kind]]

Keys(kind, names) == [i \in DOMAIN names |-> [name |-> names[i], kind |-> kind]]

\* What createBase gives a field.
Default(kind) == IF kind \in {"varint", "float", "number"} THEN <<0>> ELSE <<>>

Base(t) == [n \in Names(t) |-> Default(Field(t, n).kind)]

\* The low three bits of the tag that encode writes.
WireType(kind) ==
    CASE kind = "varint" -> 0
      [] kind = "float"  -> 5
      [] OTHER           -> 2

\* The tags decode accepts: a list also unpacked.
Accepts(kind) ==
    CASE kind = "floats"  -> {2, 5}
      [] kind = "varints" -> {2, 0}
      [] OTHER            -> {WireType(kind)}

\* encode: fields in order; a field equal to its default is left out, a list never.
Encode(t, m) ==
    LET kept == SelectSeq(t, LAMBDA f : \/ f.kind \in {"floats", "varints"}
                                        \/ m[f.name] # Default(f.kind))
    IN  [i \in DOMAIN kept |-> [num |-> kept[i].num, wire |-> WireType(kept[i].kind),
                                value |-> m[kept[i].name]]]

\* decode: a tag of another number or wire type is skipped, a list is appended to,
\* another field is replaced.
Decode(t, s) ==
    FoldLeft(LAMBDA m, e :
        LET hit == SelectSeq(t, LAMBDA f : f.num = e.num /\ e.wire \in Accepts(f.kind))
        IN  IF hit = <<>> THEN m
            ELSE [m EXCEPT ![hit[1].name] =
                    IF hit[1].kind \in {"floats", "varints"} THEN @ \o e.value
                    ELSE e.value],
        Base(t), s)

\* toJSON: a key for every field that has not its default value.
ToJSON(k, m) == [n \in {x \in Names(k) : x \in DOMAIN m /\ m[x] # Default(Field(k, x).kind)} |-> m[n]]

\* Mutant: a missing number is not set back to zero.
FromJSONUnset(k, o) ==
    [n \in Names(k) |-> IF n \in DOMAIN o THEN o[n] ELSE <<>>]

\* fromJSON: a missing key has its default value.
FromJSON(k, o) ==
    [n \in Names(k) |-> IF n \in DOMAIN o THEN o[n] ELSE Default(Field(k, n).kind)]

-----------------------------------------------------------------------------
(* The viewer's stub *)

ViewerSensorDataWrites ==
       Fields(1, "varint", <<"time", "packetId">>)
    \o Fields(3, "message", <<"dynamics", "controls", "pack", "diagnostics",
           "thermal">>)

ViewerSensorDataJson ==
       Keys("number", <<"time", "packetId">>)
    \o Keys("message", <<"dynamics", "controls", "pack", "diagnostics",
           "thermal">>)

ViewerSensorDataReads ==
       Fields(1, "varint", <<"time", "packetId">>)
    \o Fields(3, "message", <<"dynamics", "controls", "pack", "diagnostics",
           "thermal">>)

ViewerDynamicsWrites ==
       Fields(8, "float", <<"torqueRequest">>)
    \o Fields(9, "floats", <<"vcuPosition", "vcuVelocity", "vcuAccel",
           "gps">>)
    \o Fields(13, "float", <<"gpsVelocity", "gpsHeading">>)
    \o Fields(15, "floats", <<"body1Accel", "body2Accel", "body3Accel",
           "flwAccel", "frwAccel", "blwAccel", "brwAccel", "body1Gyro",
           "body2Gyro", "body3Gyro">>)
    \o Fields(25, "float", <<"flwSpeed", "frwSpeed", "blwSpeed", "brwSpeed",
           "inverterV", "inverterC">>)
    \o Fields(31, "varint", <<"inverterRpm">>)
    \o Fields(32, "float", <<"inverterTorque">>)

ViewerDynamicsJson ==
       Keys("number", <<"torqueRequest", "gpsVelocity", "gpsHeading",
           "flwSpeed", "frwSpeed", "blwSpeed", "brwSpeed", "inverterV",
           "inverterC", "inverterRpm", "inverterTorque">>)
    \o Keys("list", <<"vcuPosition", "vcuVelocity", "vcuAccel", "gps",
           "body1Accel", "body2Accel", "body3Accel", "flwAccel", "frwAccel",
           "blwAccel", "brwAccel", "body1Gyro", "body2Gyro", "body3Gyro">>)

ViewerDynamicsMotionReads ==
       Fields(8, "float", <<"torqueRequest">>)
    \o Fields(9, "floats", <<"vcuPosition", "vcuVelocity", "vcuAccel",
           "gps">>)
    \o Fields(13, "float", <<"gpsVelocity", "gpsHeading">>)

ViewerDynamicsAccelReads ==
       Fields(15, "floats", <<"body1Accel", "body2Accel", "body3Accel",
           "flwAccel", "frwAccel", "blwAccel", "brwAccel">>)

ViewerDynamicsGyroReads ==
       Fields(22, "floats", <<"body1Gyro", "body2Gyro", "body3Gyro">>)

ViewerDynamicsWheelReads ==
       Fields(25, "float", <<"flwSpeed", "frwSpeed", "blwSpeed", "brwSpeed",
           "inverterV", "inverterC">>)
    \o Fields(31, "varint", <<"inverterRpm">>)
    \o Fields(32, "float", <<"inverterTorque">>)

ViewerDynamicsReads ==
    ViewerDynamicsMotionReads \o ViewerDynamicsAccelReads \o ViewerDynamicsGyroReads \o ViewerDynamicsWheelReads

ViewerControlsWrites ==
       Fields(33, "bytes", <<"vcuFlags", "vcuFlagsJson">>)
    \o Fields(35, "float", <<"apps1V", "apps2V", "bse1V", "bse2V", "sus1V",
           "sus2V", "steerV">>)

ViewerControlsJson ==
       Keys("text", <<"vcuFlags", "vcuFlagsJson">>)
    \o Keys("number", <<"apps1V", "apps2V", "bse1V", "bse2V", "sus1V",
           "sus2V", "steerV">>)

ViewerControlsReads ==
       Fields(33, "bytes", <<"vcuFlags", "vcuFlagsJson">>)
    \o Fields(35, "float", <<"apps1V", "apps2V", "bse1V", "bse2V", "sus1V",
           "sus2V", "steerV">>)

ViewerPackWrites ==
       Fields(42, "float", <<"hvPackV", "hvTractiveV", "hvC", "lvV", "lvC">>)
    \o Fields(47, "varint", <<"contactorState">>)
    \o Fields(48, "float", <<"avgCellV", "avgCellTemp">>)

ViewerPackJson ==
       Keys("number", <<"hvPackV", "hvTractiveV", "hvC", "lvV", "lvC",
           "contactorState", "avgCellV", "avgCellTemp">>)

ViewerPackReads ==
       Fields(42, "float", <<"hvPackV", "hvTractiveV", "hvC", "lvV", "lvC">>)
    \o Fields(47, "varint", <<"contactorState">>)
    \o Fields(48, "float", <<"avgCellV", "avgCellTemp">>)

ViewerDiagnosticsWrites ==
       Fields(50, "bytes", <<"currentErrors", "currentErrorsJson",
           "latchingFaults", "latchingFaultsJson">>)
    \o Fields(54, "floats", <<"cellsV">>)
    \o Fields(55, "float", <<"hvChargeState", "lvChargeState", "odometer">>)

ViewerDiagnosticsJson ==
       Keys("text", <<"currentErrors", "currentErrorsJson", "latchingFaults",
           "latchingFaultsJson">>)
    \o Keys("list", <<"cellsV">>)
    \o Keys("number", <<"hvChargeState", "lvChargeState", "odometer">>)

ViewerDiagnosticsReads ==
       Fields(50, "bytes", <<"currentErrors", "currentErrorsJson",
           "latchingFaults", "latchingFaultsJson">>)
    \o Fields(54, "floats", <<"cellsV">>)
    \o Fields(55, "float", <<"hvChargeState", "lvChargeState", "odometer">>)

ViewerThermalWrites ==
       Fields(58, "varints", <<"cellsTemp">>)
    \o Fields(59, "varint", <<"ambientTemp", "inverterTemp", "motorTemp",
           "waterMotorTemp", "waterInverterTemp", "waterRadTemp", "radFanSet",
           "radFanRpm", "battFanSet", "battFanRpm", "flowRate">>)

ViewerThermalJson ==
       Keys("list", <<"cellsTemp">>)
    \o Keys("number", <<"ambientTemp", "inverterTemp", "motorTemp",
           "waterMotorTemp", "waterInverterTemp", "waterRadTemp", "radFanSet",
           "radFanRpm", "battFanSet", "battFanRpm", "flowRate">>)

ViewerThermalReads ==
       Fields(58, "varints", <<"cellsTemp">>)
    \o Fields(59, "varint", <<"ambientTemp", "inverterTemp", "motorTemp",
           "waterMotorTemp", "waterInverterTemp", "waterRadTemp", "radFanSet",
           "radFanRpm", "battFanSet", "battFanRpm", "flowRate">>)

\* The messages by the name of the field of AngeliqueSensorData that holds them.
ViewerWrites == [dynamics |-> ViewerDynamicsWrites, controls |-> ViewerControlsWrites,
    pack |-> ViewerPackWrites, diagnostics |-> ViewerDiagnosticsWrites, thermal |-> ViewerThermalWrites]
ViewerReads == [dynamics |-> ViewerDynamicsReads, controls |-> ViewerControlsReads,
    pack |-> ViewerPackReads, diagnostics |-> ViewerDiagnosticsReads, thermal |-> ViewerThermalReads]
ViewerJson == [dynamics |-> ViewerDynamicsJson, controls |-> ViewerControlsJson,
    pack |-> ViewerPackJson, diagnostics |-> ViewerDiagnosticsJson, thermal |-> ViewerThermalJson]

-----------------------------------------------------------------------------
(* The stub kept beside the ingest service: the same tables without the
   odometer, and with lower numbers in the thermal message. *)

IngestSensorDataWrites == ViewerSensorDataWrites
IngestSensorDataJson == ViewerSensorDataJson
IngestSensorDataReads == ViewerSensorDataReads
IngestDynamicsWrites == ViewerDynamicsWrites
IngestDynamicsJson == ViewerDynamicsJson
IngestDynamicsMotionReads == ViewerDynamicsMotionReads
IngestDynamicsAccelReads == ViewerDynamicsAccelReads
IngestDynamicsGyroReads == ViewerDynamicsGyroReads
IngestDynamicsWheelReads == ViewerDynamicsWheelReads
IngestDynamicsReads ==
    IngestDynamicsMotionReads \o IngestDynamicsAccelReads \o IngestDynamicsGyroReads \o IngestDynamicsWheelReads
IngestControlsWrites == ViewerControlsWrites
IngestControlsJson == ViewerControlsJson
IngestControlsReads == ViewerControlsReads
IngestPackWrites == ViewerPackWrites
IngestPackJson == ViewerPackJson
IngestPackReads == ViewerPackReads
IngestDiagnosticsWrites ==
       Fields(50, "bytes", <<"currentErrors", "currentErrorsJson",
           "latchingFaults", "latchingFaultsJson">>)
    \o Fields(54, "floats", <<"cellsV">>)
    \o Fields(55, "float", <<"hvChargeState", "lvChargeState">>)
IngestDiagnosticsJson ==
       Keys("text", <<"currentErrors", "currentErrorsJson", "latchingFaults",
           "latchingFaultsJson">>)
    \o Keys("list", <<"cellsV">>)
    \o Keys("number", <<"hvChargeState", "lvChargeState">>)
IngestDiagnosticsReads ==
       Fields(50, "bytes", <<"currentErrors", "currentErrorsJson",
           "latchingFaults", "latchingFaultsJson">>)
    \o Fields(54, "floats", <<"cellsV">>)
    \o Fields(55, "float", <<"hvChargeState", "lvChargeState">>)
IngestThermalWrites ==
       Fields(57, "varints", <<"cellsTemp">>)
    \o Fields(58, "varint", <<"ambientTemp", "inverterTemp", "motorTemp",
           "waterMotorTemp", "waterInverterTemp", "waterRadTemp", "radFanSet",
           "radFanRpm", "battFanSet", "battFanRpm", "flowRate">>)
IngestThermalJson == ViewerThermalJson
IngestThermalReads ==
       Fields(57, "varints", <<"cellsTemp">>)
    \o Fields(58, "varint", <<"ambientTemp", "inverterTemp", "motorTemp",
           "waterMotorTemp", "waterInverterTemp", "waterRadTemp", "radFanSet",
           "radFanRpm", "battFanSet", "battFanRpm", "flowRate">>)
IngestWrites == [dynamics |-> IngestDynamicsWrites, controls |-> IngestControlsWrites,
    pack |-> IngestPackWrites, diagnostics |-> IngestDiagnosticsWrites, thermal |-> IngestThermalWrites]
IngestReads == [dynamics |-> IngestDynamicsReads, controls |-> IngestControlsReads,
    pack |-> IngestPackReads, diagnostics |-> IngestDiagnosticsReads, thermal |-> IngestThermalReads]
IngestJson == [dynamics |-> IngestDynamicsJson, controls |-> IngestControlsJson,
    pack |-> IngestPackJson, diagnostics |-> IngestDiagnosticsJson, thermal |-> IngestThermalJson]

-----------------------------------------------------------------------------
OuterWrites(s) == IF s = "viewer" THEN ViewerSensorDataWrites ELSE IngestSensorDataWrites
OuterReads(s) == IF s = "viewer" THEN ViewerSensorDataReads ELSE IngestSensorDataReads
OuterJson(s) == IF s = "viewer" THEN ViewerSensorDataJson ELSE IngestSensorDataJson
Writes(s, x) == IF s = "viewer" THEN ViewerWrites[x] ELSE IngestWrites[x]
Reads(s, x) == IF s = "viewer" THEN ViewerReads[x] ELSE IngestReads[x]
Json(s, x) == IF s = "viewer" THEN ViewerJson[x] ELSE IngestJson[x]

VARIABLES
    pc,        \* where the packet is: idle, made, published or read
    writer, reader,
    section, msg,   \* the message that is filled
    wire,      \* the packet
    got, json  \* what the reader decoded, and the record handed on

vars == <<pc, writer, reader, section, msg, wire, got, json>>

Values(kind) ==
    CASE kind \in {"varint", "float"} -> {<<7>>}
      [] kind = "bytes"               -> {<<7>>}
      [] OTHER                        -> {<<0>>, <<7, 7>>}

\* A message with at most MaxSet fields that are not at their default.
Messages(t) ==
    UNION {{[n \in Names(t) |-> IF n \in DOMAIN v THEN v[n] ELSE Default(Field(t, n).kind)]
             : v \in {f \in [S -> {<<0>>, <<7>>, <<7, 7>>}]
                       : \A n \in S : f[n] \in Values(Field(t, n).kind)}}
           : S \in {{a} : a \in Names(t)}
                   \cup {{a, b} : a \in Names(t), b \in IF MaxSet > 1 THEN Names(t) ELSE {}}}

Init ==
    /\ pc = "idle" /\ wire = <<>> /\ got = <<>> /\ json = <<>>
    /\ writer = "viewer" /\ reader = "viewer" /\ section = "pack" /\ msg = <<>>

\* A writer fills one message; some stub will read it.
Fill ==
    /\ pc = "idle" /\ pc' = "made"
    /\ writer' \in Writers
    /\ reader' \in IF Mixed THEN Readers ELSE {writer'}
    /\ section' \in Sections
    /\ msg' \in Messages(Writes(writer', section'))
    /\ UNCHANGED <<wire, got, json>>

\* AngeliqueSensorData.encode with one message filled.
Publish ==
    /\ pc = "made" /\ pc' = "published"
    /\ wire' = Encode(OuterWrites(writer),
                  [n \in Names(OuterWrites(writer)) |->
                      CASE n = section -> Encode(Writes(writer, section), msg)
                        [] n = "time"  -> <<1>>
                        [] OTHER -> Base(OuterWrites(writer))[n]])
    /\ UNCHANGED <<writer, reader, section, msg, got, json>>

\* tryDecodeAngelique: decode, then toJSON.
Consume ==
    /\ pc = "published" /\ pc' = "read"
    /\ LET outer == Decode(OuterReads(reader), wire)
       IN  /\ got' = Decode(Reads(reader, section), outer[section])
           /\ json' = ToJSON(OuterJson(reader),
                         [outer EXCEPT ![section] = ToJSON(Json(reader, section), got')])
    /\ UNCHANGED <<writer, reader, section, msg, wire>>

Done == pc = "read" /\ UNCHANGED vars

Next == Fill \/ Publish \/ Consume \/ Done

Spec == Init /\ [][Next]_vars

-----------------------------------------------------------------------------
(* Properties *)

\* What the reader decodes is what the writer encoded, field by field, and fields
\* only the reader knows stay at their default.
SameReading ==
    pc = "read" =>
        \A n \in DOMAIN got :
            got[n] = IF n \in DOMAIN msg THEN msg[n]
                     ELSE Default(Field(Reads(reader, section), n).kind)

\* The record handed on leaves nothing out: read back from JSON it is the decoded
\* message, zeros included.
JsonKeeps ==
    pc = "read" =>
        FromJSON(Json(reader, section),
                 IF section \in DOMAIN json THEN json[section] ELSE <<>>) = got
=============================================================================
