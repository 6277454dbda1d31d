--------------------------------- MODULE Data ---------------------------------
(*****************************************************************************)
(* Telemetry on its way to the viewers: the stream to the widgets, the car   *)
(* status feed, the message on the wire, the Grafana datasource and the log  *)
(* sync pages, scene by scene.  The datasource's configuration is the module *)
(* extended here; a behaviour plays it, or one of the other components, in   *)
(* the conditions of its scene.                                              *)
(*****************************************************************************)
EXTENDS GrafanaConfig

CONSTANTS
    Scenes,
    PanelTopics, PanelControls, PanelEdits      \* of the query editor

VARIABLES
    scene,
    stage, consumed, streamSent, es, streamWire, streamCar, w, streamTrouble,
    statusStream, bus, statusWire, hook, statusSent, statusTrouble,
    pc, writer, reader, section, msg, wireWire, got, json,
    query, ran, panelStream, committed, focus, blurring, searching, debounced,
    suggestions, fetching, panelAsked, reading, checking, verdict, panelEdits,
    panelOpen,
    syncJobs, ctrl, queue, worker, syncStored, syncCar, streak, up, sse, syncShown,
    answer, busy, ops, flips, crashes,
    noteStored, noteShown, load, server, local, modal, puts, noteEdits, fails, others,
    fileJobs, done, range, preview, fileAsked, filter, picker, moves

\* Messages from Kafka to the widgets, in their order; and when they stop.
LiveWidgets ==
    INSTANCE KafkaStream WITH
        Cars <- {"orion", "angelique"}, Core <- {"sensor"}, Live <- {"gg"},
        Sensor <- "sensor", Normalized <- {"map"}, Widgets <- {"map", "gg"},
        LateTimers <- FALSE, MaxMessages <- 3, MaxTrouble <- 2, sent <- streamSent,
        wire <- streamWire, car <- streamCar, trouble <- streamTrouble
StreamStale ==
    INSTANCE KafkaStream WITH
        Cars <- {"orion", "angelique"}, Core <- {"sensor"}, Live <- {"gg"},
        Sensor <- "sensor", Normalized <- {"map"}, Widgets <- {"map", "gg"},
        LateTimers <- FALSE, MaxMessages <- 2, MaxTrouble <- 1, sent <- streamSent,
        wire <- streamWire, car <- streamCar, trouble <- streamTrouble

\* The car status feed of two pages; and where the bridge is not deployed.
StatusFeed ==
    INSTANCE CarStatusFeed WITH
        Pages <- {"p", "q"}, Cars <- {"orion", "angelique"},
        Slots <- {"s1", "s2", "s3"}, MAX_ATTEMPTS <- 2, Deployed <- TRUE,
        HubUp <- TRUE, MaxEvents <- 1, MaxTrouble <- 2,
        stream <- statusStream, wire <- statusWire, sent <- statusSent,
        trouble <- statusTrouble
StatusAbsent ==
    INSTANCE CarStatusFeed WITH
        Pages <- {"p", "q"}, Cars <- {"orion", "angelique"},
        Slots <- {"s1", "s2", "s3"}, MAX_ATTEMPTS <- 4, Deployed <- FALSE,
        HubUp <- TRUE, MaxEvents <- 0, MaxTrouble <- 1,
        stream <- statusStream, wire <- statusWire, sent <- statusSent,
        trouble <- statusTrouble

\* A message of one stub read by either; and the sections only one stub reads alike.
Wire ==
    INSTANCE AngeliqueFeed WITH
        Writers <- {"viewer", "ingest"}, Readers <- {"viewer", "ingest"}, Mixed <- TRUE,
        Sections <- {"dynamics", "controls", "pack", "diagnostics"}, MaxSet <- 1,
        wire <- wireWire
WireOwn ==
    INSTANCE AngeliqueFeed WITH
        Writers <- {"viewer", "ingest"}, Readers <- {"viewer", "ingest"}, Mixed <- FALSE,
        Sections <- {"thermal"}, MaxSet <- 2,
        wire <- wireWire

\* The query editor of the datasource.
Query ==
    INSTANCE GrafanaQuery WITH
        Topics <- PanelTopics, Controls <- PanelControls, MaxEdits <- PanelEdits,
        stream <- panelStream, asked <- panelAsked,
        edits <- panelEdits, open <- panelOpen

\* Jobs of the log sync service: with a crash; until they settle; seen by a page.
SyncJobs ==
    INSTANCE LogSyncJobs WITH
        Files <- {"f1", "f2"}, MaxJobs <- 2, Room <- 1, MaxRetries <- 2, Ops <- 3,
        Flips <- 2, Crashes <- 1, Watching <- FALSE, SlowAnswers <- FALSE,
        Late <- FALSE, jobs <- syncJobs, stored <- syncStored, car <- syncCar,
        shown <- syncShown
SyncSettle ==
    INSTANCE LogSyncJobs WITH
        Files <- {"f1", "f2"}, MaxJobs <- 1, Room <- 2, MaxRetries <- 2, Ops <- 3,
        Flips <- 2, Crashes <- 1, Watching <- FALSE, SlowAnswers <- FALSE,
        Late <- FALSE, jobs <- syncJobs, stored <- syncStored, car <- syncCar,
        shown <- syncShown
SyncPage ==
    INSTANCE LogSyncJobs WITH
        Files <- {"f1", "f2"}, MaxJobs <- 1, Room <- 2, MaxRetries <- 2, Ops <- 3,
        Flips <- 1, Crashes <- 1, Watching <- TRUE, SlowAnswers <- FALSE,
        Late <- FALSE, jobs <- syncJobs, stored <- syncStored, car <- syncCar,
        shown <- syncShown

\* Notes on log files: one page; the notes of others, and loads that fail.
LogNote ==
    INSTANCE LogNotes WITH
        Files <- {1, 4}, MaxOpen <- 3, Edits <- 4, Fails <- 1, Others <- 0,
        LoadFails <- FALSE, Hasty <- FALSE, stored <- noteStored,
        shown <- noteShown, edits <- noteEdits
LogNoteShared ==
    INSTANCE LogNotes WITH
        Files <- {1, 4}, MaxOpen <- 3, Edits <- 3, Fails <- 1, Others <- 1,
        LoadFails <- TRUE, Hasty <- FALSE, stored <- noteStored, shown <- noteShown,
        edits <- noteEdits

\* The file list, the range form and the column picker.
FileList ==
    INSTANCE LogFiles WITH
        Files <- {1, 2}, Columns <- 3, MaxJobs <- 2, Moves <- 4, Hasty <- FALSE,
        jobs <- fileJobs, asked <- fileAsked

ASSUME DataBounds ==
    /\ LiveWidgets!KafkaStreamParams
    /\ StreamStale!KafkaStreamParams
    /\ StatusFeed!CarStatusFeedParams
    /\ StatusAbsent!CarStatusFeedParams
    /\ Wire!AngeliqueFeedParams
    /\ WireOwn!AngeliqueFeedParams
    /\ Query!GrafanaQueryParams
    /\ SyncJobs!BoundsAssumption
    /\ SyncJobs!ModesAssumption
    /\ SyncSettle!BoundsAssumption
    /\ SyncSettle!ModesAssumption
    /\ SyncPage!BoundsAssumption
    /\ SyncPage!ModesAssumption
    /\ LogNote!FilesAssumption
    /\ LogNote!BoundsAssumption
    /\ LogNote!ModesAssumption
    /\ LogNoteShared!FilesAssumption
    /\ LogNoteShared!BoundsAssumption
    /\ LogNoteShared!ModesAssumption
    /\ FileList!FilesAssumption
    /\ FileList!ColumnsAssumption

streamVars == <<stage, consumed, streamSent, es, streamWire, streamCar, w,
    streamTrouble>>
statusVars == <<statusStream, bus, statusWire, hook, statusSent, statusTrouble>>
wireVars == <<pc, writer, reader, section, msg, wireWire, got, json>>
panelVars == <<query, ran, panelStream, committed, focus, blurring, searching,
    debounced, suggestions, fetching, panelAsked, reading, checking, verdict,
    panelEdits, panelOpen>>
syncVars == <<syncJobs, ctrl, queue, worker, syncStored, syncCar, streak, up, sse,
    syncShown, answer, busy, ops, flips, crashes>>
noteVars == <<noteStored, noteShown, load, server, local, modal, puts, noteEdits,
    fails, others>>
fileVars == <<fileJobs, done, range, preview, fileAsked, filter, picker, moves>>

dataVars == <<scene, streamVars, statusVars, wireVars, panelVars, syncVars, noteVars,
    fileVars, vars>>

\* The scene is chosen once; the components of the other scenes rest in an initial state.
DataInit ==
    /\ scene \in Scenes
    /\ Init
    /\ LiveWidgets!Init
    /\ StatusFeed!Init
    /\ Wire!Init
    /\ Query!Init
    /\ IF scene = "page" THEN SyncPage!Init ELSE SyncJobs!Init
    /\ LogNote!Init
    /\ FileList!Init
    /\ scene \notin {"stream", "stale"} => streamCar = "orion"
    /\ scene \notin {"status", "absent"} => hook = [p \in {"p", "q"} |-> StatusFeed!Empty("orion")]
    /\ scene # "query" => query.topic = None /\ query.partition = "all"
    /\ scene \notin {"notes", "shared"} => noteStored = LogNote!NoNotes
          /\ server = {} /\ local = {}
    /\ scene # "config" => store = CHOOSE s \in Provisioned : TRUE

InGrafanaConfig ==
    /\ scene = "config" /\ Next
    /\ UNCHANGED <<scene, streamVars, statusVars, wireVars, panelVars, syncVars,
                   noteVars, fileVars>>

InKafkaStream ==
    /\ \/ scene = "stream" /\ LiveWidgets!Next
       \/ scene = "stale" /\ StreamStale!Next
    /\ UNCHANGED <<scene, statusVars, wireVars, panelVars, syncVars, noteVars,
                   fileVars, vars>>

InCarStatusFeed ==
    /\ \/ scene = "status" /\ StatusFeed!Next
       \/ scene = "absent" /\ StatusAbsent!Next
    /\ UNCHANGED <<scene, streamVars, wireVars, panelVars, syncVars, noteVars,
                   fileVars, vars>>

InAngeliqueFeed ==
    /\ \/ scene = "wire" /\ Wire!Next
       \/ scene = "own" /\ WireOwn!Next
    /\ UNCHANGED <<scene, streamVars, statusVars, panelVars, syncVars, noteVars,
                   fileVars, vars>>

InGrafanaQuery ==
    /\ scene = "query" /\ Query!Next
    /\ UNCHANGED <<scene, streamVars, statusVars, wireVars, syncVars, noteVars,
                   fileVars, vars>>

InLogSyncJobs ==
    /\ \/ scene = "jobs" /\ SyncJobs!Next
       \/ scene = "settle" /\ SyncSettle!Next
       \/ scene = "page" /\ SyncPage!Next
    /\ UNCHANGED <<scene, streamVars, statusVars, wireVars, panelVars, noteVars,
                   fileVars, vars>>

InLogNotes ==
    /\ \/ scene = "notes" /\ LogNote!Next
       \/ scene = "shared" /\ LogNoteShared!Next
    /\ UNCHANGED <<scene, streamVars, statusVars, wireVars, panelVars, syncVars,
                   fileVars, vars>>

InLogFiles ==
    /\ scene = "files" /\ FileList!Next
    /\ UNCHANGED <<scene, streamVars, statusVars, wireVars, panelVars, syncVars,
                   noteVars, vars>>

DataNext ==
    \/ InGrafanaConfig
    \/ InKafkaStream
    \/ InCarStatusFeed
    \/ InAngeliqueFeed
    \/ InGrafanaQuery
    \/ InLogSyncJobs
    \/ InLogNotes
    \/ InLogFiles

DataSpec ==
    /\ DataInit /\ [][DataNext]_dataVars
    /\ WF_streamVars(scene = "stale" /\ StreamStale!RunEffects)
    /\ \A t \in {"map", "gg"} :
          /\ WF_streamVars(scene = "stale" /\ StreamStale!Flush(t))
          /\ WF_streamVars(scene = "stale" /\ StreamStale!Sample(t))
          /\ WF_streamVars(scene = "stale" /\ StreamStale!Age(t))
          /\ WF_streamVars(scene = "stale" /\ StreamStale!Poll(t))
    /\ \A s \in {"s1", "s2", "s3"} : WF_statusVars(scene = "absent" /\ StatusAbsent!Serve(s))
    /\ \A p \in {"p", "q"}, s \in {"s1", "s2", "s3"} :
          /\ WF_statusVars(scene = "absent" /\ StatusAbsent!Receive(p, s))
          /\ WF_statusVars(scene = "absent" /\ StatusAbsent!Ended(p, s))
    /\ \A p \in {"p", "q"} :
          WF_statusVars(scene = "absent" /\ \E s \in {"s1", "s2", "s3"} : StatusAbsent!Connect(p, s))
    /\ WF_syncVars(scene = "settle" /\ SyncSettle!Working)
    /\ WF_syncVars(scene = "settle" /\ SyncSettle!Boot)

\* A widget shows no message of another car than the one selected.
RightCar == scene = "stream" => LiveWidgets!RightCar

\* A widget that says the feed is live has a value of the selected feed.
FreshHasData == scene = "stream" => LiveWidgets!FreshHasData

\* A widget never replaces what it shows by an older message (useKafkaStream coalesces).
ShownAdvances == [][scene = "stream" => LiveWidgets!ShownAdvances]_streamVars

\* No value stays on screen once messages stop.
NothingLingers == (scene = "stale") => StreamStale!NothingLingers

\* A status hook that waits for nothing has a stream, unless its retries are spent.
Attached == scene = "status" => StatusFeed!Attached

\* An event reaches every page that listens to its car, however other pages come and go,
\* those included that leave while the bridge still starts their stream.
EveryPageHears == [][scene = "status" => StatusFeed!EveryPageHears]_statusVars

\* With no events coming every hook stops opening streams.
GoesQuiet == (scene = "absent") => StatusAbsent!GoesQuiet

\* What the reader decodes is what the writer encoded, field by field: between the two
\* generated stubs for the sections they agree on, within one stub for the other one.
SameReading ==
    /\ scene = "wire" => Wire!SameReading
    /\ scene = "own" => WireOwn!SameReading

\* Read back from JSON a record is the decoded message, zeros included.
JsonKeeps ==
    /\ scene = "wire" => Wire!JsonKeeps
    /\ scene = "own" => WireOwn!JsonKeeps

\* Unless a debounced run is due, every setting but the topic that the query editor shows
\* is the one that runs.
RunsSettings == scene = "query" => Query!RunsSettings

\* The open stream is that of the query that ran.
StreamIsForQuery == scene = "query" => Query!StreamIsForQuery

\* No pause, cancel, failure or restart leaves a job that nobody will run.
NoneForgotten == scene = "jobs" => SyncJobs!NoneForgotten

\* A job that was completed or cancelled stays so.
EndedStays == [][scene = "jobs" => SyncJobs!EndedStays]_syncVars

\* After the car moves off no more is pulled than one poll lets through.
MotionYields == scene = "settle" => SyncSettle!MotionYields

\* Once the car stands still within reach every job ends or rests in a pause.
Settles == (scene = "settle") => SyncSettle!Settles

\* A page whose stream is open and read to its end shows every job as it is.
PageCurrent == scene = "page" => SyncPage!PageCurrent

\* With nothing under way the page's badges are those of the stored notes.
BadgesTrue == scene = "notes" => LogNote!BadgesTrue

\* A save changes no field of the stored notes that its user left alone.
UntouchedKept == [][scene = "notes" => LogNote!UntouchedKept]_noteVars

\* The session offered for a file is one under which the filter lists it.
OfferListed == scene = "shared" => LogNoteShared!OfferListed

\* What was typed leaves the screen only by the user's hand or when it is stored.
FormKept == [][scene = "shared" => LogNoteShared!FormKept]_noteVars

\* The count beside the range form is that of the range in it.
PreviewOfRange == scene = "files" => FileList!PreviewOfRange

\* A file some job has complete can be previewed from the flat list.
DoneListed == scene = "files" => FileList!DoneListed

\* Ticking or clearing all that is shown leaves alone what the search hides.
HiddenKept == [][scene = "files" => FileList!HiddenKept]_fileVars

\* Whatever the order of the ticks, columns come in the order of the file.
FileOrder == scene = "files" => FileList!FileOrder

(* ----- What the data paths promise, component by component ----- *)

\* Live data: a widget or hook is attached, to the right car, what it shows moves only
\* forward, and car-status events reach every page that listens, whoever has left.
FeedsTrue ==
    /\ [](RightCar /\ FreshHasData /\ Attached)
    /\ ShownAdvances
    /\ EveryPageHears

\* The packet format keeps readings on the wire and through JSON.
WireKeeps ==
    /\ SameReading
    /\ JsonKeeps

\* Grafana runs what its editors show: queries, streams, mechanisms and defaults.
GrafanaSound ==
    /\ RunsSettings
    /\ StreamIsForQuery
    /\ HiddenLayersInert
    /\ ShownMechanismUsed
    /\ DefaultsSetOnce

\* The log-sync jobs: none is forgotten or revived, none disturbs a moving car, and the
\* page shows them as they are.
JobsSound ==
    /\ [](NoneForgotten /\ MotionYields /\ PageCurrent)
    /\ EndedStays

\* The log pages: badges, offers, previews and lists are true to what is stored, and no
\* save or tick changes what its user left alone.
LogPagesTrue ==
    /\ [](BadgesTrue /\ OfferListed /\ PreviewOfRange /\ DoneListed /\ FileOrder)
    /\ UntouchedKept
    /\ FormKept
    /\ HiddenKept

\* Old values leave the screen, hooks of an absent car go quiet, jobs come to rest.
DataSettles ==
    /\ NothingLingers
    /\ GoesQuiet
    /\ Settles
==============================================================================
