---------------------------- MODULE GrafanaQuery ----------------------------
(***************************************************************************)
(* The query editor of the Grafana Kafka datasource and the stream it      *)
(* opens.  Every control changes the query of the panel and runs it, some  *)
(* at once, some after a debounce, the topic only when it is committed;    *)
(* answers of the backend and files being read change and run it as well,  *)
(* with the query they captured when they started.  Running a query opens  *)
(* a Grafana Live stream whose path must change with every setting.        *)
(***************************************************************************)
EXTENDS Integers, Sequences, FiniteSets, FiniteSetsExt

CONSTANTS
    Topics,     \* topics that can be typed
    Controls,   \* the controls used, by the name of their action
    MaxEdits,   \* bound: user actions
    None

GrafanaQueryParams == MaxEdits \in Nat /\ None \notin Topics

Kinds == {"avro", "protobuf"}

VARIABLES
    query,      \* the panel's query
    ran,        \* the query run last
    stream,     \* the open stream, or None
    committed,  \* lastCommittedTopic
    focus, blurring, searching, debounced,  \* topic input, its timers, debouncedRunQuery
    suggestions,    \* topics suggested, {} when the list is closed
    fetching, asked,    \* captured query of fetchPartitions, inputs of searches
    reading,    \* captured query of the file being read
    checking, verdict,  \* validation timers and calls, and what is shown
    edits, open

vars == <<query, ran, stream, committed, focus, blurring, searching, debounced,
          suggestions, fetching, asked, reading, checking, verdict, edits, open>>

topicVars == <<committed, focus, blurring, searching, suggestions, asked>>
callVars == <<fetching, reading, checking, verdict>>

\* A new panel has no topic.
defaultQuery ==
    [topic |-> None, partition |-> "all", offset |-> "latest", lastN |-> 100, stamp |-> "message",
     format |-> "json", source |-> [k \in Kinds |-> "registry"],
     schema |-> [k \in Kinds |-> 0], key |-> "none", fields |-> {}, filters |-> <<>>,
     alias |-> 0, interval |-> 100, buffer |-> 60]

-----------------------------------------------------------------------------
(* The datasource *)

filterQuery(q) == q.topic # None /\ q.partition # None

\* applyTemplateVariables: lastN only where it is used.
applyTemplateVariables(q) ==
    [q EXCEPT !.lastN = IF q.offset = "lastN" THEN IF q.lastN > 0 THEN q.lastN ELSE 100
                        ELSE None]

\* The segments of the stream's path (schemas, fields and filters by their hash).
Path(q) ==
    <<q.topic, q.partition, q.offset, q.format, q.source, q.key, q.stamp, q.schema,
      q.lastN, q.fields, q.filters, q.interval, q.buffer, q.alias>>

\* The buffer Grafana Live keeps: window in ms and number of points.
Buffer(q) ==
    IF q.buffer = 0 THEN None
    ELSE LET maxDelta == q.buffer * 1000
             interval == IF q.interval > 0 THEN q.interval ELSE 100
             expected == (maxDelta * 1000 + interval - 1) \div interval
         IN  [maxDelta |-> maxDelta, maxLength |-> Min({100000, Max({100, expected * 2})})]

\* query: Grafana Live keeps a stream that has the same path.
Run(q) ==
    /\ ran' = q
    /\ LET i == applyTemplateVariables(q)
       IN  stream' = IF ~filterQuery(q) THEN None
                     ELSE IF stream # None /\ stream.path = Path(i) THEN stream
                     ELSE [path |-> Path(i), data |-> i, buffer |-> Buffer(i)]

NoRun == UNCHANGED <<ran, stream>>

-----------------------------------------------------------------------------
(* The editor *)

\* A panel that was saved with a topic and, by an older version or by hand, without
\* a partition, or a new panel.
Init ==
    /\ \E t \in Topics \cup {None}, p \in {"all", None} :
           query = [defaultQuery EXCEPT !.topic = t, !.partition = p]
    /\ ran = query
    /\ stream = IF ~filterQuery(query) THEN None
                ELSE LET i == applyTemplateVariables(query)
                     IN  [path |-> Path(i), data |-> i, buffer |-> Buffer(i)]
    /\ committed = None /\ focus = FALSE /\ blurring = FALSE /\ searching = None
    /\ debounced = FALSE /\ suggestions = {} /\ fetching = None /\ asked = {}
    /\ reading = None /\ checking = {} /\ verdict = [k \in Kinds |-> None]
    /\ edits = 0 /\ open = TRUE

Uses(c) == open /\ c \in Controls /\ edits < MaxEdits /\ edits' = edits + 1

\* Any control but the topic: the input has lost the focus.
Turns(c) == Uses(c) /\ ~focus

\* onTopicNameChange
TypeTopic(t) ==
    /\ Uses("topic") /\ focus /\ t # query.topic
    /\ query' = [query EXCEPT !.topic = t]
    /\ searching' = t
    /\ NoRun
    /\ UNCHANGED <<committed, focus, blurring, debounced, suggestions, asked, callVars, open>>

\* onTopicInputFocus
Focus ==
    /\ Uses("topic") /\ ~focus
    /\ focus' = TRUE
    /\ NoRun
    /\ UNCHANGED <<query, committed, blurring, searching, debounced, suggestions, asked, callVars, open>>

Blur ==
    /\ open /\ focus
    /\ focus' = FALSE /\ blurring' = TRUE
    /\ NoRun
    /\ UNCHANGED <<query, committed, searching, debounced, suggestions, asked, callVars, edits, open>>

commitTopicIfChanged ==
    IF query.topic # None /\ query.topic # committed
    THEN committed' = query.topic /\ Run(query)
    ELSE UNCHANGED committed /\ NoRun

BlurTimeout ==
    /\ open /\ blurring
    /\ blurring' = FALSE /\ suggestions' = {}
    /\ commitTopicIfChanged
    /\ UNCHANGED <<query, focus, searching, debounced, asked, callVars, edits, open>>

\* Enter, or the Fetch button: commit, then fetchPartitions up to its await.
FetchPartitions ==
    /\ Uses("topic") /\ fetching = None
    /\ commitTopicIfChanged
    /\ fetching' = IF query.topic = None THEN None ELSE query
    /\ UNCHANGED <<query, focus, blurring, searching, debounced, suggestions, asked,
                   reading, checking, verdict, open>>

\* The rest of fetchPartitions, with the query it captured, or its failure.
PartitionsAnswer ==
    /\ fetching # None
    /\ fetching' = None
    /\ \/ /\ fetching.partition = None
          /\ query' = [fetching EXCEPT !.partition = "all"]
          /\ Run(query')
       \/ UNCHANGED query /\ NoRun
    /\ UNCHANGED <<topicVars, debounced, reading, checking, verdict, edits, open>>

SearchTimeout ==
    /\ open /\ searching # None
    /\ asked' = asked \cup {searching} /\ searching' = None
    /\ NoRun
    /\ UNCHANGED <<query, committed, focus, blurring, debounced, suggestions, callVars, edits, open>>

\* searchTopics: answers arrive in any order.
SearchAnswer(t) ==
    /\ t \in asked
    /\ asked' = asked \ {t} /\ suggestions' = {t}
    /\ NoRun
    /\ UNCHANGED <<query, committed, focus, blurring, searching, debounced, callVars, edits, open>>

onTopicSuggestionClick(t) ==
    /\ Uses("topic") /\ t \in suggestions
    /\ query' = [query EXCEPT !.topic = t]
    /\ suggestions' = {} /\ committed' = t /\ debounced' = FALSE
    /\ focus' = FALSE /\ blurring' = (blurring \/ focus)
    /\ Run(query')
    /\ UNCHANGED <<searching, asked, callVars, open>>

\* Controls that run the query at once and cancel a debounced run.
Now(q) ==
    /\ query' = q /\ debounced' = FALSE
    /\ Run(q)
    /\ UNCHANGED <<topicVars, callVars, open>>

onPartitionChange == Turns("partition") /\ Now([query EXCEPT !.partition = "p0"])
onMessageFormatChanged ==
    \E f \in Kinds : Turns("format") /\ Now([query EXCEPT !.format = f])
onKeyFormatChanged == Turns("key") /\ Now([query EXCEPT !.key = "string"])

\* Controls that run the query and leave the debounce alone.
AtOnce(q) ==
    /\ query' = q
    /\ Run(q)
    /\ UNCHANGED <<topicVars, debounced, callVars, open>>

onAutoResetOffsetChanged ==
    \E o \in {"latest", "lastN"} : Turns("offset") /\ AtOnce([query EXCEPT !.offset = o])
\* The input is there while the offset is Last N.
onLastNChanged ==
    Turns("offset") /\ query.offset = "lastN" /\ AtOnce([query EXCEPT !.lastN = 1])
onTimestampModeChanged == Turns("stamp") /\ AtOnce([query EXCEPT !.stamp = "now"])
onSelectedFieldsChange ==
    \E f \in SUBSET {"a"} : Turns("fields") /\ AtOnce([query EXCEPT !.fields = f])
onAddFilterCondition ==
    Turns("filters") /\ Len(query.filters) < 2 /\ AtOnce([query EXCEPT !.filters = Append(@, "")])
onRemoveFilterCondition ==
    Turns("filters") /\ query.filters # <<>> /\ AtOnce([query EXCEPT !.filters = Tail(@)])

\* Controls that run the query 500 ms after the last change.
Debounce(q) ==
    /\ query' = q /\ debounced' = TRUE
    /\ NoRun
    /\ UNCHANGED <<topicVars, callVars, open>>

onFilterConditionChange ==
    \E i \in DOMAIN query.filters :
        Turns("filters") /\ Debounce([query EXCEPT !.filters[i] = "x"])
onAliasChange == Turns("alias") /\ Debounce([query EXCEPT !.alias = 1 - @])
onFrequencyHzChange == Turns("rate") /\ Debounce([query EXCEPT !.interval = IF @ = 0 THEN 100 ELSE 0])
onBufferDurationChange ==
    \E s \in {0, 1} : Turns("buffer") /\ Debounce([query EXCEPT !.buffer = s])

DebounceTimeout ==
    /\ open /\ debounced
    /\ debounced' = FALSE
    /\ Run(query)
    /\ UNCHANGED <<query, topicVars, callVars, edits, open>>

\* The panels of the two schema formats.
AvroShown == query.format = "avro"
ProtobufShown == query.format = "protobuf"
Shown(k) == IF k = "avro" THEN AvroShown ELSE ProtobufShown

onSchemaSourceChanged(k) ==
    Turns("schema") /\ Shown(k) /\ AtOnce([query EXCEPT !.source[k] = "inline"])

\* onAvroSchemaChanged, onProtobufSchemaChanged: run, and validate later.
onSchemaChanged(k) ==
    /\ Turns("schema") /\ Shown(k) /\ query.source[k] = "inline"
    /\ query' = [query EXCEPT !.schema[k] = @ + 1]
    /\ Run(query')
    /\ checking' = {c \in checking : c.kind # k \/ c.sent}
                   \cup {[kind |-> k, schema |-> query'.schema[k], sent |-> FALSE]}
    /\ UNCHANGED <<topicVars, debounced, fetching, reading, verdict, open>>

\* A file is chosen; the reader keeps the query of this moment.
onSchemaFileUpload(k) ==
    /\ Turns("upload") /\ reading = None
    /\ Shown(k) /\ query.source[k] = "inline"
    /\ reading' = [kind |-> k, query |-> query]
    /\ NoRun
    /\ UNCHANGED <<query, topicVars, debounced, fetching, checking, verdict, open>>

\* The file is refused or cannot be read, or it is loaded.
FileRead ==
    /\ reading # None
    /\ reading' = None
    /\ LET k == reading.kind
       IN  \/ /\ query' = [reading.query EXCEPT !.schema[k] = 9]
              /\ Run(query')
              /\ checking' = checking \cup {[kind |-> k, schema |-> 9, sent |-> TRUE]}
              /\ UNCHANGED verdict
           \/ /\ verdict' = [verdict EXCEPT ![k] = "invalid"]
              /\ UNCHANGED <<query, checking>> /\ NoRun
    /\ UNCHANGED <<topicVars, debounced, fetching, edits, open>>

\* validateAvroSchema, validateProtobufSchema: the call, and its answer.
Validate(c) ==
    /\ c \in checking
    /\ IF c.sent
       THEN /\ checking' = checking \ {c}
            /\ \E v \in {"valid", "invalid"} : verdict' = [verdict EXCEPT ![c.kind] = v]
       ELSE /\ open
            /\ checking' = (checking \ {c}) \cup {[c EXCEPT !.sent = TRUE]}
            /\ verdict' = [verdict EXCEPT ![c.kind] = "loading"]
    /\ NoRun
    /\ UNCHANGED <<query, topicVars, debounced, fetching, reading, edits, open>>

\* componentWillUnmount: timers are cancelled, calls are not.
componentWillUnmount ==
    /\ Uses("close")
    /\ open' = FALSE
    /\ debounced' = FALSE /\ searching' = None /\ blurring' = FALSE
    /\ checking' = {c \in checking : c.sent}
    /\ NoRun
    /\ UNCHANGED <<query, committed, focus, suggestions, asked, fetching, reading, verdict>>

Next ==
    \/ \E t \in Topics : TypeTopic(t) \/ SearchAnswer(t) \/ onTopicSuggestionClick(t)
    \/ Focus \/ Blur \/ BlurTimeout \/ FetchPartitions \/ PartitionsAnswer
    \/ SearchTimeout \/ onPartitionChange \/ onMessageFormatChanged \/ onKeyFormatChanged
    \/ onAutoResetOffsetChanged \/ onLastNChanged \/ onTimestampModeChanged
    \/ onSelectedFieldsChange \/ onAddFilterCondition \/ onRemoveFilterCondition
    \/ onFilterConditionChange \/ onAliasChange \/ onFrequencyHzChange
    \/ onBufferDurationChange \/ DebounceTimeout \/ FileRead \/ componentWillUnmount
    \/ \E k \in Kinds : onSchemaSourceChanged(k) \/ onSchemaChanged(k) \/ onSchemaFileUpload(k)
    \/ \E c \in checking : Validate(c)

Spec == Init /\ [][Next]_vars

-----------------------------------------------------------------------------
(* Properties *)

\* Whatever the order of edits, debounces, cancelled debounces, answers and files
\* that write an older query back: unless a debounced run is due, every setting but
\* the topic that the editor shows is the one that runs.
RunsSettings ==
    open /\ ~debounced => [ran EXCEPT !.topic = None] = [query EXCEPT !.topic = None]

\* The open stream is the one of the query that ran: every setting that changes what
\* the backend sends is part of the path.
StreamIsForQuery == stream # None => stream.data = applyTemplateVariables(ran)

=============================================================================
