---------------------------- MODULE KafkaStream ----------------------------
(***************************************************************************)
(* Live telemetry on its way to the widgets of a viewer page: the one      *)
(* Kafka consumer of the server, the SSE route that forwards its events,   *)
(* the page's single EventSource (sseBus), and the useKafkaStream hook of  *)
(* each widget, which thins updates to one per sampleMs and clears values  *)
(* that have gone stale.                                                   *)
(*                                                                         *)
(* The clock is abstracted to two facts per widget: the last update is     *)
(* less than sampleMs ago, and the last message is more than staleAfterMs  *)
(* ago.  Payloads are numbered in the order they were published.           *)
(***************************************************************************)
EXTENDS Naturals, Sequences, SequencesExt, FiniteSets

CONSTANTS
    Cars,         \* SUPPORTED_LIVE_CARS
    Core, Live,   \* raw topics of KAFKA_TOPICS and of KAFKA_LIVE_TOPICS
    Sensor,       \* SENSOR_DATA_TOPIC
    Normalized,   \* NORMALIZED_SENSOR_TOPICS, derived from Sensor
    Widgets,      \* one widget per topic it asks for
    LateTimers,   \* a due timer may run after the next message event
    MaxMessages,  \* bound: messages published
    MaxTrouble,   \* bound: car changes and dropped connections
    None

KafkaStreamParams ==
    /\ Sensor \in Core
    /\ Widgets \subseteq Normalized \cup Core \cup Live
    /\ LateTimers \in BOOLEAN
    /\ MaxMessages \in Nat /\ MaxTrouble \in Nat
    /\ None \notin Cars

VARIABLES
    stage,    \* the consumer: idle, starting, running or failed
    consumed, \* raw topics subscribed before run()
    sent,     \* messages published
    es,       \* the page's EventSource: state and the car of its URL
    wire,     \* events written to the stream, not yet read
    car,      \* selectedCar as rendered
    w,        \* the hook of each widget
    trouble

vars == <<stage, consumed, sent, es, wire, car, w, trouble>>

\* The state a hook starts from, and returns to when topic or car changes.
Reset == [data |-> None, at |-> None, fresh |-> FALSE, recent |-> FALSE,
          pending |-> None, timer |-> "off"]

Init ==
    /\ stage = "idle" /\ consumed = {} /\ sent = 0
    /\ car \in Cars
    /\ es = [state |-> "connecting", car |-> car] /\ wire = <<>>
    /\ w = [t \in Widgets |-> Reset]
    /\ trouble = 0

-----------------------------------------------------------------------------
(* The server *)

\* The first request starts the one consumer; later ones await the same start.
StartKafkaConsumer ==
    /\ stage = "idle" /\ es.state = "connecting"
    /\ stage' = "starting"
    /\ UNCHANGED <<consumed, sent, es, wire, car, w, trouble>>

\* ensureSubscribe: the topic is created if missing, then subscribed.
EnsureSubscribe(bad) == (Core \cup Live) \ bad

\* Topics are subscribed before run(): a live topic that cannot be is skipped,
\* any other failure rejects the start for good.
Started(bad) ==
    /\ stage = "starting"
    /\ stage' = IF bad \cap Core = {} THEN "running" ELSE "failed"
    /\ consumed' = IF bad \cap Core = {} THEN EnsureSubscribe(bad) ELSE {}
    /\ UNCHANGED <<sent, es, wire, car, w, trouble>>

\* The route answers once the consumer runs; a failed start is an HTTP error,
\* after which an EventSource does not retry.
Respond ==
    /\ es.state = "connecting" /\ stage \in {"running", "failed"}
    /\ es' = [es EXCEPT !.state = IF stage = "running" THEN "open" ELSE "dead"]
    /\ UNCHANGED <<stage, consumed, sent, wire, car, w, trouble>>

\* normalizeCar: a car the viewer does not know passes every filter.
Matches(m, c) == m.car \in {c, None}

\* resolveRawTopicsForRequested: where the data of a topic comes from.
Source(t) == IF t \in Normalized THEN Sensor ELSE t

\* The decoded payload of a raw message, one event per logical topic.
Routed(raw, m) ==
    SetToSeq({[topic |-> t, msg |-> m] : t \in {s \in Widgets : Source(s) = raw}})

\* eachMessage: decode, normalise and emit; the route of this page writes the
\* events of its car.
Publish(raw, c) ==
    /\ sent < MaxMessages
    /\ sent' = sent + 1
    /\ LET m == [id |-> sent + 1, car |-> c]
       IN  wire' = IF stage = "running" /\ raw \in consumed
                      /\ es.state = "open" /\ Matches(m, es.car)
                   THEN wire \o Routed(raw, m) ELSE wire
    /\ UNCHANGED <<stage, consumed, es, car, w, trouble>>

-----------------------------------------------------------------------------
(* The page *)

\* processEvent: filter, then show.
Process(h, m, c) ==
    IF Matches(m, c)
    THEN [h EXCEPT !.data = m, !.at = "new", !.fresh = TRUE, !.recent = TRUE]
    ELSE h

\* The subscribed handler: within sampleMs of the last update the event waits.
Handle(h, m, c) ==
    IF h.recent
    THEN [h EXCEPT !.pending = m, !.timer = IF @ = "off" THEN "armed" ELSE @]
    ELSE Process(h, m, c)

\* es.onmessage: dispatch to the widgets of that topic.
Receive ==
    /\ wire # <<>>
    /\ LateTimers \/ \A t \in Widgets : w[t].timer # "due"
    /\ LET e == Head(wire)
       IN  w' = [w EXCEPT ![e.topic] = Handle(@, e.msg, es.car)]
    /\ wire' = Tail(wire)
    /\ UNCHANGED <<stage, consumed, sent, es, car, trouble>>

\* The timer callback shows the event that waited.
Flush(t) ==
    /\ w[t].timer = "due"
    /\ LET h == [w[t] EXCEPT !.timer = "off", !.pending = None]
       IN  w' = [w EXCEPT ![t] =
                    IF w[t].pending = None THEN h
                    ELSE Process(h, w[t].pending, es.car)]
    /\ UNCHANGED <<stage, consumed, sent, es, wire, car, trouble>>

\* sampleMs passes; the timer was set for this moment.
Sample(t) ==
    /\ w[t].recent
    /\ w' = [w EXCEPT ![t].recent = FALSE,
                      ![t].timer = IF @ = "armed" THEN "due" ELSE @]
    /\ UNCHANGED <<stage, consumed, sent, es, wire, car, trouble>>

\* staleAfterMs passes without a message.
Age(t) ==
    /\ w[t].at = "new" /\ ~w[t].recent /\ w[t].timer = "off"
    /\ w' = [w EXCEPT ![t].at = "old"]
    /\ UNCHANGED <<stage, consumed, sent, es, wire, car, trouble>>

\* Mutant: a stale value is flagged but stays on screen.
PollFlagOnly(t) ==
    /\ w' = [w EXCEPT ![t].fresh = w[t].at = "new"]
    /\ UNCHANGED <<stage, consumed, sent, es, wire, car, trouble>>

\* The freshness poll.
Poll(t) ==
    /\ w' = [w EXCEPT ![t] =
                IF w[t].at = "old" THEN [@ EXCEPT !.fresh = FALSE, !.data = None]
                ELSE [@ EXCEPT !.fresh = w[t].at = "new"]]
    /\ UNCHANGED <<stage, consumed, sent, es, wire, car, trouble>>

\* The connection drops; the EventSource reconnects with history=none.
Drop ==
    /\ es.state = "open" /\ trouble < MaxTrouble
    /\ es' = [es EXCEPT !.state = "connecting"]
    /\ wire' = <<>>
    /\ trouble' = trouble + 1
    /\ UNCHANGED <<stage, consumed, sent, car, w>>

\* Another car is picked; the page renders before its effects run.
SetSelectedCar(c) ==
    /\ c # car /\ trouble < MaxTrouble
    /\ car' = c
    /\ trouble' = trouble + 1
    /\ UNCHANGED <<stage, consumed, sent, es, wire, w>>

\* The last handler leaves and the EventSource closes; the first to come back
\* opens one for the new URL.
SubscribeSSE == [state |-> "connecting", car |-> car]

\* Mutant: the value of the previous car stays.
RunEffectsKeepsData ==
    /\ es.car # car
    /\ es' = SubscribeSSE
    /\ wire' = <<>>
    /\ w' = [t \in Widgets |-> [Reset EXCEPT !.data = w[t].data]]
    /\ UNCHANGED <<stage, consumed, sent, car, trouble>>

\* All widgets unsubscribe, the EventSource closes, they subscribe again under
\* the new URL, and each hook resets.
RunEffects ==
    /\ es.car # car
    /\ es' = SubscribeSSE
    /\ wire' = <<>>
    /\ w' = [t \in Widgets |-> Reset]
    /\ UNCHANGED <<stage, consumed, sent, car, trouble>>

Next ==
    \/ StartKafkaConsumer
    \/ \E bad \in SUBSET (Core \cup Live) : Started(bad)
    \/ Respond
    \/ \E raw \in Core \cup Live, c \in Cars \cup {None} : Publish(raw, c)
    \/ Receive
    \/ \E t \in Widgets : Flush(t) \/ Sample(t) \/ Age(t) \/ Poll(t)
    \/ Drop
    \/ \E c \in Cars : SetSelectedCar(c)
    \/ RunEffects

\* Time passes, and intervals, timers and effects of the page run.
Fairness ==
    /\ WF_vars(RunEffects)
    /\ \A t \in Widgets : WF_vars(Flush(t)) /\ WF_vars(Sample(t))
                          /\ WF_vars(Age(t)) /\ WF_vars(Poll(t))

Spec == Init /\ [][Next]_vars /\ Fairness

-----------------------------------------------------------------------------
(* Properties *)

\* A widget never replaces what it shows by an older message (useKafkaStream
\* coalesces updates, and a held-back event must not come after a newer one).
ShownAdvances ==
    \A t \in Widgets :
        w[t].data # None /\ w'[t].data # None => w[t].data.id <= w'[t].data.id

\* Once the effects of a change of car have run, no widget shows a message of
\* another car, in whatever order messages, timers and the change came.
RightCar ==
    es.car = car =>
        \A t \in Widgets : w[t].data # None => Matches(w[t].data, car)

\* A widget that says the feed is live has a value of the selected feed.
FreshHasData == \A t \in Widgets : w[t].fresh => w[t].data # None

\* No value stays on screen for ever once messages stop: the poll clears it.
NothingLingers ==
    \A t \in Widgets : \A i \in 1 .. MaxMessages :
        (w[t].data # None /\ w[t].data.id = i)
            ~> ~(w[t].data # None /\ w[t].data.id = i)

=============================================================================
