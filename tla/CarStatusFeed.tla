--------------------------- MODULE CarStatusFeed ---------------------------
(***************************************************************************)
(* The classifier's car state on its way to the pages: the SSE bridge      *)
(* (api/car-status/stream) registers one handler per stream on the shared  *)
(* event bus, and the useCarStatus hook of each page opens a stream for    *)
(* its car, retries with a budget, and shows the latest event.             *)
(*                                                                         *)
(* bus.emit calls the handlers in the order they were registered, and an   *)
(* exception of one keeps the message from those behind it.  enqueue on a  *)
(* cancelled stream throws.  A client may leave while start() still        *)
(* awaits, when cleanup is the empty function: the report that start()     *)
(* then sends throws, and no handler is registered.                        *)
(***************************************************************************)
EXTENDS Naturals, Sequences, SequencesExt, FiniteSets

CONSTANTS
    Pages, Cars,
    Slots,          \* bound: streams that exist at once
    MAX_ATTEMPTS,   \* reconnects before the hook goes quiet
    Deployed,       \* the route exists
    HubUp,          \* startKafkaConsumer succeeds
    MaxEvents,      \* bound: events of the classifier
    MaxTrouble,     \* bound: dropped connections and car changes
    None

CarStatusFeedParams ==
    /\ MAX_ATTEMPTS \in Nat \ {0}
    /\ Deployed \in BOOLEAN /\ HubUp \in BOOLEAN
    /\ MaxEvents \in Nat /\ MaxTrouble \in Nat

VARIABLES
    stream,  \* server side: page, car, phase, whether the client is there, and
             \* whether enqueue is accepted (the stream is not cancelled)
    bus,     \* slots with a handler on the bus, in order
    wire,    \* frames on their way to the client of a slot
    hook,    \* the hook of each page
    sent,    \* events emitted
    trouble

vars == <<stream, bus, wire, hook, sent, trouble>>

Free == [page |-> None, car |-> None, phase |-> "free", here |-> FALSE, open |-> FALSE]

\* What a stream carries.
Event(n, c) == [id |-> n, car |-> c]
Status == Event(0, None)
End == Event(1, None)

\* setFeed(EMPTY), attempts = 0.
Empty(c) == [car |-> c, attempts |-> 0, retry |-> FALSE, event |-> None,
             available |-> FALSE, connect |-> TRUE]

Init ==
    /\ stream = [s \in Slots |-> Free]
    /\ bus = <<>>
    /\ wire = [s \in Slots |-> <<>>]
    /\ hook \in [Pages -> {Empty(c) : c \in Cars}]
    /\ sent = 0 /\ trouble = 0

-----------------------------------------------------------------------------
(* The bridge *)

\* The client is gone.  Abort and cancel both run cleanup, which is still the
\* empty function while start() awaits: the stream is cancelled all the same,
\* unless nobody had begun to read the response (unread).
Abort(st, b, gone, unread) ==
    [stream |-> [s \in Slots |->
        IF s \notin gone THEN st[s]
        ELSE IF st[s].phase = "starting" THEN [st[s] EXCEPT !.here = FALSE, !.open = unread]
        ELSE Free],
     bus |-> SelectSeq(b, LAMBDA s : s \notin gone)]

\* start() after its awaits: report, then register; or report and close.  The
\* report throws on a cancelled stream, and start() ends there.
Serve(s) ==
    /\ stream[s].phase = "starting"
    /\ stream' = [stream EXCEPT ![s] =
                    IF HubUp /\ @.open THEN [@ EXCEPT !.phase = "listening"]
                    ELSE IF @.here THEN [@ EXCEPT !.phase = "closed"] ELSE Free]
    /\ bus' = IF HubUp /\ stream[s].open THEN Append(bus, s) ELSE bus
    /\ wire' = IF stream[s].here
               THEN [wire EXCEPT ![s] = @ \o IF HubUp THEN <<Status>> ELSE <<Status, End>>]
               ELSE wire
    /\ UNCHANGED <<hook, sent, trouble>>

Wants(s, c) == stream[s].car = c

\* Handlers that run: up to the first that writes to a cancelled stream.
Reached(c) ==
    LET bad == {i \in DOMAIN bus : Wants(bus[i], c) /\ ~stream[bus[i]].open}
    IN  {bus[i] : i \in {j \in DOMAIN bus : \A k \in bad : j < k}}

\* An event of the classifier is emitted on the bus.
Emit(c) ==
    /\ sent < MaxEvents
    /\ sent' = sent + 1
    /\ wire' = [s \in Slots |-> IF s \in Reached(c) /\ Wants(s, c) /\ stream[s].here
                                THEN Append(wire[s], Event(sent + 1, c))
                                ELSE wire[s]]
    /\ UNCHANGED <<stream, bus, hook, trouble>>

-----------------------------------------------------------------------------
(* The hook *)

Sources(p) == {s \in Slots : stream[s].page = p /\ stream[s].here}

\* Close these streams; what was on the wire is not read.
Close(gone) ==
    \E unread \in BOOLEAN :
        LET a == Abort(stream, bus, gone, unread)
        IN  /\ stream' = a.stream /\ bus' = a.bus
            /\ wire' = [s \in Slots |-> IF s \in gone THEN <<>> ELSE wire[s]]

\* connect(): a new EventSource, from the effect or from the retry timer.
Connect(p, s) ==
    /\ hook[p].connect \/ hook[p].retry
    /\ stream[s].phase = "free"
    /\ hook' = [hook EXCEPT ![p].connect = FALSE, ![p].retry = FALSE]
    /\ stream' = [stream EXCEPT ![s] =
                    [page |-> p, car |-> hook[p].car, here |-> TRUE, open |-> TRUE,
                     phase |-> IF Deployed THEN "starting" ELSE "closed"]]
    /\ wire' = [wire EXCEPT ![s] = IF Deployed THEN <<>> ELSE <<End>>]
    /\ UNCHANGED <<bus, sent, trouble>>

\* es.onmessage: any frame refills the retry budget; events are shown.
Receive(p, s) ==
    /\ s \in Sources(p) /\ wire[s] # <<>> /\ Head(wire[s]) # End
    /\ LET f == Head(wire[s])
           h == [hook[p] EXCEPT !.attempts = 0]
       IN  hook' = [hook EXCEPT ![p] = IF f = Status THEN h
                                       ELSE [h EXCEPT !.event = f, !.available = TRUE]]
    /\ wire' = [wire EXCEPT ![s] = Tail(@)]
    /\ UNCHANGED <<stream, bus, sent, trouble>>

\* es.onerror: close, and retry after a delay while the budget lasts.
Errors(h) ==
    IF h.attempts + 1 >= MAX_ATTEMPTS
    THEN [h EXCEPT !.attempts = @ + 1, !.available = FALSE]
    ELSE [h EXCEPT !.attempts = @ + 1, !.retry = TRUE]

\* The server ended the stream.
Ended(p, s) ==
    /\ s \in Sources(p) /\ wire[s] # <<>> /\ Head(wire[s]) = End
    /\ hook' = [hook EXCEPT ![p] = Errors(@)]
    /\ Close({s})
    /\ UNCHANGED <<sent, trouble>>

\* The connection drops.
Drop(p, s) ==
    /\ trouble < MaxTrouble /\ s \in Sources(p)
    /\ trouble' = trouble + 1
    /\ hook' = [hook EXCEPT ![p] = Errors(@)]
    /\ Close({s})
    /\ UNCHANGED sent

\* The car changes: the effect closes its source and timer and starts over.
SetCar(p, c) ==
    /\ trouble < MaxTrouble /\ c # hook[p].car
    /\ trouble' = trouble + 1
    /\ hook' = [hook EXCEPT ![p] = Empty(c)]
    /\ Close(Sources(p))
    /\ UNCHANGED sent

Next ==
    \/ \E s \in Slots : Serve(s)
    \/ \E c \in Cars : Emit(c)
    \/ \E p \in Pages, s \in Slots :
          Connect(p, s) \/ Receive(p, s) \/ Ended(p, s) \/ Drop(p, s)
    \/ \E p \in Pages, c \in Cars : SetCar(p, c)

\* The server answers, the browser reads, and timers run.
Fairness ==
    /\ \A s \in Slots : WF_vars(Serve(s))
    /\ \A p \in Pages, s \in Slots : WF_vars(Receive(p, s)) /\ WF_vars(Ended(p, s))
    /\ \A p \in Pages : WF_vars(\E s \in Slots : Connect(p, s))

Spec == Init /\ [][Next]_vars /\ Fairness

-----------------------------------------------------------------------------
(* Properties *)

\* A hook that waits for nothing more has a stream, unless its budget is spent.
Attached ==
    \A p \in Pages :
        \/ hook[p].connect \/ hook[p].retry
        \/ hook[p].attempts >= MAX_ATTEMPTS
        \/ Cardinality(Sources(p)) = 1

\* "forwards the car_status Kafka topic to the browser": an event reaches every
\* page that listens to its car, however other pages came and went, those included
\* that left while their stream was starting: no handler before it throws.
EveryPageHears ==
    \A c \in Cars, s \in Slots :
        (Emit(c) /\ stream[s].phase = "listening" /\ stream[s].here /\ Wants(s, c))
            => Len(wire'[s]) = Len(wire[s]) + 1

\* "a bounded number of reconnect attempts, then it goes quiet": with no events
\* coming, every hook stops opening streams.
GoesQuiet == <>[](\A p \in Pages : ~hook[p].retry /\ Sources(p) = {})
=============================================================================
