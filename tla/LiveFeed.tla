------------------------------ MODULE LiveFeed ------------------------------
(***************************************************************************)
(* The trackside page's live feed (TracksideApp startLiveData and its      *)
(* reconnect loop) and the stream route behind it (motec/live/stream).     *)
(*                                                                         *)
(* startLiveData awaits the feed's configuration before it opens an        *)
(* EventSource, so several calls may be under way at once.  An EventSource *)
(* that fails fires onerror and, unless it is closed, reconnects by        *)
(* itself; onerror and a refused status close whatever liveSourceRef       *)
(* holds, not the stream they came from.                                   *)
(***************************************************************************)
EXTENDS Naturals, FiniteSets

CONSTANTS
    Streams,      \* EventSource objects, reused once closed
    NoStream,     \* liveSourceRef.current is null
    MaxCalls,     \* bound: startLiveData calls awaiting the configuration
    MaxPresses,   \* bound: sessions started, reset or stopped
    MaxFaults,    \* bound: dropped streams and failed configuration fetches
    MaxOutages    \* bound: times the broker is out of reach

FeedParams ==
    /\ NoStream \notin Streams
    /\ MaxCalls \in Nat \ {0}
    /\ MaxPresses \in Nat /\ MaxFaults \in Nat /\ MaxOutages \in Nat

VARIABLES
    intent,     \* liveShouldRunRef
    ref,        \* liveSourceRef
    timer,      \* reconnectTimerRef is set
    calls,      \* startLiveData calls awaiting api.liveConfig
    source,     \* each EventSource: closed, connecting or open
    route,      \* the server's end of it: none, starting, live or refused
    running, connected,   \* what the page shows
    broker,     \* Kafka can be reached
    mounted,
    presses, faults, outages

vars == <<intent, ref, timer, calls, source, route, running, connected, broker,
          mounted, presses, faults, outages>>

shown == <<running, connected>>
bounds == <<presses, faults, outages>>

\* Close what the reference holds: the request is aborted, the route cleans up.
Shut(r) == IF r = NoStream THEN source ELSE [source EXCEPT ![r] = "closed"]
ShutRoute(r) == IF r = NoStream THEN route ELSE [route EXCEPT ![r] = "none"]

\* startLiveData up to its await.  Its callers start from a null reference, so
\* there is no source for it to close.
StartLiveData ==
    /\ calls < MaxCalls
    /\ calls' = calls + 1
    /\ intent' = TRUE
    /\ timer' = FALSE
    /\ running' = TRUE
    /\ connected' = FALSE

\* s ended: the page closes the source it holds; if that is another one, s itself
\* reconnects.
CloseRef(s) ==
    /\ source' = [t \in Streams |-> CASE t = ref -> "closed"
                                      [] t = s -> "connecting"
                                      [] OTHER -> source[t]]
    /\ route' = [t \in Streams |-> CASE t = ref -> "none"
                                     [] t = s -> "starting"
                                     [] OTHER -> route[t]]
    /\ ref' = NoStream

\* Mutant: a retry is armed even when nobody wants the feed.
RetryAlways == timer' = TRUE

\* scheduleLiveReconnect
ScheduleReconnect == timer' = (timer \/ intent)

\* The timeout of the first mount.
AutoStart ==
    /\ mounted
    /\ presses = 0 /\ calls = 0 /\ ~intent
    /\ ~running /\ ref = NoStream
    /\ StartLiveData
    /\ UNCHANGED <<ref, source, route, broker, mounted, bounds>>

\* The reconnect timer fires.
RetryFires ==
    /\ timer
    /\ IF intent /\ ref = NoStream
       THEN StartLiveData
       ELSE timer' = FALSE /\ UNCHANGED <<calls, intent, shown>>
    /\ UNCHANGED <<ref, source, route, broker, mounted, bounds>>

\* The configuration arrives: a new EventSource, whatever happened meanwhile.
ConfigArrives(s) ==
    /\ calls > 0
    /\ source[s] = "closed" /\ route[s] = "none" /\ s # ref
    /\ calls' = calls - 1
    /\ source' = [source EXCEPT ![s] = "connecting"]
    /\ route' = [route EXCEPT ![s] = "starting"]
    /\ ref' = s
    /\ UNCHANGED <<intent, timer, shown, broker, mounted, bounds>>

ConfigFails ==
    /\ calls > 0
    /\ faults < MaxFaults
    /\ faults' = faults + 1
    /\ calls' = calls - 1
    /\ connected' = FALSE
    /\ ScheduleReconnect
    /\ UNCHANGED <<intent, ref, source, route, running, broker, mounted, presses,
                   outages>>

\* onopen
Opens(s) ==
    /\ source[s] = "connecting" /\ route[s] # "none"
    /\ source' = [source EXCEPT ![s] = "open"]
    /\ connected' = TRUE
    /\ UNCHANGED <<intent, ref, timer, calls, route, running, broker, mounted, bounds>>

\* The route's startKafkaConsumer: the stream goes live or is refused.
KafkaAnswers(s) ==
    /\ route[s] = "starting"
    /\ route' = [route EXCEPT ![s] = IF broker THEN "live" ELSE "refused"]
    /\ UNCHANGED <<intent, ref, timer, calls, source, shown, broker, mounted, bounds>>

\* A sample or a heartbeat of a live stream; a leader's sample sets running.
Receives(s) ==
    /\ source[s] = "open" /\ route[s] = "live"
    /\ connected' = TRUE
    /\ running' \in {running, TRUE}
    /\ UNCHANGED <<intent, ref, timer, calls, source, route, broker, mounted, bounds>>

\* The status frame of a refused stream: not ok, and the route has closed it.
\* A source the page does not hold reconnects by itself.
Refused(s) ==
    /\ source[s] = "open" /\ route[s] = "refused"
    /\ CloseRef(s)
    /\ running' = FALSE
    /\ connected' = FALSE
    /\ UNCHANGED <<intent, timer, calls, broker, mounted, bounds>>

\* The connection of a stream drops: onerror.
Drops(s) ==
    /\ source[s] # "closed"
    /\ faults < MaxFaults
    /\ faults' = faults + 1
    /\ CloseRef(s)
    /\ connected' = (connected /\ ~running)
    /\ ScheduleReconnect
    /\ UNCHANGED <<intent, calls, running, broker, mounted, presses, outages>>

\* clearLiveSessionState, as far as the feed goes.
ClearFeed ==
    /\ source' = Shut(ref)
    /\ route' = ShutRoute(ref)
    /\ ref' = NoStream

\* startNewSession and resetLiveSession: clear, then start again.
Restarts ==
    /\ mounted
    /\ presses < MaxPresses
    /\ presses' = presses + 1
    /\ ClearFeed
    /\ StartLiveData
    /\ UNCHANGED <<broker, mounted, faults, outages>>

\* stopEventAndDownload
StopEvent ==
    /\ mounted
    /\ presses < MaxPresses
    /\ presses' = presses + 1
    /\ intent' = FALSE
    /\ ClearFeed
    /\ timer' = FALSE
    /\ running' = FALSE
    /\ connected' = FALSE
    /\ UNCHANGED <<calls, broker, mounted, faults, outages>>

\* The effect's cleanup when the page is left.
Unmount ==
    /\ mounted
    /\ presses < MaxPresses
    /\ presses' = presses + 1
    /\ mounted' = FALSE
    /\ intent' = FALSE
    /\ timer' = FALSE
    /\ source' = Shut(ref)
    /\ route' = ShutRoute(ref)
    /\ UNCHANGED <<ref, calls, shown, broker, faults, outages>>

BrokerDown ==
    /\ broker
    /\ outages < MaxOutages
    /\ outages' = outages + 1
    /\ broker' = FALSE
    /\ UNCHANGED <<intent, ref, timer, calls, source, route, shown, mounted,
                   presses, faults>>

BrokerUp ==
    /\ ~broker
    /\ broker' = TRUE
    /\ UNCHANGED <<intent, ref, timer, calls, source, route, shown, mounted, bounds>>

-----------------------------------------------------------------------------

Init ==
    /\ intent = FALSE /\ ref = NoStream /\ timer = FALSE /\ calls = 0
    /\ source = [s \in Streams |-> "closed"]
    /\ route = [s \in Streams |-> "none"]
    /\ running = FALSE /\ connected = FALSE
    /\ broker = TRUE /\ mounted = TRUE
    /\ presses = 0 /\ faults = 0 /\ outages = 0

Next ==
    \/ AutoStart \/ RetryFires
    \/ \E s \in Streams : ConfigArrives(s)
    \/ ConfigFails
    \/ \E s \in Streams : Opens(s)
    \/ \E s \in Streams : KafkaAnswers(s)
    \/ \E s \in Streams : Receives(s)
    \/ \E s \in Streams : Refused(s)
    \/ \E s \in Streams : Drops(s)
    \/ Restarts \/ StopEvent \/ Unmount
    \/ BrokerDown \/ BrokerUp

\* Timers fire, fetches and streams are answered, and the broker comes back.
Fairness ==
    /\ WF_vars(AutoStart) /\ WF_vars(RetryFires) /\ WF_vars(BrokerUp)
    /\ WF_vars(\E s \in Streams : ConfigArrives(s))
    /\ \A s \in Streams :
          WF_vars(Opens(s)) /\ WF_vars(KafkaAnswers(s)) /\ WF_vars(Refused(s))

Spec == Init /\ [][Next]_vars /\ Fairness

-----------------------------------------------------------------------------
(* Properties *)

Flowing == \E s \in Streams : source[s] = "open" /\ route[s] = "live"

\* A retry is pending only while the feed is wanted: no order of drops, failed
\* fetches and stops leaves a timer behind that would restart a stopped feed.
RetryIsWanted == timer => intent

\* The page is never wedged: the reference of a mounted page never holds a closed
\* source, which the reconnect timer would take for a live one.
RefIsUsable == mounted /\ ref # NoStream => source[ref] # "closed"

\* The feed heals itself: once the faults end, a wanted feed flows for good.
Heals == <>[](intent => Flowing)

=============================================================================
