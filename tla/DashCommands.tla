---------------------------- MODULE DashCommands ----------------------------
(***************************************************************************)
(* What trackside pages send to the car's dash over MQTT: the target power *)
(* and the lap deltas (sent again every second, stale after 5 s without),  *)
(* settings the broker retains, and one-shot commands.  Delivery over a    *)
(* link that is up is immediate; a link may also be half-open, when the    *)
(* page does not know yet that it is down.                                 *)
(***************************************************************************)
EXTENDS Integers, Sequences, FiniteSets

CONSTANTS
    Pages,
    Powers,         \* target powers
    MQTT_STALE,     \* seconds after which the car takes a value for stale
    Moves,          \* what may happen, see Does
    MaxPresses,     \* bound: user actions, link failures and car events
    None

DashCommandsParams ==
    /\ Powers \subseteq Nat /\ {MQTT_STALE, MaxPresses} \subseteq Nat
    /\ Moves \subseteq {"power", "noplan", "delta", "settings", "oneshot", "handover",
                        "drop", "half", "reload", "disconnect", "car"}

Does(m) == m \in Moves

VARIABLES
    leader,             \* the page that presence makes the leader
    status, net,        \* per page: dashSignals.status; its client's link, or None
    shown, delta,       \* per page: effectiveTargetPowerKw, the lap deltas; or None
    setting,            \* per page: a setting the broker retains (duration, palette, gate)
    powerRef, deltaRef, \* per page: what the keepalive sends
    outbox,             \* per page: qos 1 commands the client has not seen acknowledged
    retained,           \* the broker's copy of the setting
    car,                \* the dash: values, their age, and whether the leader sent them
    gear,               \* history: shifts and reboots of the car
    last,               \* history: the last target power sent, and what the page showed
    presses

vars == <<leader, status, net, shown, delta, setting, powerRef, deltaRef, outbox, retained,
          car, gear, last, presses>>
local == <<shown, delta, setting>>

isMirror(p) == leader # p
Reaches(p) == net[p] = "up"
Connected(p) == net[p] \in {"up", "half"}   \* client.connected

Off == [power |-> None, led |-> TRUE, age |-> 0, delta |-> None, deltaLed |-> TRUE,
        deltaAge |-> 0, setting |-> None, screen |-> None, message |-> None]
Empty == [screen |-> None, setting |-> None]

Init ==
    /\ leader \in Pages
    /\ status = [p \in Pages |-> "idle"] /\ net = [p \in Pages |-> None]
    /\ shown \in [Pages -> Powers] /\ delta = [p \in Pages |-> None]
    /\ setting = [p \in Pages |-> 0]
    /\ powerRef = [p \in Pages |-> None] /\ deltaRef = [p \in Pages |-> None]
    /\ outbox = [p \in Pages |-> Empty]
    /\ retained = None /\ car = Off /\ gear = 0 /\ last = None /\ presses = 0

Press(m) == Does(m) /\ presses < MaxPresses /\ presses' = presses + 1

-----------------------------------------------------------------------------
(* What a publication does *)

WithPower(c, p, v) == [c EXCEPT !.power = v, !.led = (leader' = p), !.age = 0]
WithDelta(c, p, v) == [c EXCEPT !.delta = v, !.deltaLed = (leader' = p), !.deltaAge = 0]

\* What the car is after the effects of page p that send on a change: the target power
\* on every page, deltas and settings on the leader's only.
TargetPowerEffect(p, c) ==
    IF status'[p] = "connected" /\ shown'[p] # None /\ net'[p] = "up"
    THEN WithPower(c, p, shown'[p]) ELSE c

DeltaEffect(p, c) ==
    IF leader' = p /\ status'[p] = "connected" /\ delta'[p] # None /\ net'[p] = "up"
    THEN WithDelta(c, p, delta'[p]) ELSE c

\* The effects of the settings run; a half-open link keeps what they publish (qos 1).
Pushes(p) == leader' = p /\ status'[p] = "connected"

TargetPowerRef(p) ==
    powerRef' = IF status'[p] = "connected" /\ shown'[p] # None
                THEN [powerRef EXCEPT ![p] = shown'[p]] ELSE powerRef

DeltaRef(p) ==
    deltaRef' = IF leader' = p /\ status'[p] = "connected"
                THEN [deltaRef EXCEPT ![p] = delta'[p]] ELSE deltaRef

\* All effects of page p run after its state changed; box is what its client still had
\* to deliver when it came up.
Effects(p, box) ==
    /\ TargetPowerRef(p) /\ DeltaRef(p)
    /\ last' = IF status'[p] = "connected" /\ shown'[p] # None
               THEN [value |-> shown'[p], shown |-> shown'[p]] ELSE last
    /\ retained' = IF Pushes(p) /\ net'[p] = "up" THEN setting'[p]
                   ELSE IF box.setting # None THEN box.setting ELSE retained
    /\ outbox' = IF Pushes(p) /\ net'[p] = "half" THEN [outbox EXCEPT ![p].setting = setting'[p]]
                 ELSE IF box # Empty THEN [outbox EXCEPT ![p] = Empty] ELSE outbox
    /\ LET c == DeltaEffect(p, TargetPowerEffect(p, car))
       IN  car' = [c EXCEPT !.setting = IF retained' # retained THEN retained' ELSE @,
                            !.screen = IF box.screen # None THEN box.screen ELSE @]

-----------------------------------------------------------------------------
(* The link *)

\* The effect that connects the leader's page once.
AutoConnect(p) ==
    /\ ~isMirror(p) /\ status[p] = "idle"
    /\ status' = [status EXCEPT ![p] = "connecting"]
    /\ net' = [net EXCEPT ![p] = "down"]
    /\ UNCHANGED <<leader, local, powerRef, deltaRef, outbox, retained, car, gear, last, presses>>

\* The button: disabled for a mirror.  A prior client is torn down.
connect(p) ==
    /\ Press("disconnect") /\ ~isMirror(p) /\ status[p] = "closed"
    /\ status' = [status EXCEPT ![p] = "connecting"]
    /\ net' = [net EXCEPT ![p] = "down"] /\ outbox' = [outbox EXCEPT ![p] = Empty]
    /\ UNCHANGED <<leader, local, powerRef, deltaRef, retained, car, gear, last>>

disconnect(p) ==
    /\ Press("disconnect") /\ status[p] \in {"connected", "connecting"}
    /\ status' = [status EXCEPT ![p] = "closed"]
    /\ net' = [net EXCEPT ![p] = None] /\ outbox' = [outbox EXCEPT ![p] = Empty]
    /\ UNCHANGED <<leader, local, powerRef, deltaRef, retained, car, gear, last>>

\* The client's connect event, also of its own reconnect loop: commands that were never
\* acknowledged are sent again.
OnConnect(p) ==
    /\ net[p] = "down"
    /\ net' = [net EXCEPT ![p] = "up"]
    /\ status' = [status EXCEPT ![p] = "connected"]
    /\ UNCHANGED <<leader, local, gear, presses>>
    /\ Effects(p, outbox[p])

\* The link fails, noticed at once or not.
OnClose(p) ==
    /\ Press("drop") /\ Connected(p)
    /\ net' = [net EXCEPT ![p] = "down"]
    /\ status' = [status EXCEPT ![p] = "closed"]
    /\ UNCHANGED <<leader, local, powerRef, deltaRef, outbox, retained, car, gear, last>>

HalfOpen(p) ==
    /\ Press("half") /\ net[p] = "up"
    /\ net' = [net EXCEPT ![p] = "half"]
    /\ UNCHANGED <<leader, status, local, powerRef, deltaRef, outbox, retained, car, gear, last>>

\* The page is reloaded.
Reload(p) ==
    /\ Press("reload") /\ status[p] # "idle"
    /\ status' = [status EXCEPT ![p] = "idle"] /\ net' = [net EXCEPT ![p] = None]
    /\ powerRef' = [powerRef EXCEPT ![p] = None] /\ deltaRef' = [deltaRef EXCEPT ![p] = None]
    /\ outbox' = [outbox EXCEPT ![p] = Empty]
    /\ UNCHANGED <<leader, local, retained, car, gear, last>>

-----------------------------------------------------------------------------
(* The user and the plan *)

\* The power panel (disabled for a mirror), or a plan that moves every page's automatic
\* target, to none when laps or budget are missing.
SetPower(p, v) ==
    /\ Press("power") /\ ~isMirror(p) /\ v # shown[p]
    /\ v = None => Does("noplan")
    /\ shown' = [shown EXCEPT ![p] = v]
    /\ UNCHANGED <<leader, status, net, delta, setting, gear>>
    /\ Effects(p, Empty)

\* A lap ends: the deltas change, or there are none.
SetDelta(p, v) ==
    /\ Press("delta") /\ v # delta[p]
    /\ delta' = [delta EXCEPT ![p] = v]
    /\ UNCHANGED <<leader, status, net, shown, setting, gear>>
    /\ Effects(p, Empty)

\* A retained setting: lap card duration, budget, palette, start/finish gate.
ChangeSetting(p) ==
    /\ Press("settings") /\ ~isMirror(p)
    /\ setting' = [setting EXCEPT ![p] = presses + 1]
    /\ UNCHANGED <<leader, status, net, shown, delta, gear>>
    /\ Effects(p, Empty)

\* The debug override: qos 1, so a press on a half-open link is kept by the client.
publishScreen(p) ==
    /\ Press("oneshot") /\ ~isMirror(p) /\ status[p] = "connected" /\ Connected(p)
    /\ IF Reaches(p) THEN car' = [car EXCEPT !.screen = gear] /\ UNCHANGED outbox
                     ELSE outbox' = [outbox EXCEPT ![p].screen = gear] /\ UNCHANGED car
    /\ UNCHANGED <<leader, status, net, local, powerRef, deltaRef, retained, gear, last>>

ReleaseScreen(p) ==
    /\ Press("oneshot") /\ ~isMirror(p) /\ status[p] = "connected" /\ Connected(p)
    /\ IF Reaches(p) THEN car' = [car EXCEPT !.screen = None] /\ UNCHANGED outbox
                     ELSE outbox' = [outbox EXCEPT ![p].screen = None] /\ UNCHANGED car
    /\ UNCHANGED <<leader, status, net, local, powerRef, deltaRef, retained, gear, last>>

\* A driver message, or none of it: qos 0, lost on a link that is not up.
sendDriverMessage(p, m) ==
    /\ Press("oneshot") /\ ~isMirror(p) /\ status[p] = "connected"
    /\ car' = IF Reaches(p) THEN [car EXCEPT !.message = m] ELSE car
    /\ UNCHANGED <<leader, status, net, local, powerRef, deltaRef, outbox, retained, gear, last>>

\* A flag with "show on driver dash": the picked screen, one built from the flag's text
\* when none is picked or it was deleted, or nothing.
fireFlagDriverMessage(p) == \E m \in {"picked", "auto"} : sendDriverMessage(p, m)
clearDriverMessage(p) == car.message # None /\ sendDriverMessage(p, None)

\* Presence makes another page the leader; its effects depend on isMirror.
Handover(p) ==
    /\ Press("handover") /\ isMirror(p)
    /\ leader' = p
    /\ UNCHANGED <<status, net, local, gear>>
    /\ Effects(p, Empty)

-----------------------------------------------------------------------------
(* The second, and the car *)

\* Pages whose keepalive reaches the broker.
Keepalive(p) == Reaches(p)

Aged(c) ==
    [c EXCEPT !.age = IF @ < MQTT_STALE THEN @ + 1 ELSE @,
              !.deltaAge = IF @ < MQTT_STALE THEN @ + 1 ELSE @]

\* Every page's keepalive fires, in any order: the car has the values of the last.
Tick ==
    LET powers == {p \in Pages : Keepalive(p) /\ powerRef[p] # None}
        deltas == {p \in Pages : Keepalive(p) /\ deltaRef[p] # None}
        Last(senders) == IF senders = {} THEN {None} ELSE senders
    IN  \E p \in Last(powers), d \in Last(deltas) :
            /\ UNCHANGED <<leader, status, net, local, powerRef, deltaRef, outbox, retained, gear, presses>>
            /\ car' = LET c == IF p = None THEN Aged(car) ELSE WithPower(Aged(car), p, powerRef[p])
                      IN  IF d = None THEN c ELSE WithDelta(c, d, deltaRef[d])
            /\ last' = IF p = None THEN last ELSE [value |-> powerRef[p], shown |-> shown[p]]

\* The driver shifts; the dash reboots and loads what is retained.
Shift ==
    /\ Press("car")
    /\ gear' = gear + 1
    /\ car' = [car EXCEPT !.screen = None]
    /\ UNCHANGED <<leader, status, net, local, powerRef, deltaRef, outbox, retained, last>>

CarReboots ==
    /\ Press("car")
    /\ gear' = gear + 1
    /\ car' = [Off EXCEPT !.setting = retained]
    /\ UNCHANGED <<leader, status, net, local, powerRef, deltaRef, outbox, retained, last>>

Next ==
    \/ \E p \in Pages :
         \/ AutoConnect(p) \/ connect(p) \/ disconnect(p) \/ OnConnect(p) \/ OnClose(p) \/ HalfOpen(p)
         \/ Reload(p) \/ ChangeSetting(p) \/ publishScreen(p) \/ ReleaseScreen(p)
         \/ fireFlagDriverMessage(p) \/ clearDriverMessage(p) \/ Handover(p)
         \/ \E v \in Powers \cup {None} : SetPower(p, v) \/ SetDelta(p, v)
    \/ Tick \/ Shift \/ CarReboots

\* Time passes.
Fairness == WF_vars(Tick)

Spec == Init /\ [][Next]_vars /\ Fairness

-----------------------------------------------------------------------------
(* Properties *)

Linked(p) == leader = p /\ status[p] = "connected" /\ net[p] = "up"

\* Only the leader commands the car: the target power and the deltas the car holds were
\* sent by a page that led when it sent them.
LeaderCommands == car.led /\ car.deltaLed

\* What is sent as target power is what the sending page shows, by the keepalive too.
SendsShown == last # None => last.value = last.shown

\* A leader that is linked sees its retained settings in force, whatever was changed
\* while the link was down or somebody else led.
SettingInForce == \A p \in Pages : Linked(p) => retained = setting[p] /\ car.setting \in {retained, None}

\* A screen override on the dash was pressed in the present gear, since the last boot.
NotStranded == car.screen # None => car.screen = gear

\* The car comes to show the leader's target, also after a reboot or an outage.
TargetShown ==
    \A p \in Pages, v \in Powers :
        (Linked(p) /\ shown[p] = v) ~> (car.power = v \/ ~Linked(p) \/ shown[p] # v)

\* A delta the leader no longer has goes stale on the car.
DeltaExpires ==
    \A p \in Pages :
        (Linked(p) /\ delta[p] = None)
            ~> (car.delta = None \/ car.deltaAge = MQTT_STALE \/ ~Linked(p) \/ delta[p] # None)
=============================================================================
