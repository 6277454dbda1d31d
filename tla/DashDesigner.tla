---------------------------- MODULE DashDesigner ----------------------------
(***************************************************************************)
(* The dash designer: editors on several pages change layouts of the       *)
(* dash's screens, each screen with its own library on the server.  A      *)
(* library is saved 800 ms after a change with the version it was loaded   *)
(* from; the server refuses a save that is based on another version and    *)
(* the editor merges what it was about to save into the server's copy.     *)
(***************************************************************************)
EXTENDS Integers, FiniteSets, FiniteSetsExt, TLC

CONSTANTS
    Editors, Screens, First,    \* pages, dash screens, the one shown on opening
    Moves,                      \* what the users and the network do, see Does
    MaxEdits, MaxCalls,         \* bounds: user actions, calls of an editor in flight
    None

\* fresh: browsers that never had the designer open, the others left it with a layout
\* of their own selected; empty: nothing on the server; select: any layout is selected,
\* not only one's own; typing: the user goes on before a change is saved; slow: screens
\* are switched while calls are under way, and pulls are late; overlap: two saves are
\* handled at once; offline: calls fail.
DashDesignerParams ==
    /\ First \in Screens
    /\ Moves \subseteq {"edit", "own", "select", "add", "delete", "switch", "close", "refresh",
                        "send", "fresh", "empty", "typing", "slow", "overlap", "offline"}
    /\ {MaxEdits, MaxCalls} \subseteq Nat

Does(m) == m \in Moves

VARIABLES
    server,     \* per screen: layouts with their version, and savedAt, or None
    ed,         \* per editor: its screens, library, active layout, serverSavedAtRef
    timer,      \* per editor: the debounced save is pending
    cache,      \* per editor and screen: localStorage
    calls,      \* calls under way
    car,        \* per screen: the layout sent to the car
    high, mine, \* history: newest version saved, newest version edited, per layout
    edits

vars == <<server, ed, timer, cache, calls, car, high, mine, edits>>
history == <<high, mine>>

\* Layouts are edited by one editor each; 0 is the default every editor builds.
Layout(s, e, n) == [screen |-> s, by |-> e, n |-> n]
Library(items, active) == [items |-> items, active |-> active]
Build(s, e) == Library(Layout(s, e, 0) :> 0, Layout(s, e, 0))

Closed == [open |-> FALSE, screen |-> First, libScreen |-> First, base |-> None, lib |-> None]

Init ==
    /\ server = [s \in Screens |->
                   IF Does("empty") THEN [items |-> <<>>, at |-> None]
                   ELSE [items |-> [i \in {Layout(s, e, 1) : e \in Editors} |-> 0], at |-> 0]]
    /\ ed = [e \in Editors |-> Closed]
    /\ timer = [e \in Editors |-> FALSE]
    /\ cache = [e \in Editors |-> [s \in Screens |->
                  IF Does("fresh") THEN None
                  ELSE Library([i \in {Layout(s, d, 1) : d \in Editors} |-> 0], Layout(s, e, 1))]]
    /\ calls = {} /\ car = [s \in Screens |-> None]
    /\ high = <<>> /\ mine = <<>> /\ edits = 0

Call(e, op, s, l, base) ==
    [by |-> e, op |-> op, screen |-> s, lib |-> l, base |-> base, reply |-> None]
Calls(e) == {c \in calls : c.by = e}
Pulling(e) == \E c \in Calls(e) : c.op = "pull"

loadLibrary(e, s) == IF cache[e][s] # None THEN cache[e][s] ELSE Build(s, e)

\* setLib: the library changes and the effect caches it, in the namespace of
\* libScreenRef, and restarts the debounce.
setLib(e, r, l) ==
    /\ ed' = [ed EXCEPT ![e] = [r EXCEPT !.lib = l]]
    /\ cache' = [cache EXCEPT ![e][r.libScreen] = l]
    /\ timer' = [timer EXCEPT ![e] = TRUE]

\* The active layout stays selected if it is still there.
Reselect(items, active) ==
    Library(items, IF active \in DOMAIN items THEN active ELSE CHOOSE i \in DOMAIN items : TRUE)

-----------------------------------------------------------------------------
(* The editor *)

\* Unless "typing" or "slow", a change is saved and answered before the user turns
\* to something else.
Uses(e, m) ==
    /\ Does(m) /\ ed[e].open
    /\ (Calls(e) = {} /\ (m # "edit" => ~timer[e]))
       \/ (Does("typing") /\ ~Pulling(e)) \/ Does("slow")
    /\ edits < MaxEdits /\ edits' = edits + 1

Open(e) ==
    /\ ~ed[e].open
    /\ setLib(e, [Closed EXCEPT !.open = TRUE], loadLibrary(e, First))
    /\ calls' = calls \cup {Call(e, "pull", First, loadLibrary(e, First), None)}
    /\ UNCHANGED <<server, car, history, edits>>

\* onClose: the pending save is dropped; answers find nobody.
Close(e) ==
    /\ Uses(e, "close")
    /\ ed' = [ed EXCEPT ![e] = Closed]
    /\ timer' = [timer EXCEPT ![e] = FALSE]
    /\ UNCHANGED <<server, cache, calls, car, history>>

\* The active layout gets a new version.
setLayout(e) ==
    /\ Uses(e, "edit")
    /\ LET a == ed[e].lib.active
       IN  /\ a.by = e
           /\ setLib(e, ed[e], [ed[e].lib EXCEPT !.items[a] = edits + 1])
           /\ mine' = (a :> edits + 1) @@ mine
    /\ UNCHANGED <<server, calls, car, high>>

\* A widget is dragged or resized; added or deleted, or the layout reset; a property of
\* a widget is changed.
onMove(e) == setLayout(e)
EditWidgets(e) == setLayout(e)
PropertyPanel(e) == setLayout(e)

Select(e) ==
    /\ Uses(e, IF Does("select") THEN "select" ELSE "own")
    /\ \E i \in DOMAIN ed[e].lib.items \ {ed[e].lib.active} :
           /\ i.by = e \/ Does("select")
           /\ setLib(e, ed[e], [ed[e].lib EXCEPT !.active = i])
    /\ UNCHANGED <<server, calls, car, history>>

\* New, Duplicate, from a template.
addLayout(e) ==
    /\ Uses(e, "add")
    /\ LET i == Layout(ed[e].screen, e, edits + 2)
       IN  setLib(e, ed[e], Library(i :> 0 @@ ed[e].lib.items, i))
    /\ UNCHANGED <<server, calls, car, history>>

\* The button is disabled for the last layout.
deleteActive(e) ==
    /\ Uses(e, "delete") /\ Cardinality(DOMAIN ed[e].lib.items) > 1
    /\ LET items == [i \in DOMAIN ed[e].lib.items \ {ed[e].lib.active} |-> ed[e].lib.items[i]]
       IN  setLib(e, ed[e], Reselect(items, None))
    /\ UNCHANGED <<server, calls, car, history>>

switchScreen(e) ==
    \E s \in Screens \ {ed[e].screen} :
        /\ Uses(e, "switch")
        /\ setLib(e, [ed[e] EXCEPT !.screen = s, !.libScreen = s], loadLibrary(e, s))
        /\ calls' = calls \cup {Call(e, "pull", s, loadLibrary(e, s), None)}
        /\ UNCHANGED <<server, car, history>>

Refresh(e) ==
    /\ Uses(e, "refresh")
    /\ calls' = calls \cup {Call(e, "pull", ed[e].screen, ed[e].lib, None)}
    /\ UNCHANGED <<server, ed, timer, cache, car, history>>

\* Send to car: the layout shown, to the topic of the screen shown.
onSend(e) ==
    /\ Uses(e, "send")
    /\ car' = [car EXCEPT ![ed[e].screen] = ed[e].lib.active]
    /\ UNCHANGED <<server, ed, timer, cache, calls, history>>

\* The debounced pushToServer up to its await.
SaveTimeout(e) ==
    /\ timer[e] /\ Cardinality(Calls(e)) < MaxCalls
    /\ ~Pulling(e) \/ Does("slow")
    /\ timer' = [timer EXCEPT ![e] = FALSE]
    /\ calls' = calls \cup {Call(e, "push", ed[e].libScreen, ed[e].lib, ed[e].base)}
    /\ UNCHANGED <<server, ed, cache, car, history, edits>>

-----------------------------------------------------------------------------
(* The route *)

Reply(c, r) == calls' = (calls \ {c}) \cup {[c EXCEPT !.reply = r]}

ServerGet(c) ==
    /\ c.op = "pull" /\ c.reply = None
    /\ Reply(c, [kind |-> "read", items |-> server[c.screen].items,
                 at |-> IF server[c.screen].at = None THEN 0 ELSE server[c.screen].at])
    /\ UNCHANGED <<server, ed, timer, cache, car, history, edits>>

\* The file has moved on since the caller loaded it.
Conflicts(c) ==
    /\ c.base # None /\ server[c.screen].at # None
    /\ c.base # server[c.screen].at

Write(c) ==
    LET at == 1 + Max({0} \cup {server[s].at : s \in {t \in Screens : server[t].at # None}})
    IN  /\ server' = [server EXCEPT ![c.screen] = [items |-> c.lib.items, at |-> at]]
        /\ high' = [i \in DOMAIN c.lib.items \cup DOMAIN high |->
                      LET old == IF i \in DOMAIN high THEN high[i] ELSE 0
                          new == IF i \in DOMAIN c.lib.items THEN c.lib.items[i] ELSE 0
                      IN  IF new > old THEN new ELSE old]
        /\ Reply(c, [kind |-> "ok", items |-> <<>>, at |-> at])

\* The PUT: refused, written, or checked now and written later.
ServerPut(c) ==
    /\ c.op \in {"push", "seed"} /\ c.reply = None
    /\ IF Conflicts(c)
       THEN /\ Reply(c, [kind |-> "conflict", items |-> server[c.screen].items, at |-> server[c.screen].at])
            /\ UNCHANGED <<server, high>>
       ELSE \/ Write(c)
            \/ /\ Does("overlap")
               /\ Reply(c, [kind |-> "checked", items |-> <<>>, at |-> 0])
               /\ UNCHANGED <<server, high>>
    /\ UNCHANGED <<ed, timer, cache, car, mine, edits>>

ServerWrites(c) ==
    /\ c.reply # None /\ c.reply.kind = "checked"
    /\ Write(c)
    /\ UNCHANGED <<ed, timer, cache, car, mine, edits>>

-----------------------------------------------------------------------------
(* The answers *)

\* An answer for an editor that was closed, or a call that failed: nothing changes.
Dropped(c) ==
    /\ \/ ~ed[c.by].open /\ c.reply # None /\ c.reply.kind # "checked"
       \/ ed[c.by].open /\ Does("offline") /\ c.reply = None
    /\ calls' = calls \ {c}
    /\ UNCHANGED <<server, ed, timer, cache, car, history, edits>>

Saved(c) ==
    /\ c.reply # None /\ c.reply.kind = "ok" /\ ed[c.by].open
    /\ calls' = calls \ {c}
    /\ ed' = [ed EXCEPT ![c.by].base = c.reply.at]
    /\ UNCHANGED <<server, timer, cache, car, history, edits>>

\* Mutant: the server's copy wins, also for the layout being edited.
MergeTheirs(c) == c.reply.items @@ c.lib.items

\* The server's copy, the active layout of the save, and layouts only the save has.
Merge(c) ==
    LET own == {i \in DOMAIN c.lib.items : i = c.lib.active \/ i \notin DOMAIN c.reply.items}
    IN  [i \in own |-> c.lib.items[i]] @@ c.reply.items

Conflict(c) ==
    /\ c.reply # None /\ c.reply.kind = "conflict" /\ ed[c.by].open
    /\ calls' = calls \ {c}
    /\ IF c.op = "push"
       THEN setLib(c.by, [ed[c.by] EXCEPT !.base = c.reply.at],
                   Reselect(Merge(c), ed[c.by].lib.active))
       ELSE UNCHANGED <<ed, cache, timer>>
    /\ UNCHANGED <<server, car, history, edits>>

\* The rest of pullFromServer: adopt the server's library, or seed an empty one.
Pulled(c) ==
    /\ c.reply # None /\ c.reply.kind = "read" /\ ed[c.by].open
    /\ LET r == [ed[c.by] EXCEPT !.base = c.reply.at]
       IN  IF DOMAIN c.reply.items # {}
           THEN /\ setLib(c.by, [r EXCEPT !.libScreen = c.screen],
                          Reselect(c.reply.items, ed[c.by].lib.active))
                /\ calls' = calls \ {c}
           ELSE /\ ed' = [ed EXCEPT ![c.by] = r]
                /\ calls' = (calls \ {c}) \cup {Call(c.by, "seed", c.screen, c.lib, c.reply.at)}
                /\ UNCHANGED <<cache, timer>>
    /\ UNCHANGED <<server, car, history, edits>>

Next ==
    \/ \E e \in Editors : \/ Open(e) \/ Close(e) \/ onMove(e) \/ EditWidgets(e) \/ PropertyPanel(e)
                          \/ Select(e) \/ addLayout(e)
                          \/ deleteActive(e) \/ switchScreen(e) \/ Refresh(e) \/ onSend(e)
                          \/ SaveTimeout(e)
    \/ \E c \in calls : \/ ServerGet(c) \/ ServerPut(c) \/ ServerWrites(c) \/ Dropped(c)
                        \/ Saved(c) \/ Conflict(c) \/ Pulled(c)

Spec == Init /\ [][Next]_vars

-----------------------------------------------------------------------------
(* Properties *)

\* A layout belongs to the screen it was designed for: neither a library nor the car
\* ever has it under another screen.
RightNamespace ==
    \A s \in Screens :
        /\ \A i \in DOMAIN server[s].items : i.screen = s
        /\ car[s] # None => car[s].screen = s

\* No save replaces a layout that somebody else edited by an older version of it.
NoClobber ==
    \A s \in Screens : \A i \in DOMAIN server[s].items \cap DOMAIN high :
        server[s].items[i] = high[i]

\* Once every editor is at rest, every layout has the newest version its editor made,
\* whatever the other editors did to other layouts.
EditsSurvive ==
    (calls = {} /\ \A e \in Editors : ~timer[e]) =>
        \A i \in DOMAIN mine : i \in DOMAIN server[i.screen].items => server[i.screen].items[i] = mine[i]
=============================================================================
