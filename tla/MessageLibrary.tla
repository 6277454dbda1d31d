--------------------------- MODULE MessageLibrary ---------------------------
(***************************************************************************)
(* The library of driver messages: every trackside page keeps a copy,      *)
(* cached in its browser, pulls the shared copy when it opens, and saves   *)
(* its own copy 800 ms after any change; the leader's page also publishes  *)
(* the active messages to the car, retained.                               *)
(***************************************************************************)
EXTENDS Integers, Sequences, FiniteSets, SequencesExt, TLC

CONSTANTS
    Clients, Leader,        \* the pages, and the one that commands the car
    Team,                   \* whoever wrote the shared library at first
    MAX_ACTIVE_MESSAGES,
    Flaky,                  \* a pull may fail, or take longer than the 800 ms of a save
    Seeded,                 \* the server has a library
    MaxEdits, MaxOpens,     \* bounds: edits, pages opened
    None, Asked

MessageLibraryParams ==
    /\ Leader \in Clients /\ Team \notin Clients
    /\ {MAX_ACTIVE_MESSAGES, MaxEdits, MaxOpens} \subseteq Nat
    /\ {Flaky, Seeded} \subseteq BOOLEAN

VARIABLES
    lib,            \* each page's library (kept in localStorage while closed)
    open,
    timer,          \* the debounced save is pending
    pull,           \* None, Asked, or the library the server answered
    puts,           \* libraries on their way to the server
    server,
    linked, car,    \* the leader's link, and the set the car holds
    edits, opens

vars == <<lib, open, timer, pull, puts, server, linked, car, edits, opens>>
pages == <<open, pull, linked>>

\* A message is known by its author and number, and has a version.
Id(c, n) == [by |-> c, n |-> n]
Library(items, act) == [items |-> items, act |-> act]

\* Fresh ids, so two browsers never have the same defaults.
defaultMessageLibrary(c) == Library(Id(c, 0) :> 0, <<Id(c, 0)>>)

\* validateMessage, validateMessageLibrary: active ids that exist, up to the cap.
validateMessageLibrary(l) ==
    LET act == SelectSeq(l.act, LAMBDA i : i \in DOMAIN l.items)
    IN  Library(l.items, SubSeq(act, 1, IF Len(act) > MAX_ACTIVE_MESSAGES
                                        THEN MAX_ACTIVE_MESSAGES ELSE Len(act)))

\* The set that is sent to the car.
activeMessages(l) ==
    LET act == SelectSeq(l.act, LAMBDA i : i \in DOMAIN l.items)
    IN  [i \in DOMAIN act |-> <<act[i], l.items[act[i]]>>]

loadLibrary(c) ==
    LET l == validateMessageLibrary(lib[c])
    IN  IF DOMAIN l.items # {} THEN l ELSE defaultMessageLibrary(c)

Shared0 == Library(Id(Team, 0) :> 0 @@ Id(Team, 1) :> 0, <<Id(Team, 1)>>)

\* Browsers that are new, or that last saw the shared library.
Init ==
    /\ server = IF Seeded THEN Shared0 ELSE Library(<<>>, <<>>)
    /\ lib \in [Clients -> {Shared0, Library(<<>>, <<>>)}]
    /\ open = [c \in Clients |-> FALSE]
    /\ timer = [c \in Clients |-> FALSE]
    /\ pull = [c \in Clients |-> None]
    /\ puts = {} /\ linked = FALSE /\ car = <<>>
    /\ edits = 0 /\ opens = 0

\* The effect of TracksideApp that follows the leader's library.
Publishes(l) == car' = IF linked THEN activeMessages(l) ELSE car

\* setLib, and the effects of the change: cache, debounced save, car.
setLib(c, l) ==
    /\ lib' = [lib EXCEPT ![c] = l]
    /\ timer' = [timer EXCEPT ![c] = TRUE]
    /\ IF c = Leader THEN Publishes(l) ELSE UNCHANGED car

Open(c) ==
    /\ ~open[c] /\ opens < MaxOpens
    /\ open' = [open EXCEPT ![c] = TRUE]
    /\ pull' = [pull EXCEPT ![c] = Asked]
    /\ lib' = [lib EXCEPT ![c] = loadLibrary(c)]
    /\ timer' = [timer EXCEPT ![c] = TRUE]
    /\ opens' = opens + 1
    /\ UNCHANGED <<puts, server, linked, car, edits>>

\* The page is left or reloaded: timers and answers are gone.
Close(c) ==
    /\ open[c]
    /\ open' = [open EXCEPT ![c] = FALSE]
    /\ pull' = [pull EXCEPT ![c] = None]
    /\ timer' = [timer EXCEPT ![c] = FALSE]
    /\ linked' = (linked /\ c # Leader)
    /\ UNCHANGED <<lib, puts, server, car, edits, opens>>

\* The refresh button of the editor.
Refresh(c) ==
    /\ open[c] /\ pull[c] = None /\ edits < MaxEdits
    /\ pull' = [pull EXCEPT ![c] = Asked]
    /\ edits' = edits + 1
    /\ UNCHANGED <<lib, open, timer, puts, server, linked, car, opens>>

\* GET
ServerGet(c) ==
    /\ pull[c] = Asked
    /\ pull' = [pull EXCEPT ![c] = validateMessageLibrary(server)]
    /\ UNCHANGED <<lib, open, timer, puts, server, linked, car, edits, opens>>

fetchFails(c) ==
    /\ Flaky /\ pull[c] # None
    /\ pull' = [pull EXCEPT ![c] = None]
    /\ UNCHANGED <<lib, open, timer, puts, server, linked, car, edits, opens>>

\* The rest of pullFromServer: adopt, or seed a server that has nothing.
Pulled(c) ==
    /\ pull[c] \notin {None, Asked}
    /\ pull' = [pull EXCEPT ![c] = None]
    /\ IF DOMAIN pull[c].items # {}
       THEN setLib(c, pull[c]) /\ UNCHANGED puts
       ELSE puts' = puts \cup {lib[c]} /\ UNCHANGED <<lib, timer, car>>
    /\ UNCHANGED <<open, server, linked, edits, opens>>

SaveTimeout(c) ==
    /\ timer[c] /\ (Flaky \/ pull[c] = None)
    /\ timer' = [timer EXCEPT ![c] = FALSE]
    /\ puts' = puts \cup {lib[c]}
    /\ UNCHANGED <<lib, pages, server, car, edits, opens>>

\* PUT, or a request that is lost.
ServerPut(l) ==
    /\ l \in puts
    /\ puts' = puts \ {l}
    /\ server' \in {l, server}
    /\ UNCHANGED <<lib, timer, pages, car, edits, opens>>

Edits(c) == open[c] /\ edits < MaxEdits /\ edits' = edits + 1 /\ UNCHANGED <<pages, puts, server, opens>>

addMessage(c) ==
    /\ Edits(c)
    /\ setLib(c, [lib[c] EXCEPT !.items = @ @@ Id(c, edits + 1) :> 0])

duplicateMessage(c) ==
    \E i \in DOMAIN lib[c].items :
        /\ Edits(c)
        /\ setLib(c, [lib[c] EXCEPT !.items = @ @@ Id(c, edits + 1) :> @[i]])

updateMessage(c) ==
    \E i \in DOMAIN lib[c].items :
        /\ Edits(c)
        /\ setLib(c, [lib[c] EXCEPT !.items[i] = @ + 1])

removeMessage(c) ==
    \E i \in DOMAIN lib[c].items :
        /\ Edits(c)
        /\ setLib(c, Library([j \in DOMAIN lib[c].items \ {i} |-> lib[c].items[j]],
                             SelectSeq(lib[c].act, LAMBDA a : a # i)))

toggleActive(c) ==
    \E i \in DOMAIN lib[c].items :
        /\ Edits(c)
        /\ LET act == lib[c].act
           IN  \/ /\ Contains(act, i)
                  /\ setLib(c, [lib[c] EXCEPT !.act = SelectSeq(@, LAMBDA a : a # i)])
               \/ /\ ~Contains(act, i) /\ Len(act) < MAX_ACTIVE_MESSAGES
                  /\ setLib(c, [lib[c] EXCEPT !.act = Append(@, i)])

\* The leader's dash link comes up (the palette is pushed) or drops.
Link ==
    /\ open[Leader] /\ ~linked
    /\ linked' = TRUE
    /\ car' = activeMessages(lib[Leader])
    /\ UNCHANGED <<lib, open, timer, pull, puts, server, edits, opens>>

Unlink ==
    /\ linked
    /\ linked' = FALSE
    /\ UNCHANGED <<lib, open, timer, pull, puts, server, car, edits, opens>>

Next ==
    \/ \E c \in Clients : \/ Open(c) \/ Close(c) \/ Refresh(c) \/ ServerGet(c) \/ fetchFails(c)
                          \/ Pulled(c) \/ SaveTimeout(c) \/ addMessage(c) \/ duplicateMessage(c)
                          \/ updateMessage(c) \/ removeMessage(c) \/ toggleActive(c)
    \/ \E l \in puts : ServerPut(l)
    \/ Link \/ Unlink

Spec == Init /\ [][Next]_vars

-----------------------------------------------------------------------------
(* Properties *)

\* Whatever pages edit, remove, pull and save over each other, the palette of a page
\* names messages that exist, each once, and at most as many as the car may hold.
PaletteSound ==
    \A c \in Clients : open[c] =>
        LET act == lib[c].act
        IN  /\ ToSet(act) \subseteq DOMAIN lib[c].items
            /\ IsInjective(act)
            /\ Len(act) <= MAX_ACTIVE_MESSAGES

\* While the leader's link is up the car holds the palette of the leader's page, also
\* when it changed because of somebody else's edit.
CarHasPalette == (open[Leader] /\ linked) => car = activeMessages(lib[Leader])

\* The server's copy is the shared one: a page that is opened and not edited takes it
\* over and changes nothing for the others.
OpeningKeepsShared == (Seeded /\ edits = 0) => server = Shared0
=============================================================================
