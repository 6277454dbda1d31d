----------------------------- MODULE DashPanels -----------------------------
(* What the dash's screens make of a message: the pills of the driving screen *)
(* (ScreenOne.tsx), the faults of the park screen (PitDiagnostic.tsx) and of  *)
(* the shutdown screen (ScreenTwo.tsx), and the layouts trackside publishes   *)
(* in their place (validateLapCardLayout).                                    *)
EXTENDS Integers, Sequences, FiniteSets, SequencesExt

CONSTANTS Legs,        \* how many entries SHUTDOWN_NAMES has
          Placeholders,\* cells of the shutdown screen without a signal
          Unbound,     \* may a layout have a widget that names no channel?
          Parts,       \* which messages come: "diagnostics", "controls", "layouts"
          None

PanelsAssumption == Legs \in 1..8 /\ Placeholders \in Nat /\ Unbound \in BOOLEAN
                    /\ Parts \subseteq {"diagnostics", "controls", "layouts"}

VARIABLES shutdown,    \* the legs, TRUE where closed, or None
          flags,       \* [prndl, pos, neg, tc, level, regen, mode]
          layout       \* a published layout: None, or its widgets in order

vars == <<shutdown, flags, layout>>

Listed == 4            \* fault rows of the park screen
Gears == {"P", "D", None}
Contactors == {<<None, None>>} \cup (BOOLEAN \X BOOLEAN)   \* both from one packet
TcStates == {<<None, None>>, <<FALSE, 1>>, <<TRUE, 1>>}
Modes == {None} \cup 0..5
WidgetKinds == {"good", "malformed"} \cup (IF Unbound THEN {"unbound"} ELSE {})
Layouts == {None} \cup {<<>>} \cup {<<a>> : a \in WidgetKinds} \cup {<<a, b>> : a, b \in WidgetKinds}

Init == /\ shutdown = None /\ layout = None
        /\ flags = [prndl |-> None, pos |-> None, neg |-> None, tc |-> None, level |-> None, regen |-> None, mode |-> None]

\* Messages: one part of them changes at a time.
Diagnostics(s) == "diagnostics" \in Parts /\ shutdown' = s /\ UNCHANGED <<flags, layout>>
Leg(i) == "diagnostics" \in Parts /\ shutdown # None 
          /\ shutdown' = [shutdown EXCEPT ![i] = ~@] /\ UNCHANGED <<flags, layout>>
Controls(f) == "controls" \in Parts /\ flags' = f /\ UNCHANGED <<shutdown, layout>>
Publish(l) == "layouts" \in Parts /\ layout' = l /\ UNCHANGED <<shutdown, flags>>

Next == \/ \E s \in {None, [i \in 1..Legs |-> TRUE], [i \in 1..Legs |-> FALSE]} : Diagnostics(s)
        \/ \E i \in 1..Legs : Leg(i)
        \/ \E c \in Contactors : Controls([flags EXCEPT !.pos = c[1], !.neg = c[2]])
        \/ \E t \in TcStates : Controls([flags EXCEPT !.tc = t[1], !.level = t[2]])
        \/ \E g \in Gears : Controls([flags EXCEPT !.prndl = g])
        \/ \E r \in BOOLEAN \cup {None} : Controls([flags EXCEPT !.regen = r])
        \/ \E m \in Modes : Controls([flags EXCEPT !.mode = m])
        \/ \E l \in Layouts : Publish(l)
Spec == Init /\ [][Next]_vars

-----------------------------------------------------------------------------
(* Pills: their text, and whether they are lit.                               *)

Pill(text, lit, blink) == [text |-> text, lit |-> lit, blink |-> blink]
Truthy(x) == x = TRUE

TcPill == Pill(IF flags.tc = None THEN "dash" ELSE IF flags.tc /\ flags.level # None THEN "level" ELSE "OFF", Truthy(flags.tc), FALSE)
RegenPill == Pill(IF flags.regen = None THEN "dash" ELSE IF flags.regen THEN "ON" ELSE "OFF", Truthy(flags.regen), FALSE)
\* eventModeLabel: 0 is a dash, an unknown number is shown as it is.
ModePill == Pill(IF flags.mode \in {None, 0} THEN "dash" ELSE "mode", flags.mode \notin {None, 0}, FALSE)
GearPill == Pill(IF flags.prndl = None THEN "dash" ELSE flags.prndl, flags.prndl = "D", FALSE)
HvPill ==
  Pill(IF flags.pos = None THEN "dash" ELSE IF flags.pos THEN "ON" ELSE IF flags.neg THEN "WAIT" ELSE "OFF",
       Truthy(flags.pos), ~Truthy(flags.pos) /\ Truthy(flags.neg))

-----------------------------------------------------------------------------
(* Faults.                                                                    *)

\* faultIndices, in order.
FaultIndices == IF shutdown = None THEN None ELSE SelectSeq([i \in 1..Legs |-> i], LAMBDA i : ~shutdown[i])
FaultSummary == IF FaultIndices = None THEN "--" ELSE IF FaultIndices = <<>> THEN "SYSTEM OK" ELSE "ACTIVE"
PitRows == IF FaultIndices = None THEN <<>> ELSE SubSeq(FaultIndices, 1, IF Len(FaultIndices) > Listed THEN Listed ELSE Len(FaultIndices))
\* Mutant: one row fewer is left to count.
PitMoreOff == IF FaultIndices = None \/ Len(FaultIndices) <= Listed + 1 THEN 0 ELSE Len(FaultIndices) - Listed
PitMore == IF FaultIndices = None \/ Len(FaultIndices) <= Listed THEN 0 ELSE Len(FaultIndices) - Listed

\* The cells of the shutdown screen: the legs, then the placeholders.
CellStatus(c) == IF c > Legs \/ shutdown = None THEN "unknown" ELSE IF shutdown[c] THEN "good" ELSE "bad"
Cells == 1..(Legs + Placeholders)

-----------------------------------------------------------------------------
(* Layouts.                                                                   *)

\* validateLapCardLayout: an id, a known type and a place.
Validate(l) == IF l = None THEN None ELSE SelectSeq(l, LAMBDA w : w # "malformed")
Custom == Validate(layout) # None /\ Validate(layout) # <<>>
\* getByPath splits the path of every widget but a text; without one it throws,
\* and nothing above the screens catches it.
Drawn == IF ~Custom THEN "built-in" ELSE IF \E i \in DOMAIN Validate(layout) : Validate(layout)[i] = "unbound" THEN "blank" ELSE "custom"

-----------------------------------------------------------------------------
\* A pill is lit exactly when its text names something on, and blinks only
\* when it says to wait.
PillsLit ==
  /\ \A p \in {TcPill, RegenPill, ModePill, GearPill, HvPill} : p.lit <=> p.text \in {"level", "ON", "mode", "D"}
  /\ HvPill.blink <=> HvPill.text = "WAIT"

\* The park screen and the shutdown screen report the same faults: those
\* listed and those counted are the bad cells, and the first of them are listed.
FaultsAgree ==
  LET bad == {c \in Cells : CellStatus(c) = "bad"}
  IN /\ Len(PitRows) + PitMore = Cardinality(bad)
     /\ ToSet(PitRows) \subseteq bad
     /\ \A c \in bad \ ToSet(PitRows) : \A i \in DOMAIN PitRows : PitRows[i] < c
     /\ (FaultSummary = "SYSTEM OK" <=> bad = {} /\ shutdown # None)

\* No layout blanks the screen: it draws one with a widget in it, or its own.
NeverBlank == Drawn # "blank" /\ (Drawn = "custom" => \E i \in DOMAIN layout : layout[i] = "good")
=============================================================================
