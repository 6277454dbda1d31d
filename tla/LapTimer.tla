------------------------------ MODULE LapTimer ------------------------------
(***************************************************************************)
(* Lap timing on the trackside page (TracksideApp processLiveSample,       *)
(* triggerManualLap, stopLap and the lap table).  A lap is closed by a     *)
(* trusted GPS step across the start/finish gate or by a press, which is   *)
(* stamped at the newest sample plus the time since it arrived; both feed  *)
(* one running lap.  Times are in abstract units, 0 stands for null, and   *)
(* energy is the VCU's energy-out counter, relayed as deltas.              *)
(***************************************************************************)
EXTENDS Naturals, Sequences, SequencesExt, FiniteSets, FiniteSetsExt

CONSTANTS
    MinLapMs,      \* a gate closes no lap shorter than this (5000)
    MinSectorMs,   \* nor a sector (500)
    PressWindowMs, \* a press is not extrapolated past this (2000)
    FreshMs,       \* telemetry is fresh for this long (3500)
    NumSplits,     \* split gates on the track
    Prompt,        \* samples come within PressWindowMs, and none is stamped
                   \* before a press that preceded it
    MaxT,          \* bound: car time
    MaxLaps,       \* bound: laps logged
    MaxEdits,      \* bound: edits, deletions, toggles and hand entries
    MaxReloads     \* bound: page reloads

LapParams ==
    /\ {MinLapMs, MinSectorMs, PressWindowMs, FreshMs, NumSplits, MaxT, MaxLaps, MaxEdits,
        MaxReloads} \subseteq Nat
    /\ Prompt \in BOOLEAN

VARIABLES
    last,      \* time of the newest sample
    since,     \* time since it arrived, FreshMs when there is none yet
    lap,       \* the running lap
    laps,      \* completed laps
    total,     \* energy out of the session
    selected,  \* ids of the laps that count
    mirror,    \* the page is read-only
    logged,    \* bound: laps logged so far, deleted ones included
    edits, reloads,
    halted     \* history: Stop Lap was pressed, and Start Lap not since

vars == <<last, since, lap, laps, total, selected, mirror, logged, edits, reloads, halted>>

NoLap == [start |-> 0, sectorStart |-> 0, nextSplit |-> 0, sectors |-> <<>>,
          energy |-> 0, disarmed |-> FALSE]

\* A lap begins at t; whether the gate is disarmed is left alone.
Begin(t, disarmed) ==
    [NoLap EXCEPT !.start = t, !.sectorStart = t, !.disarmed = disarmed]

Ids == {laps[i].id : i \in DOMAIN laps}

NewLap(kind, start, end, sectors, energy) ==
    [id |-> <<kind, Len(laps) + 1, end>>, kind |-> kind, start |-> start,
     end |-> end, duration |-> end - start, sectors |-> sectors,
     energy |-> energy, edited |-> FALSE]

\* selectCompletedLapByDefault and the append.
Log(l) ==
    /\ logged < MaxLaps
    /\ logged' = logged + 1
    /\ laps' = Append(laps, l)
    /\ selected' = selected \cup {l.id}

\* The car time of a press.
PressT == last + (IF since < PressWindowMs THEN since ELSE 0)

-----------------------------------------------------------------------------
(* processLiveSample: t and energy of the sample, and the gates its step crosses *)

Arrives(t, e) ==
    /\ t > last /\ t <= MaxT
    /\ Prompt => t >= PressT
    /\ last' = t
    /\ since' = 0
    /\ total' = total + e
    /\ UNCHANGED <<mirror, edits, reloads, halted>>

\* A mirror relays the energy and detects nothing.
MirrorSample(t, e) ==
    /\ mirror
    /\ Arrives(t, e)
    /\ UNCHANGED <<lap, laps, selected, logged>>

\* Mutant: the lap's energy is not reset at the line.
GateSampleKeepsEnergy(t, e) ==
    LET now == [lap EXCEPT !.energy = @ + e]
    IN  /\ ~mirror /\ last # 0
        /\ ~lap.disarmed
        /\ Arrives(t, e)
        /\ IF lap.start # 0 /\ t > lap.start + MinLapMs
           THEN Log(NewLap("flying", lap.start, t,
                           IF NumSplits > 0
                           THEN Append(lap.sectors, t - lap.sectorStart) ELSE <<>>,
                           now.energy))
           ELSE UNCHANGED <<laps, selected, logged>>
        /\ lap' = [Begin(t, lap.disarmed) EXCEPT !.energy = now.energy]

\* Across the armed start/finish gate: the running lap is closed when it is long
\* enough, and one begins in any case.
GateSample(t, e) ==
    /\ ~mirror /\ last # 0
    /\ ~lap.disarmed
    /\ Arrives(t, e)
    /\ IF lap.start # 0 /\ t > lap.start + MinLapMs
       THEN Log(NewLap("flying", lap.start, t,
                       IF NumSplits > 0
                       THEN Append(lap.sectors, t - lap.sectorStart) ELSE <<>>,
                       lap.energy + e))
       ELSE UNCHANGED <<laps, selected, logged>>
    /\ lap' = Begin(t, lap.disarmed)

\* Across the next split gate, if the sector is long enough.
SplitSample(t, e) ==
    /\ ~mirror /\ last # 0
    /\ lap.start # 0 /\ lap.nextSplit < NumSplits
    /\ t > lap.sectorStart + MinSectorMs
    /\ Arrives(t, e)
    /\ lap' = [lap EXCEPT !.energy = @ + e,
                          !.sectors = Append(@, t - lap.sectorStart),
                          !.sectorStart = t, !.nextSplit = @ + 1]
    /\ UNCHANGED <<laps, selected, logged>>

\* No gate, no fix, or a step too fast to be believed.
PlainSample(t, e) ==
    /\ ~mirror
    /\ Arrives(t, e)
    /\ lap' = [lap EXCEPT !.energy = @ + e]
    /\ UNCHANGED <<laps, selected, logged>>

-----------------------------------------------------------------------------
(* The buttons *)

\* The start and log buttons need fresh telemetry, Stop Lap does not.
Fresh == since < FreshMs

\* triggerManualLap with no lap running: it starts one and arms the gate.
StartLap ==
    /\ ~mirror /\ last # 0
    /\ Fresh
    /\ lap.start = 0
    /\ lap' = Begin(PressT, FALSE)
    /\ UNCHANGED <<last, since, laps, total, selected, mirror, logged, edits, reloads>>
    /\ halted' = FALSE

\* Close the running lap at the press; next says what runs afterwards.
CloseLap(next) ==
    /\ ~mirror /\ last # 0
    /\ lap.start # 0
    /\ PressT > lap.start
    /\ Log(NewLap("manual", lap.start, PressT, lap.sectors, lap.energy))
    /\ lap' = next
    /\ UNCHANGED <<last, since, total, mirror, edits, reloads>>

LogLap == Fresh /\ CloseLap(Begin(PressT, lap.disarmed)) /\ UNCHANGED halted

\* stopLap: the lap is closed and nothing is armed.
StopLap == CloseLap([NoLap EXCEPT !.disarmed = TRUE]) /\ halted' = TRUE

\* addManualLap: a duration timed elsewhere; it has no place on the car's clock.
AddManualLap(d) ==
    /\ ~mirror
    /\ edits < MaxEdits
    /\ edits' = edits + 1
    /\ Log(NewLap("byHand", 0, d, <<>>, 0))
    /\ UNCHANGED <<last, since, lap, total, mirror, reloads, halted>>

EditLapDuration(i, d) ==
    /\ ~mirror
    /\ edits < MaxEdits
    /\ edits' = edits + 1
    /\ laps' = [laps EXCEPT ![i].duration = d, ![i].edited = TRUE,
                            ![i].end = laps[i].start + d]
    /\ UNCHANGED <<last, since, lap, total, selected, mirror, logged, reloads, halted>>

DeleteLap(i) ==
    /\ ~mirror
    /\ edits < MaxEdits
    /\ edits' = edits + 1
    /\ laps' = RemoveAt(laps, i)
    /\ selected' = selected \ {laps[i].id}
    /\ UNCHANGED <<last, since, lap, total, mirror, logged, reloads, halted>>

ToggleLapSelected(id) ==
    /\ edits < MaxEdits
    /\ edits' = edits + 1
    /\ selected' = IF id \in selected THEN selected \ {id} ELSE selected \cup {id}
    /\ UNCHANGED <<last, since, lap, laps, total, mirror, logged, reloads, halted>>

\* What buildSavedSession keeps of the running lap, and restoreLiveState revives:
\* not the disarmed gate.
SavedLap == IF lap.start = 0 THEN NoLap ELSE [lap EXCEPT !.disarmed = FALSE]

\* defaultSelectedLapIds of a save that holds a selection.
RestoredSelection == selected \cap Ids

\* pagehide saves, the reload restores; the arrival time of the sample is lost.
Reload ==
    /\ reloads < MaxReloads
    /\ reloads' = reloads + 1
    /\ lap' = SavedLap
    /\ selected' = RestoredSelection
    /\ since' = FreshMs
    /\ mirror' = FALSE
    /\ UNCHANGED <<last, laps, total, logged, edits, halted>>

Elapse ==
    /\ since < (IF Prompt THEN PressWindowMs - 1 ELSE FreshMs)
    /\ since' = since + 1
    /\ UNCHANGED <<last, lap, laps, total, selected, mirror, logged, edits, reloads, halted>>

\* The role given by the presence route.
ChangeRole ==
    /\ edits < MaxEdits
    /\ edits' = edits + 1
    /\ mirror' = ~mirror
    /\ UNCHANGED <<last, since, lap, laps, total, selected, logged, reloads, halted>>

-----------------------------------------------------------------------------

Init ==
    /\ last = 0 /\ since = FreshMs /\ lap = NoLap /\ laps = <<>> /\ total = 0
    /\ selected = {} /\ mirror = FALSE
    /\ logged = 0 /\ edits = 0 /\ reloads = 0
    /\ halted = FALSE

Next ==
    \/ \E t \in 1 .. MaxT, e \in 0 .. 1 :
          \/ MirrorSample(t, e) \/ GateSample(t, e)
          \/ SplitSample(t, e) \/ PlainSample(t, e)
    \/ StartLap \/ LogLap \/ StopLap
    \/ \E d \in 1 .. 2 : AddManualLap(d)
    \/ \E i \in DOMAIN laps, d \in 0 .. 1 : EditLapDuration(i, d)
    \/ \E i \in DOMAIN laps : DeleteLap(i)
    \/ \E id \in Ids : ToggleLapSelected(id)
    \/ Reload \/ Elapse \/ ChangeRole

Spec == Init /\ [][Next]_vars

-----------------------------------------------------------------------------
(* Properties *)

SumSeq(s) == FoldLeft(LAMBDA a, b : a + b, 0, s)

\* The energy shown for the laps was really used, and once: whatever mix of gates,
\* presses, stops, reloads and roles closed them, the energies of the laps and of
\* the running one add up to no more than the session's total.
EnergyOnce ==
    SumSeq([i \in DOMAIN laps |-> laps[i].energy]) + lap.energy <= total

\* The sectors of a lap closed by the gate tile it, and those of a lap closed by a
\* press fit into it.
SectorsTile ==
    \A i \in DOMAIN laps :
       LET l == laps[i]
       IN  (~l.edited /\ l.sectors # <<>>) =>
              /\ l.kind = "flying" => SumSeq(l.sectors) = l.duration
              /\ l.kind = "manual" => SumSeq(l.sectors) <= l.duration

\* No stretch of car time is in two laps, and every lap id names one lap.
LapsDisjoint ==
    \A i, j \in DOMAIN laps :
       i < j =>
          /\ laps[i].id # laps[j].id
          /\ (/\ laps[i].kind # "byHand" /\ laps[j].kind # "byHand"
              /\ ~laps[i].edited /\ ~laps[j].edited)
             => laps[i].end <= laps[j].start

\* A lap counts until the strategist deselects it and stays out until reselected:
\* no sample, edit, save or reload changes the choice.
ChoiceIsManual ==
    \A i \in DOMAIN laps :
       LET id == laps[i].id
       IN  (id \in Ids' /\ (id \in selected) # (id \in selected')) =>
              ToggleLapSelected(id)

\* After Stop Lap nothing runs until Start Lap is pressed, however often the car
\* crosses the line on its way back.
StopLapHolds == halted => lap.start = 0

=============================================================================
