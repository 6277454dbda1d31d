------------------------------ MODULE Debounce ------------------------------
(***************************************************************************)
(* The timing helpers of drivers/longhorn (debounce.hpp, can_inbox.hpp,    *)
(* analog.hpp) as operators on their private state.                        *)
(*                                                                         *)
(* The code stores the time `since_ms_` at which something began and asks  *)
(* lhal::ElapsedMs(now, since_ms_, interval).  Here the same state is the  *)
(* time that has elapsed since then, advanced by the `dt` of the tick and  *)
(* capped at the interval it is compared with: beyond the interval the     *)
(* code cannot tell two elapsed times apart.                               *)
(***************************************************************************)
EXTENDS Integers

\* x, but no more than limit
AtMost(x, limit) == IF x > limit THEN limit ELSE x

\* A time that has elapsed, one tick later.
Advance(elapsed, dt, limit) == AtMost(elapsed + dt, limit)

-----------------------------------------------------------------------------
(***************************************************************************)
(* Debouncer: a new level is reported once the raw input has held it for   *)
(* `debounce_ms`.  `held` counts only while the candidate differs from the *)
(* reported value; the code's since_ms_ (and its started_ flag) is not     *)
(* observable otherwise.                                                   *)
(***************************************************************************)
Debouncers(debounce_ms) ==
    [value : BOOLEAN, candidate : BOOLEAN, held : 0 .. debounce_ms]

NewDebouncer(initial) ==
    [value |-> initial, candidate |-> initial, held |-> 0]

Debounced(d, raw, dt, debounce_ms) ==
    LET held  == IF raw # d.candidate THEN 0
                                      ELSE Advance(d.held, dt, debounce_ms)
        value == IF raw # d.value /\ held >= debounce_ms THEN raw ELSE d.value
    IN  [value     |-> value,
         candidate |-> raw,
         held      |-> IF raw = value THEN 0 ELSE held]

-----------------------------------------------------------------------------
(***************************************************************************)
(* EdgeButton: a debounced push input whose press edge counts only after   *)
(* it has been seen released.  It starts "pressed".                        *)
(***************************************************************************)
EdgeButtons(debounce_ms) ==
    [debouncer : Debouncers(debounce_ms), last : BOOLEAN, armed : BOOLEAN]

NewEdgeButton ==
    [debouncer |-> NewDebouncer(TRUE), last |-> TRUE, armed |-> FALSE]

ButtonUpdated(b, pressed_raw, dt, debounce_ms) ==
    LET d == Debounced(b.debouncer, pressed_raw, dt, debounce_ms)
    IN  [debouncer |-> d, last |-> d.value, armed |-> b.armed \/ ~d.value]

\* What EdgeButton::Update returns when it takes b to c.
PressEdge(b, c) == c.last /\ ~b.last /\ b.armed

-----------------------------------------------------------------------------
(***************************************************************************)
(* PersistenceTimer: a condition counts once it has held for `hold_ms` and *)
(* drops at once when it clears.                                           *)
(***************************************************************************)
Inactive == -1

Timers(hold_ms) == Inactive .. hold_ms

TimerUpdated(t, condition, dt, hold_ms) ==
    CASE ~condition                    -> Inactive
      [] condition /\ t = Inactive     -> 0
      [] condition /\ t # Inactive     -> Advance(t, dt, hold_ms)

Persisted(t, hold_ms) == t # Inactive /\ t >= hold_ms

=============================================================================
