---------------------------- MODULE DashSettings ----------------------------
(* The dash's settings and its light or dark theme: SettingsContext.tsx,      *)
(* Settings.tsx and sunCalc.ts. Time is in quarters of an hour, UTC.          *)
EXTENDS Integers, Sequences, SequencesExt

CONSTANTS Sunrise,   \* sunriseUtcMin and sunsetUtcMin of the season, in quarters
          Sunset,    \* after UTC midnight of the day they are computed for
          MaxTime,   \* bound on time
          Moves      \* bound on key presses and reloads

Day == 96        \* quarters of an hour
Twilight == 1    \* CIVIL_TWILIGHT_MS
SunAssumption == Twilight <= Sunrise /\ Sunrise < Sunset /\ Sunset < Sunrise + Day /\ MaxTime \in Nat

VARIABLES settings,  \* [driver, theme]
          stored,    \* what localStorage holds
          light,     \* has the body the class theme-light?
          open,      \* is the Settings screen mounted?
          focus,     \* its focusIndex
          time, moves

vars == <<settings, stored, light, open, focus, time, moves>>

Themes == <<"auto", "dark", "light">>
Roster == <<"Oliver", "Luke", "Andrew", "Shreyas">>
Former == "Former"     \* a driver no longer in the roster
Default == [driver |-> "Oliver", theme |-> "auto"]

LoadSettings(raw) ==
  [driver |-> IF raw.driver \in ToSet(Roster) THEN raw.driver ELSE Default.driver,
   theme |-> IF raw.theme \in ToSet(Themes) THEN raw.theme ELSE Default.theme]

\* computeSunWindow: the sunrise and the sunset of t's UTC date.
SunWindow(t) == LET midnight == (t \div Day) * Day IN [rise |-> midnight + Sunrise, set |-> midnight + Sunset]

EffectiveAutoTheme(t) == LET w == SunWindow(t) IN w.rise - Twilight <= t /\ t < w.set + Twilight

Apply(theme, t) == IF theme = "auto" THEN EffectiveAutoTheme(t) ELSE theme = "light"

\* Switched on in the morning.
Init == /\ settings = Default /\ stored = Default /\ light = EffectiveAutoTheme(Sunrise)
        /\ open = FALSE /\ focus = 0 /\ time = Sunrise /\ moves = 0

Move == moves < Moves /\ moves' = moves + 1

\* A change is stored and applied by the effects behind it.
Set(next) == settings' = next /\ stored' = next /\ light' = Apply(next.theme, time)

\* The interval comes many times in a quarter of an hour, in auto only.
Poll == /\ time < MaxTime /\ time' = time + 1
        /\ light' = IF settings.theme = "auto" THEN EffectiveAutoTheme(time') ELSE light
        /\ UNCHANGED <<settings, stored, open, focus, moves>>

\* Enter leads to the screen and away from it; its focus starts again.
Enter == Move /\ open' = ~open /\ focus' = 0 /\ UNCHANGED <<settings, stored, light, time>>
ArrowUpDown(delta) == /\ Move /\ open /\ focus' = (focus + delta + 2) % 2
                      /\ UNCHANGED <<settings, stored, light, open, time>>

Option(options, value, delta) ==
  LET idx == (CHOOSE i \in DOMAIN options : options[i] = value) - 1
  IN options[((idx + delta + Len(options)) % Len(options)) + 1]

ArrowLeftRight(delta) ==
  /\ Move /\ open
  /\ Set(IF focus = 0 THEN [settings EXCEPT !.driver = Option(Roster, @, delta)]
         ELSE [settings EXCEPT !.theme = Option(Themes, @, delta)])
  /\ UNCHANGED <<open, focus, time>>

Reload == /\ Move /\ Set(LoadSettings(stored)) /\ open' = FALSE /\ focus' = 0 /\ UNCHANGED time
\* A build with another roster wrote the record.
NewRoster == /\ Move /\ stored' = [stored EXCEPT !.driver = Former] /\ UNCHANGED <<settings, light, open, focus, time>>

Next == \/ Poll \/ Enter \/ Reload \/ NewRoster
        \/ \E delta \in {-1, 1} : ArrowUpDown(delta) \/ ArrowLeftRight(delta)

Spec == Init /\ [][Next]_vars

-----------------------------------------------------------------------------
\* From a twilight before sunrise to one after sunset, on any day.
Daytime == \E d \in -1..(MaxTime \div Day) : d * Day + Sunrise - Twilight <= time /\ time < d * Day + Sunset + Twilight

\* The body has the class of the chosen theme, and in auto that of the sun.
ThemeShown == light = IF settings.theme = "auto" THEN Daytime ELSE settings.theme = "light"

=============================================================================
