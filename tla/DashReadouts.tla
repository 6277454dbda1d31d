---------------------------- MODULE DashReadouts ----------------------------
(* How a value is drawn: the bars and digits of the built-in driving screen   *)
(* (ScreenOne.tsx), and the widgets of a layout from trackside, as the        *)
(* designer previews them (viewer_tool) and as the car draws them (dashd      *)
(* frontend). Values are in thousandths; places on a bar in hundredths.       *)
EXTENDS Integers, FiniteSetsExt

CONSTANTS Sizes,     \* what a channel may carry, of either sign
          Formats,   \* formats of a widget
          Decimals,  \* its optional precision; None where it has none
          None

Values == Sizes \cup {-v : v \in Sizes}
Ranges == {<<-100, 100>>, <<0, 100>>, <<-50, 150>>, <<20, 100>>}
Kinds == {"value", "bar", "gauge", "delta"}
ValuesAssumption == Sizes \subseteq Nat /\ Decimals \subseteq 0..3 \cup {None}

VARIABLES value,   \* the channel's value, or None
          widget   \* the widget of the layout that shows it

vars == <<value, widget>>

Widget == [kind : Kinds, format : Formats, decimals : Decimals, range : Ranges, showSign : BOOLEAN]

Init == value = None /\ widget \in Widget
Receive(v) == value' = v /\ UNCHANGED widget
\* The strategist publishes the layout with another widget.
Design(w) == widget' = w /\ UNCHANGED value

Next == (\E v \in Values \cup {None} : Receive(v)) \/ \E w \in Widget : Design(w)
Spec == Init /\ [][Next]_vars

Abs(v) == IF v < 0 THEN -v ELSE v
Clamp(v, lo, hi) == IF v < lo THEN lo ELSE IF v > hi THEN hi ELSE v
\* n / d, to the nearest, for n >= 0.
Nearest(n, d) == (2 * n + d) \div (2 * d)

-----------------------------------------------------------------------------
(* The built-in driving screen.                                               *)

NoFill == [left |-> 50, width |-> 0, colour |-> "none"]
\* A bar with its zero at zero percent: green to the left, red to the right.
Fill(v, zero, negMax, posMax) ==
  LET width == IF v < 0 THEN (Min({Abs(v), negMax}) * zero) \div negMax ELSE (Min({v, posMax}) * (100 - zero)) \div posMax
  IN [left |-> IF v < 0 THEN zero - width ELSE zero, width |-> width, colour |-> IF v < 0 THEN "green" ELSE "red"]

RateBar(v) == IF v = None THEN NoFill ELSE Fill(v, 50, 500, 500)
BudgetBar(v) == IF v = None THEN NoFill ELSE Fill(v, 50, 150000, 150000)
PowerBar(v) == Fill(IF v = None THEN 0 ELSE v, 20, 20000, 80000)
TempBar(v) == (Clamp(IF v = None THEN 0 ELSE v, 0, 60000) * 100) \div 60000
SocBar(v) == (Clamp(IF v = None THEN 0 ELSE v, 0, 100000) * 100) \div 100000

\* Energy Delta: the integer part of one rounding, the tenth of another.
EnergyDelta(v) == [units |-> Abs(v) \div 1000, tenths |-> Nearest(Abs(v), 100) % 10]
\* fmtLapTime: minutes and hundredths of a second.
FmtLapTime(v) == [minutes |-> v \div 60000, hundredths |-> Nearest(v % 60000, 10)]

-----------------------------------------------------------------------------
(* Widgets.                                                                   *)

\* formatValue: how many plus signs, the digits, and how many are decimals.
Text(plus, digits, decimals) == [plus |-> plus, digits |-> digits, decimals |-> decimals]
FormatPlaces(fmt) == CASE fmt = "float2" -> 2 [] fmt = "float1" -> 1 [] fmt = "kwh" -> 2 [] OTHER -> 0
Power10(n) == CASE n = 0 -> 1 [] n = 1 -> 10 [] n = 2 -> 100 [] n = 3 -> 1000
FormatValue(v, fmt, decimals) ==
  IF v = None THEN Text(0, "--", 0)
  ELSE IF fmt = "bool" THEN Text(0, IF v >= 500 THEN "ON" ELSE "OFF", 0)
  ELSE IF fmt = "laptime" THEN Text(0, <<FmtLapTime(Abs(v)).minutes, FmtLapTime(Abs(v)).hundredths>>, 2)
  ELSE LET places == IF decimals # None THEN decimals ELSE FormatPlaces(fmt)
           step == (1000 \div Power10(places)) * (IF fmt = "kwh" THEN 1000 ELSE 1)
           digits == Nearest(Abs(v), step)
       IN Text(IF fmt = "whSigned" /\ v >= 0 THEN 1 ELSE 0, IF v < 0 THEN <<"-", digits>> ELSE digits, places)

\* The designer's preview of a value, and the car's: it has no decimals.
PreviewText(v, w) == FormatValue(v, w.format, w.decimals)
CarText(v, w) == FormatValue(v, w.format, None)

\* deltaColor with goodSign negative.
DeltaColor(v) == IF v = None \/ v = 0 THEN "zero" ELSE IF v < 0 THEN "green" ELSE "red"

\* A bidirectional, sign-coloured bar.
WidgetBar(v, w) ==
  LET lo == w.range[1] * 1000  hi == w.range[2] * 1000  val == IF v = None THEN lo ELSE v
      pct == Clamp(((val - lo) * 100) \div (hi - lo), 0, 100)
      zero == Clamp(((0 - lo) * 100) \div (hi - lo), 0, 100)
  IN [left |-> Min({zero, pct}), width |-> Abs(pct - zero), colour |-> DeltaColor(val)]

\* MiniRadialGauge in bidirectional mode: the arc between zero and the value.
RadialGauge(v, w) ==
  LET lo == w.range[1] * 1000  hi == w.range[2] * 1000
      pct == ((Clamp(IF v = None THEN lo ELSE v, lo, hi) - lo) * 100) \div (hi - lo)
      zero == ((0 - lo) * 100) \div (hi - lo)
  IN [left |-> Min({zero, pct}), width |-> Abs(pct - zero)]

\* A delta puts a plus before what formatValue made of a positive value.
DeltaText(v, w) ==
  LET mag == FormatValue(v, w.format, w.decimals)
  IN IF v # None /\ v > 0 /\ w.showSign THEN [mag EXCEPT !.plus = @ + 1] ELSE mag

-----------------------------------------------------------------------------
InTrack(f) == 0 <= f.left /\ f.left + f.width <= 100
Meets(f, zero) == f.left = zero \/ f.left + f.width = zero

\* The bars of the driving screen stay on their track and start at their zero,
\* whatever the value.
FillsInTrack ==
  /\ \A f \in {RateBar(value), BudgetBar(value)} : InTrack(f) /\ Meets(f, 50)
  /\ InTrack(PowerBar(value)) /\ Meets(PowerBar(value), 20)
  /\ TempBar(value) \in 0..100 /\ SocBar(value) \in 0..100

\* The arc of a gauge whose range has a zero starts there and stays in it.
GaugeInTrack ==
  widget.kind = "gauge" /\ widget.range[1] <= 0 =>
    LET g == RadialGauge(value, widget) IN InTrack(g) /\ Meets(g, ((0 - widget.range[1]) * 100) \div (widget.range[2] - widget.range[1]))

\* The place of the last digit that a text of a value has.
LastPlace(w, t) == (1000 \div Power10(t.decimals)) * (IF w.format = "kwh" THEN 1000 ELSE 1)
\* The value a text shows.
Shown(w, t) ==
  IF w.format = "laptime" THEN t.digits[1] * 60000 + t.digits[2] * 10
  ELSE (IF value < 0 THEN t.digits[2] ELSE t.digits) * LastPlace(w, t)

\* Each renderer rounds for itself, the driving screen in two parts: what the
\* driver reads is still within half of the last place of the value, on the screen
\* (but for a tenth that is rounded up to a whole), on the car's widgets and in the
\* designer's preview, and nothing below zero has a plus.
DigitsTrue ==
  value # None =>
    /\ LET d == EnergyDelta(value)
       IN d.tenths # 0 \/ Abs(value) % 1000 < 50
            => Abs(Abs(value) - (d.units * 1000 + d.tenths * 100)) <= 50
    /\ \A t \in {CarText(value, widget), PreviewText(value, widget), DeltaText(value, widget)} :
         /\ widget.format # "bool" => 2 * Abs(Abs(value) - Shown(widget, t)) <= LastPlace(widget, t)
         /\ t.plus > 0 => value >= 0

\* A budget bar of a layout goes the way the built-in one does, and in its
\* colour, so the driver reads both alike.
BarsAgree ==
  widget.kind = "bar" /\ widget.range[1] < 0 /\ value # None =>
    LET mine == WidgetBar(value, widget)  built == BudgetBar(value)
        zero == ((0 - widget.range[1]) * 100) \div (widget.range[2] - widget.range[1])
    IN mine.width > 0 /\ built.width > 0 =>
         (mine.left < zero <=> built.left < 50) /\ mine.colour = built.colour

=============================================================================
