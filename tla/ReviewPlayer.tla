---------------------------- MODULE ReviewPlayer ----------------------------
(* The playback clock of the drive-day review tool (lib/driveday/player.ts   *)
(* and the controls that drive it). One session of NLaps laps of LapLen      *)
(* units; the clock T runs from 0 to TD. The browser calls back on every     *)
(* display frame: a callback requested during a frame runs in the next one,  *)
(* in the order requested. Two kinds are requested: "tick" advances the      *)
(* clock, "frame" repaints and brings `sel', the lap shown, up to date.      *)
(* Clicks and keys run between frames.                                       *)
EXTENDS Integers, Sequences, FiniteSetsExt

CONSTANTS NLaps, LapLen,  \* the session
          Near,           \* player.ts: 80 and 50 ms, "as good as at the end"
          Rates,          \* playback speeds
          Gaps,           \* possible times between two display frames
          Uses,           \* which of "loop", "camera", "end" the user touches
          MaxQueue,       \* bound on callbacks waiting for the next frame
          None

SessionAssumption ==
  /\ NLaps \in Nat \ {0} /\ LapLen \in Nat \ {0} /\ Near \in Nat
  /\ Rates \subseteq Nat \ {0} /\ 1 \in Rates /\ Gaps \subseteq Nat \ {0}

VARIABLES T, sel,          \* the clock, and the lap the page works with
          playing, rate, endMode,
          loopA, loopB,
          anim, follow, focus,   \* camera: flight under way, following, zoomed to a corner
          now, next,       \* callbacks of the frame under way, of the next frame
          dirty,           \* a "frame" is already asked for
          lag,             \* performance.now() - lastTs
          gap, spent       \* length of this frame; how much of it was played

playback == <<playing, rate, endMode>>
loops == <<loopA, loopB>>
camera == <<anim, follow, focus>>
vars == <<T, sel, playback, loops, camera, now, next, dirty, lag, gap, spent>>

TD == NLaps * LapLen
Laps == 1..NLaps
Start(l) == (l - 1) * LapLen
EndOf(l) == l * LapLen
lapIndexAt(t) == IF t >= TD THEN NLaps ELSE t \div LapLen + 1
Clamp(t) == Max({0, Min({TD, t})})

Init == /\ T \in {Start(l) : l \in Laps} /\ sel = 1
        /\ playing = FALSE /\ rate \in Rates /\ endMode = "go"
        /\ loopA = None /\ loopB = None
        /\ anim = None /\ follow = FALSE /\ focus = None
        /\ now = <<>> /\ next = <<"frame">> /\ dirty = TRUE
        /\ lag = 0 /\ gap = 0 /\ spent = 0

-----------------------------------------------------------------------------
(* Asking the browser for callbacks.                                         *)

\* What schedule() adds to a queue of callbacks.
Scheduled(q) == IF dirty THEN q ELSE Append(q, "frame")
schedule == next' = Scheduled(next) /\ dirty' = TRUE

\* The clicks and keys run when no callback is running.
Idle == now = <<>> /\ Len(next) < MaxQueue

setT(t) == T' = Clamp(t) /\ schedule

FrameBegins == /\ now = <<>> /\ next /= <<>>
               /\ \E g \in Gaps : gap' = g /\ lag' = IF playing THEN g ELSE 0
               /\ now' = next /\ next' = <<>> /\ spent' = 0
               /\ UNCHANGED <<T, sel, playback, loops, camera, dirty>>

\* stepCam: a flight goes on until its time is over, following until the car
\* is in the middle.
stepCam(more) == /\ anim' = IF more THEN anim ELSE None
                 /\ more => anim /= None \/ follow
                 /\ UNCHANGED <<follow, focus>>

runFrame == /\ now /= <<>> /\ Head(now) = "frame" /\ now' = Tail(now)
            /\ sel' = lapIndexAt(T)
            /\ \E more \in BOOLEAN :
                 /\ stepCam(more)
                 /\ dirty' = more
                 /\ next' = IF more THEN Append(next, "frame") ELSE next
            /\ UNCHANGED <<T, playback, loops, lag, gap, spent>>

-----------------------------------------------------------------------------
(* One tick of the clock.                                                    *)

HasLoop == loopA /= None /\ loopB /= None /\ loopB > loopA

Wrapped(nt) == IF HasLoop /\ T <= loopB /\ nt > loopB
               THEN loopA + (nt - loopB) ELSE nt

Halt(t) == /\ setT(t) /\ playing' = FALSE

Run(t) == /\ T' = Clamp(t)
          /\ next' = Append(Scheduled(next), "tick") /\ dirty' = TRUE
          /\ UNCHANGED playing

\* Mutant: every tick counts the whole frame.
ElapsedFrame == gap * rate
Elapsed == lag * rate

AtLapEnd(nt) == LET end == EndOf(sel) IN
  IF nt >= end /\ endMode = "stop" THEN Halt(end - 1)
  ELSE LET m == IF nt >= end /\ endMode = "loop" THEN Start(sel) + (nt - end) ELSE nt
       IN IF m >= TD THEN Halt(TD) ELSE Run(m)

tick == /\ now /= <<>> /\ Head(now) = "tick" /\ now' = Tail(now)
        /\ IF playing
           THEN /\ AtLapEnd(Wrapped(T + Elapsed))
                /\ lag' = 0 /\ spent' = spent + Elapsed \div rate
           ELSE UNCHANGED <<T, next, dirty, playing, lag, spent>>
        /\ UNCHANGED <<sel, rate, endMode, loops, camera, gap>>

-----------------------------------------------------------------------------
(* What the user does to the clock.                                          *)

\* Where play() puts a clock that waits at the end of a lap or of the session.
Resumed == LET end == EndOf(sel)
               t == IF endMode = "stop" /\ T >= end - Near /\ T < TD - Near
                    THEN end + 1 ELSE T
           IN IF t >= TD - Near THEN 0 ELSE t

play(on) == /\ Idle /\ playing' = on /\ dirty' = TRUE
            /\ T' = IF on THEN Resumed ELSE T
            /\ lag' = IF on THEN 0 ELSE lag
            /\ next' = Scheduled(IF on THEN Append(next, "tick") ELSE next)
            /\ UNCHANGED <<sel, rate, endMode, loops, camera, now, gap, spent>>

Seek(t) == /\ Idle /\ setT(t)
           /\ UNCHANGED <<sel, playback, loops, camera, now, lag, gap, spent>>

\* Scrubbing the timeline.
scrub == \E t \in 0..TD : Seek(t)

\* stepLap works from the lap shown, and goes to its start first when well into it.
stepLap(d) == LET n == IF d < 0 /\ T - Start(sel) > Near THEN sel ELSE sel + d
              IN Seek(Start(Max({1, Min({NLaps, n})})))

\* Stepping a GPS fix, clicking the track, jumping to a corner or a braking
\* zone: somewhere on the lap shown.
SeekOnLap == \E t \in Start(sel)..EndOf(sel) : Seek(t)

SetEnd == /\ "end" \in Uses /\ Idle /\ schedule
          /\ endMode' = [go |-> "stop", stop |-> "loop", loop |-> "go"][endMode]
          /\ UNCHANGED <<T, sel, playing, rate, loops, camera, now, lag, gap, spent>>

SetRate == /\ Idle /\ schedule /\ rate' \in Rates \ {rate}
           /\ UNCHANGED <<T, sel, playing, endMode, loops, camera, now, lag, gap, spent>>

LoopChange == /\ "loop" \in Uses /\ Idle /\ schedule
              /\ UNCHANGED <<sel, playback, camera, now, lag, gap, spent>>

setLoopA == /\ LoopChange /\ loopA' = T /\ UNCHANGED T
            /\ loopB' = IF loopB /= None /\ loopB <= T THEN None ELSE loopB

setLoopB == /\ LoopChange /\ loopB' = T /\ UNCHANGED T
            /\ loopA' = IF loopA /= None /\ loopA >= T THEN None ELSE loopA

clearLoop == LoopChange /\ loopA' = None /\ loopB' = None /\ UNCHANGED T

\* The corner under the playhead, on the lap shown, half a second either side.
loopSegment == /\ LoopChange
               /\ \E a, b \in Start(sel)..EndOf(sel) :
                    a < b /\ loopA' = a /\ loopB' = b /\ T' = a

-----------------------------------------------------------------------------
(* The camera.                                                               *)

CameraChange == /\ "camera" \in Uses /\ Idle /\ schedule
                /\ UNCHANGED <<sel, playback, loops, now, lag, gap, spent>>

\* Dragging the map or turning the wheel.
takeCamera == /\ CameraChange /\ UNCHANGED T
              /\ anim' = None /\ focus' = None /\ follow' = FALSE

setFollow(on) == /\ CameraChange /\ UNCHANGED T /\ follow' = on
                 /\ anim' = IF on THEN None ELSE anim
                 /\ focus' = IF on THEN None ELSE focus

flyFit == /\ CameraChange /\ UNCHANGED T
          /\ focus' = None /\ follow' = FALSE /\ anim' = "fly"

zoomBy == /\ CameraChange /\ UNCHANGED <<T, focus>>
          /\ follow' = FALSE /\ anim' = "fly"

\* focusSeg, focusZone: zoom to a corner or a braking zone and go there.
zoomArc == /\ CameraChange /\ focus' = "arc" /\ follow' = FALSE /\ anim' = "fly"
           /\ T' \in Start(sel)..EndOf(sel)

Callbacks == runFrame \/ tick

\* The same operations are reached from the buttons, the keyboard and the map.
TransportBar == \/ \E on \in BOOLEAN : on /= playing /\ play(on)
                \/ \E d \in {-1, 1} : stepLap(d)
                \/ SetEnd \/ SetRate
                \/ setLoopA \/ setLoopB \/ clearLoop \/ loopSegment
MapGestures == takeCamera \/ zoomBy \/ flyFit \/ setFollow(~follow)
Keys == SeekOnLap \/ \E d \in {-2, 2} : Seek(T + d)

User == scrub \/ TransportBar \/ MapGestures \/ Keys \/ zoomArc
Next == FrameBegins \/ Callbacks \/ User

\* The browser runs a requested callback in the end.
Fairness == WF_vars(FrameBegins) /\ WF_vars(Callbacks)

Spec == Init /\ [][Next]_vars /\ Fairness

-----------------------------------------------------------------------------
\* The page always catches up with the clock: the lap it works with is, again
\* and again, the lap the clock is in, whatever is pressed (runFrame, schedule).
SelCatchesUp == []<>(sel = lapIndexAt(T))

\* Playback is never faster than the wall clock at the chosen speed, although
\* pausing and playing within one frame leaves several chains of ticks running.
InTime == spent <= gap

\* As long as the page says it is playing, a tick is on its way.
KeepsTicking == playing => \E i \in 1..Len(now \o next) : (now \o next)[i] = "tick"

\* Following the car excludes a flight and a zoomed corner.
CameraOne == follow => anim = None /\ focus = None

\* A tick that starts inside the A-B loop, and is no longer than it, ends inside it.
LoopHolds ==
  (tick /\ playing /\ endMode = "go" /\ HasLoop /\ T \in loopA..loopB
   /\ Elapsed <= loopB - loopA)
    => T' \in loopA..loopB

\* Set to stop at the end of a lap, the clock does not leave the lap by itself.
StaysOnLap ==
  (tick /\ playing /\ endMode = "stop" /\ ~HasLoop /\ sel = lapIndexAt(T))
    => lapIndexAt(T') = sel

=============================================================================
