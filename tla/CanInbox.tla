------------------------------ MODULE CanInbox ------------------------------
(***************************************************************************)
(* drivers/longhorn can_inbox.hpp: the queue between the CAN receive       *)
(* interrupt, which calls Push, and the control task, which calls Pop.     *)
(* It has no lock: the two sides share the slots and the counters head_    *)
(* and tail_.  Every load, store and copy of one side is a step of its     *)
(* own, and the other side may run between any two of them.                *)
(*                                                                         *)
(* A frame is an id and its data, written and read separately; the data    *)
(* stands for the extended flag, the length and the bytes.                 *)
(***************************************************************************)
EXTENDS Naturals, Sequences, TLAPS

CONSTANTS
    Id, Data,       \* the parts of a frame
    kDepth,         \* frames the queue can hold
    CounterModulus, \* head_ and tail_ are size_t: they wrap here
    DropModulus,    \* so does dropped_
    Nothing         \* what a slot or a local holds before its first use

Frame == [id : Id, data : Data]

Blank == [id |-> Nothing, data |-> Nothing]

InboxParams ==
    /\ kDepth \in Nat \ {0}
    /\ CounterModulus \in Nat
    /\ CounterModulus > kDepth
    /\ CounterModulus % kDepth = 0
    /\ DropModulus \in Nat \ {0}
    /\ Nothing \notin Id /\ Nothing \notin Data

Counter == 0 .. CounterModulus - 1

VARIABLES
    slots, head, tail, dropped,
    push,      \* the interrupt: where it is, its frame and its copy of head_
    pop,       \* the task: where it is, its copy of tail_ and its frame
    received   \* what the last Pop that returned true handed over

vars == <<slots, head, tail, dropped, push, pop, received>>

\* a - b in the counters' unsigned arithmetic
Minus(a, b) == (a + CounterModulus - b) % CounterModulus

Successor(a) == (a + 1) % CounterModulus

Init ==
    /\ slots = [i \in 0 .. kDepth - 1 |-> Blank]
    /\ head = 0
    /\ tail = 0
    /\ dropped = 0
    /\ push = [pc |-> "idle", frame |-> Blank, head |-> 0]
    /\ pop = [pc |-> "idle", frame |-> Blank, tail |-> 0]
    /\ received = Blank

-----------------------------------------------------------------------------
(* Push *)

Malformed ==    \* frame.len > 8
    /\ push.pc = "idle"
    /\ dropped' = (dropped + 1) % DropModulus
    /\ UNCHANGED <<slots, head, tail, push, pop, received>>

\* Slip: one frame too many.
SlipFull(h, t) == Minus(h, t) > kDepth

Full(h, t) == Minus(h, t) >= kDepth

\* The two loads and the test.
PushCheck(frame) ==
    /\ push.pc = "idle"
    /\ \/ /\ Full(head, tail)
          /\ dropped' = (dropped + 1) % DropModulus
          /\ UNCHANGED push
       \/ /\ ~Full(head, tail)
          /\ push' = [pc |-> "id", frame |-> frame, head |-> head]
          /\ UNCHANGED dropped
    /\ UNCHANGED <<slots, head, tail, pop, received>>

PushId ==
    /\ push.pc = "id"
    /\ slots' = [slots EXCEPT ![push.head % kDepth].id = push.frame.id]
    /\ push' = [push EXCEPT !.pc = "data"]
    /\ UNCHANGED <<head, tail, dropped, pop, received>>

PushData ==
    /\ push.pc = "data"
    /\ slots' = [slots EXCEPT ![push.head % kDepth].data = push.frame.data]
    /\ push' = [push EXCEPT !.pc = "publish"]
    /\ UNCHANGED <<head, tail, dropped, pop, received>>

PushPublish ==
    /\ push.pc = "publish"
    /\ head' = Successor(push.head)
    /\ push' = [push EXCEPT !.pc = "idle"]
    /\ UNCHANGED <<slots, tail, dropped, pop, received>>

-----------------------------------------------------------------------------
(* Pop *)

\* The two loads and the test; an empty queue returns false.
PopCheck ==
    /\ pop.pc = "idle"
    /\ tail # head
    /\ pop' = [pc |-> "id", frame |-> Blank, tail |-> tail]
    /\ UNCHANGED <<slots, head, tail, dropped, push, received>>

PopId ==
    /\ pop.pc = "id"
    /\ pop' = [pop EXCEPT !.pc = "data",
                          !.frame.id = slots[pop.tail % kDepth].id]
    /\ UNCHANGED <<slots, head, tail, dropped, push, received>>

PopData ==
    /\ pop.pc = "data"
    /\ pop' = [pop EXCEPT !.pc = "release",
                          !.frame.data = slots[pop.tail % kDepth].data]
    /\ UNCHANGED <<slots, head, tail, dropped, push, received>>

\* The slot is given back and Pop returns true.
PopRelease ==
    /\ pop.pc = "release"
    /\ tail' = Successor(pop.tail)
    /\ received' = pop.frame
    /\ pop' = [pop EXCEPT !.pc = "idle"]
    /\ UNCHANGED <<slots, head, dropped, push>>

Push == (\E f \in Frame : PushCheck(f)) \/ Malformed
            \/ PushId \/ PushData \/ PushPublish
Pop  == PopCheck \/ PopId \/ PopData \/ PopRelease

Next == Push \/ Pop

Spec == Init /\ [][Next]_vars

\* An interrupt that has begun ends, and the control task drains again and again.
FairSpec ==
    /\ Spec
    /\ WF_vars(PushId \/ PushData \/ PushPublish)
    /\ WF_vars(Pop)

-----------------------------------------------------------------------------
(* Properties *)

\* Variables have their types; in particular Pop hands over whole frames of the
\* bus, never an unwritten slot.
TypeOK ==
    /\ slots \in [0 .. kDepth - 1 -> [id : Id \cup {Nothing},
                                      data : Data \cup {Nothing}]]
    /\ {head, tail, push.head, pop.tail} \subseteq Counter
    /\ dropped \in 0 .. DropModulus - 1
    /\ push.frame \in Frame \cup {Blank}
    /\ push.pc \in {"idle", "id", "data", "publish"}
    /\ pop.pc \in {"idle", "id", "data", "release"}
    /\ received \in Frame \cup {Blank}

\* The frames from tail_ up to head_, oldest first.
Contents ==
    [i \in 1 .. Minus(head, tail) |-> slots[(tail + i - 1) % kDepth]]

\* The inbox implements a bounded queue of whole frames: nothing is lost,
\* duplicated, reordered or torn between the interrupt and the task, also when
\* the queue is full and when the counters wrap.
Fifo == INSTANCE BoundedFifo WITH
    offered <- IF push.pc = "idle" THEN Blank ELSE push.frame,
    queue   <- Contents,
    None    <- Blank

ImplementsFifo == Fifo!FSpec

\* A frame that is in the queue is handed over in the end, however many follow
\* it, because a full queue drops the newest frame and not the oldest.
FrameDelivered ==
    \A c \in Counter : (tail = c /\ head # c) ~> (tail # c)

-----------------------------------------------------------------------------
(***************************************************************************)
(* The proof that the inbox implements the queue, for every depth, every   *)
(* set of frames and counters of any width that is a multiple of the depth.*)
(* Who may touch which slot is nowhere written down in the code: the slot  *)
(* behind head_ belongs to a Push under way and the one at tail_ to a Pop, *)
(* because neither counter moves before its owner is done.                 *)
(***************************************************************************)

\* The slot of the i-th frame in the queue, counted from zero.
SlotAt(i) == (tail + i) % kDepth

Size == Minus(head, tail)

Shape ==
    /\ slots \in [0 .. kDepth - 1 -> [id : Id \cup {Nothing}, data : Data \cup {Nothing}]]
    /\ head \in Counter /\ tail \in Counter
    /\ dropped \in 0 .. DropModulus - 1
    /\ push \in [pc : {"idle", "id", "data", "publish"}, frame : Frame \cup {Blank},
                 head : Counter]
    /\ pop \in [pc : {"idle", "id", "data", "release"},
                frame : [id : Id \cup {Nothing}, data : Data \cup {Nothing}],
                tail : Counter]
    /\ received \in Frame \cup {Blank}

\* A Push under way has room, writes behind the queue and has written what its
\* program counter says.
PushOwns ==
    push.pc # "idle" =>
        /\ push.head = head /\ push.frame \in Frame /\ Size < kDepth
        /\ push.pc # "id" => slots[head % kDepth].id = push.frame.id
        /\ push.pc = "publish" => slots[head % kDepth].data = push.frame.data

\* A Pop under way reads the oldest frame and has read what its program counter
\* says.
PopOwns ==
    pop.pc # "idle" =>
        /\ pop.tail = tail /\ Size > 0
        /\ pop.pc # "id" => pop.frame.id = slots[tail % kDepth].id
        /\ pop.pc = "release" => pop.frame.data = slots[tail % kDepth].data

\* What is in the queue are whole frames.
WholeFrames == \A i \in 0 .. Size - 1 : slots[SlotAt(i)] \in Frame

InboxInv == Shape /\ Size <= kDepth /\ PushOwns /\ PopOwns /\ WholeFrames

LEMMA ModIs ==
  ASSUME NEW k \in Nat \ {0}, NEW q \in Nat, NEW r \in 0 .. k - 1
  PROVE  (k * q + r) % k = r
OBVIOUS

\* Adding a multiple of the modulus changes nothing, and less than the modulus
\* always changes the remainder.
LEMMA ModFacts ==
  ASSUME NEW k \in Nat \ {0}, NEW a \in Nat
  PROVE  /\ a % k \in 0 .. k - 1
         /\ \A m \in Nat : m % k = 0 => (a + m) % k = a % k
         /\ \A d \in 1 .. k - 1 : (a + d) % k # a % k
<1>1. a % k \in 0 .. k - 1 /\ a = k * (a \div k) + (a % k) /\ a \div k \in Nat
  OBVIOUS
<1>2. ASSUME NEW m \in Nat, m % k = 0 PROVE (a + m) % k = a % k
  <2>1. m = k * (m \div k) /\ m \div k \in Nat
    BY <1>2
  <2> DEFINE q == (a \div k) + (m \div k)
             r == a % k
  <2>2. a + m = k * q + r /\ q \in Nat /\ r \in 0 .. k - 1
    BY <1>1, <2>1
  <2> HIDE DEF q, r
  <2>3. (k * q + r) % k = r
    BY <2>2, ModIs
  <2>. QED  BY <2>2, <2>3 DEF r
<1>3. ASSUME NEW d \in 1 .. k - 1 PROVE (a + d) % k # a % k
  <2> DEFINE q == a \div k
             r == a % k
  <2>1. a = k * q + r /\ q \in Nat /\ r \in 0 .. k - 1
    BY <1>1
  <2> HIDE DEF q, r
  <2>2. CASE r + d < k
    <3>1. (k * q + (r + d)) % k = r + d
      BY <2>1, <2>2, ModIs
    <3>. QED  BY <2>1, <3>1 DEF r
  <2>3. CASE r + d >= k
    <3>1. (k * (q + 1) + (r + d - k)) % k = r + d - k
      <4>1. q + 1 \in Nat /\ r + d - k \in 0 .. k - 1
        BY <2>1, <2>3
      <4>. QED  BY <4>1, ModIs
    <3>2. k * (q + 1) = k * q + k
      BY <2>1
    <3>. QED  BY <2>1, <3>1, <3>2 DEF r
  <2>. QED  BY <2>1, <2>2, <2>3
<1>. QED  BY <1>1, <1>2, <1>3

\* The counters' arithmetic.
LEMMA CounterFacts ==
  ASSUME InboxParams, NEW a \in Counter, NEW b \in Counter
  PROVE  /\ Minus(a, b) = IF a >= b THEN a - b ELSE a + CounterModulus - b
         /\ Minus(a, b) \in Counter
         /\ Successor(a) = IF a + 1 = CounterModulus THEN 0 ELSE a + 1
         /\ Successor(a) \in Counter
         /\ a # b => Minus(a, b) > 0 /\ Minus(a, Successor(b)) = Minus(a, b) - 1
         /\ Minus(a, b) < kDepth => Minus(Successor(a), b) = Minus(a, b) + 1
<1>1. CounterModulus \in Nat /\ CounterModulus > 0 /\ kDepth < CounterModulus /\ kDepth \in Nat
  BY DEF InboxParams
<1>2. \A x, y \in Counter : Minus(x, y) = IF x >= y THEN x - y ELSE x + CounterModulus - y
  BY <1>1 DEF Minus, Counter
<1>3. \A x \in Counter : /\ Successor(x) = IF x + 1 = CounterModulus THEN 0 ELSE x + 1
                         /\ Successor(x) \in Counter
  BY <1>1 DEF Successor, Counter
<1>4. Minus(a, b) \in Counter
  BY <1>1, <1>2 DEF Counter
<1>5. a # b => Minus(a, b) > 0 /\ Minus(a, Successor(b)) = Minus(a, b) - 1
  <2>1. Minus(a, Successor(b)) = IF a >= Successor(b) THEN a - Successor(b)
                                 ELSE a + CounterModulus - Successor(b)
    BY <1>2, <1>3
  <2>2. Minus(a, b) = IF a >= b THEN a - b ELSE a + CounterModulus - b
    BY <1>2
  <2>. QED  BY <1>1, <1>3, <2>1, <2>2 DEF Counter
<1>6. Minus(a, b) < kDepth => Minus(Successor(a), b) = Minus(a, b) + 1
  <2>1. Minus(Successor(a), b) = IF Successor(a) >= b THEN Successor(a) - b
                                 ELSE Successor(a) + CounterModulus - b
    BY <1>2, <1>3
  <2>2. Minus(a, b) = IF a >= b THEN a - b ELSE a + CounterModulus - b
    BY <1>2
  <2>. QED  BY <1>1, <1>3, <2>1, <2>2 DEF Counter
<1>. QED  BY <1>2, <1>3, <1>4, <1>5, <1>6

\* The slots of the queue: the one after its last frame is head_'s, no two of them
\* are the same, and they move with tail_.
LEMMA SlotFacts ==
  ASSUME InboxParams, head \in Counter, tail \in Counter
  PROVE  /\ \A i \in Nat : SlotAt(i) \in 0 .. kDepth - 1
         /\ head % kDepth \in 0 .. kDepth - 1
         /\ SlotAt(0) = tail % kDepth
         /\ SlotAt(Size) = head % kDepth
         /\ Size < kDepth => \A i \in 0 .. Size - 1 : SlotAt(i) # head % kDepth
         /\ \A i \in Nat : (Successor(tail) + i) % kDepth = SlotAt(i + 1)
<1>1. /\ CounterModulus \in Nat /\ kDepth \in Nat \ {0} /\ CounterModulus % kDepth = 0
      /\ head \in Nat /\ tail \in Nat
  BY DEF InboxParams, Counter
<1>2. /\ Size = IF head >= tail THEN head - tail ELSE head + CounterModulus - tail
      /\ Size \in Nat
  BY CounterFacts, <1>1 DEF Size, Counter
<1>3. \A i \in Nat : SlotAt(i) \in 0 .. kDepth - 1
  BY <1>1, ModFacts DEF SlotAt
<1>4. SlotAt(Size) = head % kDepth
  <2>1. tail + Size = head \/ tail + Size = head + CounterModulus
    BY <1>1, <1>2
  <2>2. (head + CounterModulus) % kDepth = head % kDepth
    BY <1>1, ModFacts
  <2>. QED  BY <2>1, <2>2 DEF SlotAt
<1>5. ASSUME Size < kDepth, NEW i \in 0 .. Size - 1 PROVE SlotAt(i) # head % kDepth
  <2>1. /\ tail + i \in Nat /\ Size - i \in 1 .. kDepth - 1
        /\ tail + Size = (tail + i) + (Size - i)
    BY <1>1, <1>2, <1>5
  <2>2. ((tail + i) + (Size - i)) % kDepth # (tail + i) % kDepth
    BY <1>1, <2>1, ModFacts
  <2>. QED  BY <1>4, <2>1, <2>2 DEF SlotAt
<1>6. ASSUME NEW i \in Nat PROVE (Successor(tail) + i) % kDepth = SlotAt(i + 1)
  <2>1. CASE tail + 1 = CounterModulus
    <3>1. Successor(tail) = 0 /\ tail + (i + 1) = i + CounterModulus
      BY <1>1, <2>1, CounterFacts
    <3>2. (i + CounterModulus) % kDepth = i % kDepth
      BY <1>1, ModFacts
    <3>. QED  BY <3>1, <3>2 DEF SlotAt
  <2>2. CASE tail + 1 # CounterModulus
    <3>1. Successor(tail) + i = tail + (i + 1)
      BY <1>1, <2>2, CounterFacts
    <3>. QED  BY <3>1 DEF SlotAt
  <2>. QED  BY <2>1, <2>2
<1>7. SlotAt(0) = tail % kDepth
  BY <1>1 DEF SlotAt
<1>8. head % kDepth \in 0 .. kDepth - 1
  BY <1>1, ModFacts
<1>. QED  BY <1>3, <1>4, <1>5, <1>6, <1>7, <1>8

LEMMA InboxInit == ASSUME InboxParams, Init PROVE InboxInv
<1>1. kDepth \in Nat \ {0} /\ CounterModulus \in Nat \ {0} /\ DropModulus \in Nat \ {0}
  BY DEF InboxParams
<1>2. head \in Counter /\ tail \in Counter /\ 0 \in Counter /\ Size = 0
  BY <1>1, CounterFacts DEF Init, Counter, Size
<1>3. Shape
  BY <1>1, <1>2 DEF Init, Shape, Blank
<1>. QED  BY <1>1, <1>2, <1>3 DEF Init, InboxInv, PushOwns, PopOwns, WholeFrames

\* The loads and tests: nothing shared changes but the count of dropped frames.
LEMMA CheckStep ==
  ASSUME InboxParams, InboxInv,
         Malformed \/ (\E f \in Frame : PushCheck(f)) \/ PopCheck
  PROVE  InboxInv'
<1>1. /\ UNCHANGED <<slots, head, tail, received>>
      /\ dropped' \in {dropped, (dropped + 1) % DropModulus}
  BY DEF Malformed, PushCheck, PopCheck
<1>2. DropModulus \in Nat \ {0} /\ dropped \in Nat /\ head \in Counter /\ tail \in Counter
  BY DEF InboxParams, InboxInv, Shape
<1>3. dropped' \in 0 .. DropModulus - 1
  BY <1>1, <1>2 DEF InboxInv, Shape
<1>4. Size' = Size /\ Size \in Nat /\ (tail # head => Size > 0)
  BY <1>1, <1>2, CounterFacts DEF Size, Counter, Minus
<1>5. /\ \/ push' = push
         \/ /\ ~Full(head, tail)
            /\ \E f \in Frame : push' = [pc |-> "id", frame |-> f, head |-> head]
      /\ \/ pop' = pop
         \/ /\ tail # head
            /\ pop' = [pc |-> "id", frame |-> Blank, tail |-> tail]
  BY DEF Malformed, PushCheck, PopCheck
<1>6. Shape'
  BY <1>1, <1>2, <1>3, <1>5 DEF InboxInv, Shape, Blank
<1>7. PushOwns'
  <2>1. CASE push' = push
    BY <1>1, <1>4, <2>1 DEF InboxInv, PushOwns
  <2>2. CASE /\ ~Full(head, tail)
             /\ \E f \in Frame : push' = [pc |-> "id", frame |-> f, head |-> head]
    <3>1. Size < kDepth
      BY <1>4, <2>2 DEF Full, Size, InboxParams
    <3>. QED  BY <1>1, <1>4, <2>2, <3>1 DEF PushOwns
  <2>. QED  BY <1>5, <2>1, <2>2
<1>8. PopOwns'
  <2>1. CASE pop' = pop
    BY <1>1, <1>4, <2>1 DEF InboxInv, PopOwns
  <2>2. CASE tail # head /\ pop' = [pc |-> "id", frame |-> Blank, tail |-> tail]
    BY <1>1, <1>4, <2>2 DEF PopOwns
  <2>. QED  BY <1>5, <2>1, <2>2
<1>9. WholeFrames'
  BY <1>1, <1>4 DEF InboxInv, WholeFrames, SlotAt
<1>. QED  BY <1>4, <1>6, <1>7, <1>8, <1>9 DEF InboxInv

\* A Push under way writes into the slot behind the queue, which is in nobody
\* else's hands.
LEMMA WriteSlotStep ==
  ASSUME InboxParams, InboxInv, PushId \/ PushData
  PROVE  /\ InboxInv'
         /\ Size' = Size
         /\ \A i \in 0 .. Size - 1 : slots'[SlotAt(i)] = slots[SlotAt(i)]
<1> DEFINE h == head % kDepth
<1>1. /\ UNCHANGED <<head, tail, dropped, pop, received>>
      /\ push.pc # "idle" /\ push.head = head /\ push.frame \in Frame /\ Size < kDepth
  BY DEF PushId, PushData, InboxInv, PushOwns
<1>2. head \in Counter /\ tail \in Counter /\ kDepth \in Nat \ {0}
  BY DEF InboxParams, InboxInv, Shape
<1>3. h \in 0 .. kDepth - 1 /\ Size \in Nat
  BY <1>2, SlotFacts, CounterFacts DEF Size, Counter
<1>4. /\ \A i \in 0 .. Size - 1 : SlotAt(i) # h /\ SlotAt(i) \in 0 .. kDepth - 1
      /\ SlotAt(0) = tail % kDepth
  BY <1>1, <1>2, <1>3, SlotFacts
<1> HIDE DEF h
<1>5. /\ slots \in [0 .. kDepth - 1 -> [id : Id \cup {Nothing}, data : Data \cup {Nothing}]]
      /\ push.frame.id \in Id /\ push.frame.data \in Data
  BY <1>1 DEF InboxInv, Shape, Frame
<1>6. \/ /\ push.pc = "id" /\ push' = [push EXCEPT !.pc = "data"]
         /\ slots' = [slots EXCEPT ![h].id = push.frame.id]
      \/ /\ push.pc = "data" /\ push' = [push EXCEPT !.pc = "publish"]
         /\ slots' = [slots EXCEPT ![h].data = push.frame.data]
  BY <1>1 DEF PushId, PushData, h
<1>7. Size' = Size
  BY <1>1 DEF Size
<1>8. \A i \in 0 .. Size - 1 : slots'[SlotAt(i)] = slots[SlotAt(i)]
  BY <1>4, <1>5, <1>6
<1>9. Shape'
  <2>1. slots' \in [0 .. kDepth - 1 -> [id : Id \cup {Nothing}, data : Data \cup {Nothing}]]
    BY <1>3, <1>5, <1>6
  <2>2. push' \in [pc : {"idle", "id", "data", "publish"}, frame : Frame \cup {Blank},
                   head : Counter]
    BY <1>6 DEF InboxInv, Shape
  <2>. QED  BY <1>1, <2>1, <2>2 DEF InboxInv, Shape
<1>10. PushOwns'
  <2>1. push'.head = push.head /\ push'.frame = push.frame
    BY <1>6 DEF InboxInv, Shape
  <2>2. CASE push.pc = "id"
    <3>1. slots'[h].id = push.frame.id /\ push'.pc = "data"
      <4>1. /\ push' = [push EXCEPT !.pc = "data"]
            /\ slots'[h] = [slots[h] EXCEPT !.id = push.frame.id]
        BY <1>3, <1>5, <1>6, <2>2
      <4>2. slots[h] \in [id : Id \cup {Nothing}, data : Data \cup {Nothing}]
        BY <1>3, <1>5
      <4>. QED  BY <4>1, <4>2 DEF InboxInv, Shape
    <3>. QED  BY <1>1, <1>7, <2>1, <3>1 DEF PushOwns, h
  <2>3. CASE push.pc = "data"
    <3>1. slots[h].id = push.frame.id
      BY <2>3 DEF InboxInv, PushOwns, h
    <3>2. /\ slots'[h].id = slots[h].id /\ slots'[h].data = push.frame.data
          /\ push'.pc = "publish"
      <4>1. /\ push' = [push EXCEPT !.pc = "publish"]
            /\ slots'[h] = [slots[h] EXCEPT !.data = push.frame.data]
        BY <1>3, <1>5, <1>6, <2>3
      <4>2. slots[h] \in [id : Id \cup {Nothing}, data : Data \cup {Nothing}]
        BY <1>3, <1>5
      <4>. QED  BY <4>1, <4>2 DEF InboxInv, Shape
    <3>. QED  BY <1>1, <1>7, <2>1, <3>1, <3>2 DEF PushOwns, h
  <2>. QED  BY <1>6, <2>2, <2>3
<1>11. PopOwns'
  <2>1. Size > 0 => slots'[tail % kDepth] = slots[tail % kDepth]
    BY <1>3, <1>4, <1>8
  <2>. QED  BY <1>1, <1>7, <2>1 DEF InboxInv, PopOwns
<1>12. WholeFrames'
  BY <1>1, <1>7, <1>8 DEF InboxInv, WholeFrames, SlotAt
<1>. QED  BY <1>7, <1>8, <1>9, <1>10, <1>11, <1>12 DEF InboxInv

\* Publishing makes the slot behind the queue its last.
LEMMA PublishStep ==
  ASSUME InboxParams, InboxInv, PushPublish
  PROVE  /\ InboxInv'
         /\ Size' = Size + 1
         /\ slots[SlotAt(Size)] = push.frame /\ push.frame \in Frame
<1>1. /\ UNCHANGED <<slots, tail, dropped, pop, received>>
      /\ push.pc = "publish" /\ push' = [push EXCEPT !.pc = "idle"]
      /\ push.head = head /\ push.frame \in Frame /\ Size < kDepth
      /\ head' = Successor(head)
      /\ slots[head % kDepth].id = push.frame.id
      /\ slots[head % kDepth].data = push.frame.data
  BY DEF PushPublish, InboxInv, PushOwns
<1>2. /\ head \in Counter /\ tail \in Counter /\ kDepth \in Nat \ {0}
      /\ slots \in [0 .. kDepth - 1 -> [id : Id \cup {Nothing}, data : Data \cup {Nothing}]]
  BY DEF InboxParams, InboxInv, Shape
<1>3. head' \in Counter /\ Size' = Size + 1 /\ Size \in Nat
  BY <1>1, <1>2, CounterFacts DEF Size, Counter
<1>4. slots[SlotAt(Size)] = push.frame
  <2>1. SlotAt(Size) = head % kDepth /\ head % kDepth \in 0 .. kDepth - 1
    BY <1>2, SlotFacts
  <2>. QED  BY <1>1, <1>2, <2>1 DEF Frame
<1>5. Shape'
  BY <1>1, <1>3 DEF InboxInv, Shape
<1>6. PushOwns'
  BY <1>1 DEF PushOwns, InboxInv, Shape
<1>7. PopOwns'
  BY <1>1, <1>3 DEF InboxInv, PopOwns
<1>8. WholeFrames'
  <2> SUFFICES ASSUME NEW i \in 0 .. Size PROVE slots[SlotAt(i)] \in Frame
    BY <1>1, <1>3 DEF WholeFrames, SlotAt
  <2>1. CASE i = Size
    BY <1>1, <1>4, <2>1
  <2>2. CASE i # Size
    BY <1>3, <2>2 DEF InboxInv, WholeFrames
  <2>. QED  BY <2>1, <2>2
<1>. QED  BY <1>1, <1>2, <1>3, <1>4, <1>5, <1>6, <1>7, <1>8 DEF InboxInv

\* A Pop under way reads the oldest frame, whose slot nobody writes.
LEMMA ReadSlotStep ==
  ASSUME InboxParams, InboxInv, PopId \/ PopData
  PROVE  InboxInv'
<1>1. /\ UNCHANGED <<slots, head, tail, dropped, push, received>>
      /\ pop.pc # "idle" /\ pop.tail = tail /\ Size > 0
  BY DEF PopId, PopData, InboxInv, PopOwns
<1>2. /\ tail % kDepth \in 0 .. kDepth - 1
      /\ slots \in [0 .. kDepth - 1 -> [id : Id \cup {Nothing}, data : Data \cup {Nothing}]]
  <2>1. tail \in Nat /\ kDepth \in Nat \ {0}
    BY DEF InboxParams, InboxInv, Shape, Counter
  <2>. QED  BY <2>1, ModFacts DEF InboxInv, Shape
<1>3. Size' = Size
  BY <1>1 DEF Size
<1>4. Shape' /\ PopOwns'
  <2>1. CASE PopId
    BY <1>1, <1>2, <1>3, <2>1 DEF PopId, InboxInv, Shape, PopOwns
  <2>2. CASE PopData
    BY <1>1, <1>2, <1>3, <2>2 DEF PopData, InboxInv, Shape, PopOwns
  <2>. QED  BY <2>1, <2>2
<1>5. PushOwns' /\ WholeFrames'
  BY <1>1, <1>3 DEF InboxInv, PushOwns, WholeFrames, SlotAt
<1>. QED  BY <1>3, <1>4, <1>5 DEF InboxInv

\* Releasing hands over the oldest frame, whole, and takes it from the queue.
LEMMA ReleaseStep ==
  ASSUME InboxParams, InboxInv, PopRelease
  PROVE  /\ InboxInv'
         /\ Size' = Size - 1 /\ Size > 0
         /\ received' = slots[SlotAt(0)]
         /\ \A i \in Nat : SlotAt(i)' = SlotAt(i + 1)
<1>1. /\ UNCHANGED <<slots, head, dropped, push>>
      /\ pop.pc = "release" /\ pop' = [pop EXCEPT !.pc = "idle"]
      /\ pop.tail = tail /\ Size > 0 /\ tail' = Successor(tail) /\ received' = pop.frame
      /\ pop.frame.id = slots[tail % kDepth].id
      /\ pop.frame.data = slots[tail % kDepth].data
  BY DEF PopRelease, InboxInv, PopOwns
<1>2. /\ head \in Counter /\ tail \in Counter /\ kDepth \in Nat \ {0}
      /\ slots \in [0 .. kDepth - 1 -> [id : Id \cup {Nothing}, data : Data \cup {Nothing}]]
      /\ pop.frame \in [id : Id \cup {Nothing}, data : Data \cup {Nothing}]
  BY DEF InboxParams, InboxInv, Shape
<1>3. Size \in Nat /\ head # tail
  <2>1. /\ Size = IF head >= tail THEN head - tail ELSE head + CounterModulus - tail
        /\ Size \in Counter
    BY <1>2, CounterFacts DEF Size
  <2>. QED  BY <1>1, <1>2, <2>1 DEF Counter
<1>4. tail' \in Counter /\ Size' = Size - 1
  BY <1>1, <1>2, <1>3, CounterFacts DEF Size
<1>5. SlotAt(0) = tail % kDepth /\ tail % kDepth \in 0 .. kDepth - 1
  BY <1>2, SlotFacts
<1>6. received' = slots[SlotAt(0)] /\ received' \in Frame
  <2>1. pop.frame = slots[tail % kDepth]
    BY <1>1, <1>2, <1>5
  <2>2. slots[SlotAt(0)] \in Frame
    BY <1>1, <1>3 DEF InboxInv, WholeFrames
  <2>. QED  BY <1>1, <1>5, <2>1, <2>2
<1>7. \A i \in Nat : SlotAt(i)' = SlotAt(i + 1)
  BY <1>1, <1>2, SlotFacts DEF SlotAt
<1>8. Shape'
  BY <1>1, <1>4, <1>6 DEF InboxInv, Shape
<1>9. PushOwns' /\ PopOwns'
  BY <1>1, <1>2, <1>3, <1>4 DEF InboxInv, Shape, PushOwns, PopOwns
<1>10. WholeFrames'
  <2> SUFFICES ASSUME NEW i \in 0 .. Size - 2 PROVE slots[SlotAt(i)'] \in Frame
    BY <1>1, <1>3, <1>4 DEF WholeFrames, SlotAt
  <2>. QED  BY <1>3, <1>7 DEF InboxInv, WholeFrames
<1>. QED  BY <1>1, <1>2, <1>3, <1>4, <1>6, <1>7, <1>8, <1>9, <1>10 DEF InboxInv

LEMMA InboxStep == ASSUME InboxParams, InboxInv, [Next]_vars PROVE InboxInv'
<1>1. CASE UNCHANGED vars
  BY <1>1 DEF vars, InboxInv, Shape, PushOwns, PopOwns, WholeFrames, SlotAt, Size
<1>. QED
  BY <1>1, CheckStep, WriteSlotStep, PublishStep, ReadSlotStep, ReleaseStep
  DEF Next, Push, Pop

LEMMA InvTypes == ASSUME InboxParams, InboxInv PROVE TypeOK
BY DEF InboxInv, Shape, TypeOK

LEMMA HeadAndTail ==
  ASSUME NEW S, NEW s \in Seq(S), Len(s) > 0
  PROVE  /\ s # <<>> /\ Head(s) = s[1]
         /\ Tail(s) = [i \in 1 .. Len(s) - 1 |-> s[i + 1]]
<1>1. s # <<>>
  OBVIOUS
<1>2. Head(s) = s[1]
  BY <1>1
<1>3. Tail(s) \in Seq(S) /\ Len(Tail(s)) = Len(s) - 1
  BY <1>1
<1>4. \A i \in 1 .. Len(s) - 1 : Tail(s)[i] = s[i + 1]
  BY <1>1
<1>5. Tail(s) = [i \in 1 .. Len(s) - 1 |-> s[i + 1]]
  <2> DEFINE t == Tail(s)
             n == Len(s) - 1
  <2>1. t \in Seq(S) /\ Len(t) = n /\ \A i \in 1 .. n : t[i] = s[i + 1]
    BY <1>3, <1>4
  <2> HIDE DEF t
  <2>2. t = [i \in 1 .. n |-> t[i]]
    BY <2>1
  <2>. QED  BY <2>1, <2>2 DEF t
<1>. QED  BY <1>1, <1>2, <1>5

\* The frames the queue holds, by their slots.
LEMMA ContentsAre ==
  ASSUME InboxParams, InboxInv
  PROVE  /\ Size \in Nat
         /\ Contents = [i \in 1 .. Size |-> slots[SlotAt(i - 1)]]
         /\ Contents \in Seq(Frame) /\ Len(Contents) = Size
<1>1. Size \in Nat /\ tail \in Nat
  BY CounterFacts DEF InboxInv, Shape, Size, Counter
<1>2. \A i \in 1 .. Size : tail + i - 1 = tail + (i - 1) /\ i - 1 \in 0 .. Size - 1
  BY <1>1
<1>3. Contents = [i \in 1 .. Size |-> slots[SlotAt(i - 1)]]
  BY <1>2 DEF Contents, SlotAt, Size
<1>4. \A i \in 1 .. Size : slots[SlotAt(i - 1)] \in Frame
  BY <1>2 DEF InboxInv, WholeFrames
<1>. QED  BY <1>1, <1>3, <1>4

\* A step that leaves the queue's size, slots and frames alone leaves it alone.
LEMMA ContentsKept ==
  ASSUME InboxParams, InboxInv, InboxInv', UNCHANGED <<head, tail>>,
         \A i \in 0 .. Size - 1 : slots'[SlotAt(i)] = slots[SlotAt(i)]
  PROVE  Contents' = Contents
<1>1. Size' = Size /\ Size \in Nat /\ \A i : SlotAt(i)' = SlotAt(i)
  BY ContentsAre DEF Size, SlotAt
<1>2. Contents' = [i \in 1 .. Size' |-> slots'[SlotAt(i - 1)']]
  BY CounterFacts DEF Contents, SlotAt, Size, InboxInv, Shape, Counter
<1>. QED  BY <1>1, <1>2, ContentsAre

\* Every step of the two sides is one of the queue or leaves it alone.
LEMMA FifoStep ==
  ASSUME InboxParams, InboxInv, InboxInv', [Next]_vars
  PROVE  [Fifo!FNext]_(Fifo!fvars)
<1> DEFINE offered == IF push.pc = "idle" THEN Blank ELSE push.frame
<1>1. Blank \notin Frame
  BY DEF Blank, Frame, InboxParams
<1>2. Size \in Nat /\ Contents \in Seq(Frame) /\ Len(Contents) = Size
      /\ Contents = [i \in 1 .. Size |-> slots[SlotAt(i - 1)]]
  BY ContentsAre
<1>3. CASE Malformed
  <2>1. UNCHANGED <<push, received>> /\ dropped' = (dropped + 1) % DropModulus
    BY <1>3 DEF Malformed
  <2>2. Contents' = Contents
    BY <1>3, ContentsKept DEF Malformed
  <2>. QED  BY <2>1, <2>2 DEF Fifo!FNext, Fifo!FDrop
<1>4. ASSUME NEW f \in Frame, PushCheck(f) PROVE Fifo!FNext
  <2>1. push.pc = "idle" /\ UNCHANGED received /\ Contents' = Contents
    BY <1>4, ContentsKept DEF PushCheck
  <2>2. CASE Full(head, tail)
    BY <1>4, <2>1, <2>2 DEF PushCheck, Fifo!FNext, Fifo!FDrop
  <2>3. CASE ~Full(head, tail)
    <3>1. Len(Contents) < kDepth
      BY <1>2, <2>3 DEF Full, Size, InboxParams
    <3>2. push'.pc = "id" /\ push'.frame = f /\ UNCHANGED dropped
      BY <1>4, <2>3 DEF PushCheck
    <3>. QED  BY <2>1, <3>1, <3>2 DEF Fifo!FNext, Fifo!FOffer
  <2>. QED  BY <2>2, <2>3
<1>5. CASE PushId \/ PushData
  <2>1. Contents' = Contents
    BY <1>5, WriteSlotStep, ContentsKept DEF PushId, PushData
  <2>2. push.pc # "idle" /\ push'.pc # "idle" /\ push'.frame = push.frame
    BY <1>5 DEF PushId, PushData, InboxInv, Shape
  <2>. QED  BY <1>5, <2>1, <2>2 DEF PushId, PushData, Fifo!fvars
<1>6. CASE PushPublish
  <2>1. /\ Size' = Size + 1 /\ slots[SlotAt(Size)] = push.frame /\ push.frame \in Frame
    BY <1>6, PublishStep
  <2>2. /\ push.pc = "publish" /\ push'.pc = "idle"
        /\ UNCHANGED <<slots, tail, received, dropped>>
    BY <1>6 DEF PushPublish, InboxInv, Shape
  <2>3. \A i : SlotAt(i)' = SlotAt(i)
    BY <2>2 DEF SlotAt
  <2>4. Contents' = [i \in 1 .. Size + 1 |-> slots[SlotAt(i - 1)]]
    <3>1. tail \in Nat
      BY DEF InboxInv, Shape, Counter
    <3>2. \A i \in 1 .. Size + 1 : tail + i - 1 = tail + (i - 1)
      BY <1>2, <3>1
    <3>. QED  BY <2>1, <2>2, <3>2 DEF Contents, SlotAt, Size
  <2>5. Contents' = Append(Contents, push.frame)
    BY <1>2, <2>1, <2>4
  <2>. QED  BY <1>1, <2>1, <2>2, <2>5 DEF Fifo!FNext, Fifo!FPush
<1>7. CASE PopCheck \/ PopId \/ PopData
  <2>1. UNCHANGED <<slots, head, tail, dropped, push, received>>
    BY <1>7 DEF PopCheck, PopId, PopData
  <2>2. Contents' = Contents
    BY <2>1, ContentsKept
  <2>. QED  BY <2>1, <2>2 DEF Fifo!fvars
<1>8. CASE PopRelease
  <2>1. /\ Size' = Size - 1 /\ Size > 0 /\ received' = slots[SlotAt(0)]
        /\ \A i \in Nat : SlotAt(i)' = SlotAt(i + 1)
    BY <1>8, ReleaseStep
  <2>2. UNCHANGED <<slots, push, dropped>>
    BY <1>8 DEF PopRelease
  <2>3. Contents' = [i \in 1 .. Size - 1 |-> slots[SlotAt(i)]]
    <3>1. tail' \in Nat
      BY DEF InboxInv, Shape, Counter
    <3>2. \A i \in 1 .. Size - 1 : (tail' + i - 1) % kDepth = SlotAt(i)
      <4> SUFFICES ASSUME NEW i \in 1 .. Size - 1
                   PROVE  (tail' + i - 1) % kDepth = SlotAt(i)
        OBVIOUS
      <4>1. i - 1 \in Nat /\ tail' + i - 1 = tail' + (i - 1) /\ (i - 1) + 1 = i
        BY <1>2, <3>1
      <4>2. SlotAt(i - 1)' = SlotAt((i - 1) + 1)
        BY <2>1, <4>1
      <4>. QED  BY <4>1, <4>2 DEF SlotAt
    <3>. QED  BY <2>1, <2>2, <3>2 DEF Contents, Size
  <2>4. Contents[1] = slots[SlotAt(0)]
        /\ \A i \in 1 .. Size - 1 : Contents[i + 1] = slots[SlotAt(i)]
    <3>1. \A i \in 1 .. Size : Contents[i] = slots[SlotAt(i - 1)]
      BY <1>2
    <3>2. 1 \in 1 .. Size /\ 1 - 1 = 0
      BY <1>2, <2>1
    <3>3. \A i \in 1 .. Size - 1 : i + 1 \in 1 .. Size /\ (i + 1) - 1 = i
      BY <1>2
    <3>. QED  BY <3>1, <3>2, <3>3
  <2>5. /\ Contents # <<>> /\ Head(Contents) = Contents[1]
        /\ Tail(Contents) = [i \in 1 .. Size - 1 |-> Contents[i + 1]]
    <3>1. Contents \in Seq(Frame) /\ Len(Contents) = Size /\ Size \in Nat /\ Size > 0
      BY <1>2, <2>1
    <3>. QED  BY <3>1, HeadAndTail
  <2>. QED  BY <2>1, <2>2, <2>3, <2>4, <2>5 DEF Fifo!FNext, Fifo!FPop
<1>9. CASE UNCHANGED vars
  <2>1. Contents' = Contents
    BY <1>9 DEF vars, Contents
  <2>. QED  BY <1>9, <2>1 DEF vars, Fifo!fvars
<1>. QED  BY <1>3, <1>4, <1>5, <1>6, <1>7, <1>8, <1>9 DEF Next, Push, Pop

\* The interrupt and the task, with no lock between them, implement a bounded queue
\* of whole frames: CanInbox's Push and Pop lose, duplicate, reorder and tear
\* nothing, at any depth, with a full queue and with counters that wrap.
THEOREM InboxIsFifo == ASSUME InboxParams PROVE Spec => ImplementsFifo
<1>1. Init => InboxInv
  BY InboxInit
<1>2. InboxInv /\ [Next]_vars => InboxInv'
  BY InboxStep
<1>3. Init => Fifo!FInit
  <2> SUFFICES ASSUME Init PROVE Fifo!FInit
    OBVIOUS
  <2>1. Size = 0
    BY CounterFacts DEF Init, Size, InboxParams, Counter
  <2>2. Len(Contents) = Size /\ Contents \in Seq(Frame)
    BY <1>1, ContentsAre
  <2>. QED  BY <2>1, <2>2 DEF Init, Fifo!FInit
<1>4. InboxInv /\ InboxInv' /\ [Next]_vars => [Fifo!FNext]_(Fifo!fvars)
  BY FifoStep
<1>. QED  BY <1>1, <1>2, <1>3, <1>4, PTL DEF Spec, ImplementsFifo, Fifo!FSpec

=============================================================================
