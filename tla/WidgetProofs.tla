---------------------------- MODULE WidgetProofs -----------------------------
(***************************************************************************)
(* The core keeps MAX_COMPONENTS of a widget's components and drops the    *)
(* rest without a word: the widget never sends more, whatever the charge   *)
(* point, the settings and the vendor module make of it.                   *)
(***************************************************************************)
EXTENDS Widget, TLAPS

LEMMA Concatenated ==
    ASSUME NEW S, NEW a \in Seq(S), NEW b \in Seq(S)
    PROVE  a \o b \in Seq(S) /\ Len(a \o b) = Len(a) + Len(b)
OBVIOUS

LEMMA Few ==
    ASSUME NEW S, NEW a \in S, NEW b \in S
    PROVE  /\ <<>> \in Seq(S) /\ Len(<<>>) = 0
           /\ <<a>> \in Seq(S) /\ Len(<<a>>) = 1
           /\ <<a, b>> \in Seq(S) /\ Len(<<a, b>>) = 2
OBVIOUS

\* The chart, the status list and the buttons of a vendor module leave room for
\* the heading and for three tiles at least.
THEOREM FewAreFixed ==
    ASSUME NEW g, NEW k, NEW o, NEW x,
           o.chart \in Charts, x.lock \in {"locked", "unlocked", None}
    PROVE  \E S : Fixed(g, k, o, x) \in Seq(S) /\ Len(Fixed(g, k, o, x)) <= 4
<1> DEFINE status == [type |-> "status", shows |-> StatusItems(g, k)]
           chart(c) == [type |-> "chart", shows |-> c]
           button(v) == [type |-> "button", shows |-> v]
           S == {status, chart("power"), chart("sessions"), button("lock"), button("unlock")}
           details == IF o.details THEN <<status>> ELSE <<>>
<1>0. /\ status \in S /\ chart("power") \in S /\ chart("sessions") \in S
      /\ button("lock") \in S /\ button("unlock") \in S
  OBVIOUS
<1> HIDE DEF S
<1>1. Chart(g, k, o) \in Seq(S) /\ Len(Chart(g, k, o)) <= 1
  <2>1. CASE o.chart = "none"
    <3>1. Chart(g, k, o) = <<>>
      BY <2>1 DEF Chart
    <3> QED
      BY <1>0, <3>1, Few
  <2>2. CASE o.chart = "power"
    <3>1. Chart(g, k, o) = <<chart("power")>>
      BY <2>2 DEF Chart
    <3> QED
      BY <1>0, <3>1, Few
  <2>3. CASE o.chart \in {"auto", "sessions"}
    <3>1. \/ Chart(g, k, o) = <<chart("power")>>
          \/ Chart(g, k, o) = <<chart("sessions")>>
          \/ Chart(g, k, o) = <<>>
      BY <2>3 DEF Chart
    <3>2. CASE Chart(g, k, o) = <<chart("power")>>
      BY <1>0, <3>2, Few
    <3>3. CASE Chart(g, k, o) = <<chart("sessions")>>
      BY <1>0, <3>3, Few
    <3>4. CASE Chart(g, k, o) = <<>>
      BY <1>0, <3>4, Few
    <3> QED
      BY <3>1, <3>2, <3>3, <3>4
  <2> QED
    BY <2>1, <2>2, <2>3 DEF Charts
<1>2. details \in Seq(S) /\ Len(details) <= 1
  BY <1>0, Few
<1>3. Controls(o, x) \in Seq(S) /\ Len(Controls(o, x)) <= 2
  <2>1. \/ Buttons(x) = <<button("lock")>>
        \/ Buttons(x) = <<button("unlock")>>
        \/ Buttons(x) = <<button("lock"), button("unlock")>>
    BY DEF Buttons, None
  <2>2. Buttons(x) \in Seq(S) /\ Len(Buttons(x)) \in {1, 2}
    <3>1. CASE Buttons(x) = <<button("lock")>>
      BY <1>0, <3>1, Few
    <3>2. CASE Buttons(x) = <<button("unlock")>>
      BY <1>0, <3>2, Few
    <3>3. CASE Buttons(x) = <<button("lock"), button("unlock")>>
      BY <1>0, <3>3, Few
    <3> QED
      BY <2>1, <3>1, <3>2, <3>3
  <2>3. CASE o.controls /\ x.supported
    <3>0. (IF Len(Buttons(x)) < MAX_WIDGET_COMPONENTS THEN Len(Buttons(x)) ELSE MAX_WIDGET_COMPONENTS)
             = Len(Buttons(x))
      <4>1. \A m \in {1, 2} : (IF m < 4 THEN m ELSE 4) = m
        OBVIOUS
      <4> QED
        BY <2>2, <4>1, Zenon DEF MAX_WIDGET_COMPONENTS
    <3>1. Controls(o, x) = SubSeq(Buttons(x), 1, Len(Buttons(x)))
      BY <2>3, <3>0 DEF Controls
    <3> QED
      BY <2>2, <3>1
  <2>4. CASE ~(o.controls /\ x.supported)
    <3>1. Controls(o, x) = <<>>
      BY <2>4 DEF Controls
    <3> QED
      BY <1>0, <3>1, Few
  <2> QED
    BY <2>3, <2>4
<1>4. Fixed(g, k, o, x) = Chart(g, k, o) \o details \o Controls(o, x)
  BY DEF Fixed
<1> HIDE DEF details
<1>5. /\ Chart(g, k, o) \o details \in Seq(S)
      /\ Len(Chart(g, k, o) \o details) = Len(Chart(g, k, o)) + Len(details)
  BY <1>1, <1>2, Concatenated
<1>6. /\ (Chart(g, k, o) \o details) \o Controls(o, x) \in Seq(S)
      /\ Len((Chart(g, k, o) \o details) \o Controls(o, x))
           = Len(Chart(g, k, o)) + Len(details) + Len(Controls(o, x))
  BY <1>3, <1>5, Concatenated
<1>7. Len(Chart(g, k, o)) \in Nat /\ Len(details) \in Nat /\ Len(Controls(o, x)) \in Nat
  BY <1>1, <1>2, <1>3
<1>8. Fixed(g, k, o, x) \in Seq(S) /\ Len(Fixed(g, k, o, x)) <= 4
  BY <1>1, <1>2, <1>3, <1>4, <1>6, <1>7
<1> QED
  BY <1>8

\* What buildChargerWidget() arranges of any heading and tiles fits, and when a
\* tile had to go the caption went before it.
THEOREM TheWidgetFits ==
    ASSUME NEW S, NEW heading \in S, NEW tiles \in Seq(S), NEW fixed \in Seq(S), Caption \in S,
           Len(fixed) < MAX_COMPONENTS
    PROVE  /\ Len(Arranged(heading, tiles, fixed)) <= MAX_COMPONENTS
           /\ Len(tiles) > Room(fixed) =>
                Arranged(heading, tiles, fixed) = <<heading>> \o <<>> \o SubSeq(tiles, 1, Room(fixed)) \o fixed
<1> DEFINE n == IF Len(tiles) < Room(fixed) THEN Len(tiles) ELSE Room(fixed)
           shown == SubSeq(tiles, 1, n)
           caption == IF 1 + Len(shown) + Len(fixed) < MAX_COMPONENTS THEN <<Caption>> ELSE <<>>
<1>0. Len(fixed) < 8
  BY DEF MAX_COMPONENTS
<1>1. Len(fixed) \in Nat /\ Len(tiles) \in Nat
  OBVIOUS
<1>2. Room(fixed) = 7 - Len(fixed) /\ Room(fixed) \in Nat
  <2>1. \A m \in Nat : m < 8 => (IF 8 - 1 - m > 0 THEN 8 - 1 - m ELSE 0) = 7 - m /\ 7 - m \in Nat
    OBVIOUS
  <2> QED
    BY <1>0, <1>1, <2>1, Zenon DEF Room, MAX_COMPONENTS
<1>3. n \in Nat /\ n <= Len(tiles) /\ n <= 7 - Len(fixed)
  BY <1>1, <1>2
<1>4. shown \in Seq(S) /\ Len(shown) = n
  <2> HIDE DEF n
  <2> QED
    BY <1>1, <1>3
<1>5. caption \in Seq(S) /\ Len(caption) \in {0, 1} /\ (Len(caption) = 1 => 1 + n + Len(fixed) < 8)
  BY <1>4 DEF MAX_COMPONENTS
<1>6. Arranged(heading, tiles, fixed) = <<heading>> \o caption \o shown \o fixed
  BY DEF Arranged
<1>7. Len(tiles) > Room(fixed) => n = Room(fixed) /\ 1 + n + Len(fixed) = 8
  BY <1>1, <1>2
<1>8. Len(tiles) > Room(fixed) => caption = <<>> /\ shown = SubSeq(tiles, 1, Room(fixed))
  BY <1>4, <1>7 DEF MAX_COMPONENTS
<1> HIDE DEF n, shown, caption
<1>9. <<heading>> \in Seq(S) /\ Len(<<heading>>) = 1
  OBVIOUS
<1>10. <<heading>> \o caption \in Seq(S) /\ Len(<<heading>> \o caption) = 1 + Len(caption)
  BY <1>5, <1>9, Concatenated
<1>11. /\ (<<heading>> \o caption) \o shown \in Seq(S)
       /\ Len((<<heading>> \o caption) \o shown) = 1 + Len(caption) + n
  BY <1>4, <1>10, Concatenated
<1>12. Len(((<<heading>> \o caption) \o shown) \o fixed) = 1 + Len(caption) + n + Len(fixed)
  BY <1>11, Concatenated
<1>13. 1 + Len(caption) + n + Len(fixed) <= 8
  <2>1. CASE Len(caption) = 0
    BY <1>1, <1>3, <2>1
  <2>2. CASE Len(caption) = 1
    BY <1>1, <1>3, <1>5, <2>2
  <2> QED
    BY <1>5, <2>1, <2>2
<1>14. Len(Arranged(heading, tiles, fixed)) <= MAX_COMPONENTS
  BY <1>6, <1>12, <1>13 DEF MAX_COMPONENTS
<1>15. Len(tiles) > Room(fixed) =>
         Arranged(heading, tiles, fixed) = <<heading>> \o <<>> \o SubSeq(tiles, 1, Room(fixed)) \o fixed
  BY <1>6, <1>8
<1> QED
  BY <1>14, <1>15
==============================================================================
