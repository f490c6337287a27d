--------------------------- MODULE SelectorProofs ---------------------------
(***************************************************************************)
(* Proofs about Selector for lists of every length and terminals of every  *)
(* height.  They rest on one arithmetical fact, Scrolling, about what      *)
(* AdjustScroll does to any cursor in the list and any earlier scroll      *)
(* position, on the invariant that cursor and scroll are such, and on what *)
(* each row's record tells of how often Space was pressed on it.           *)
(***************************************************************************)
EXTENDS Selector, TLAPS

(* What the scrolling argument needs to know of a state: the numbers, and  *)
(* that the cursor is in the list.                                         *)
IInv ==
  /\ n \in Nat
  /\ cursor \in Int
  /\ scroll \in Nat
  /\ height \in Nat
  /\ CursorInList

(* adjustScroll (selector.go:146-170) returns a position that is a natural *)
(* number, shows the cursor, and leaves no blank row while it hides one.   *)
LEMMA Scrolling ==
  ASSUME n \in Nat, NEW c \in Int, NEW s \in Nat, NEW h \in Nat
  PROVE  /\ AdjustScroll(c, s, h) \in 0..n
         /\ AdjustScroll(c, s, h) = 0 \/ AdjustScroll(c, s, h) + VisibleItems(h) <= n
         /\ c \in Rows => /\ AdjustScroll(c, s, h) <= c
                          /\ c < AdjustScroll(c, s, h) + VisibleItems(h)
  BY DEF AdjustScroll, VisibleItems, Follow, AtLeast, AtMost, Rows

(* The cursor a key moves to is an integer, and in the list when it is not *)
(* empty (selector.go:118-132).                                            *)
LEMMA Moving ==
  ASSUME IInv, Key
  PROVE  /\ n' = n /\ height' = height
         /\ cursor' \in Int
         /\ n > 0 => cursor' \in Rows
         /\ scroll' = AdjustScroll(cursor', scroll, height)
  BY DEF IInv, Key, Up, Down, Home, End, OtherKey, Space, MoveTo, Rows, CursorInList

(* The invariant holds at first and every message preserves it.            *)
THEOREM Invariance == Spec => []IInv
<1>1. Init => IInv
  BY LengthsAreNat DEF Init, IInv, CursorInList, Rows
<1>2. IInv /\ [Next]_vars => IInv'
  <2> SUFFICES ASSUME IInv, [Next]_vars PROVE IInv'
    OBVIOUS
  <2>1. CASE Key
    <3>1. /\ n' = n /\ height' = height
          /\ cursor' \in Int
          /\ n > 0 => cursor' \in Rows
          /\ scroll' = AdjustScroll(cursor', scroll, height)
      BY <2>1, Moving
    <3>2. scroll' \in Nat
      BY <3>1, Scrolling DEF IInv
    <3>3. Rows' = Rows
      BY <3>1 DEF Rows
    <3> QED
      BY <3>1, <3>2, <3>3 DEF IInv, CursorInList
  <2>2. CASE Enter
    BY <2>2 DEF Enter, IInv, CursorInList, Rows
  <2>3. CASE Cancel
    BY <2>3 DEF Cancel, IInv, CursorInList, Rows
  <2>4. CASE \E h \in Heights : Resize(h)
    BY <2>4, HeightsAreNat DEF Resize, IInv, CursorInList, Rows
  <2>5. CASE Quit \/ Ended \/ UNCHANGED vars
    BY <2>5 DEF Quit, Ended, vars, IInv, CursorInList, Rows
  <2> QED
    BY <2>1, <2>2, <2>3, <2>4, <2>5 DEF Next
<1> QED
  BY <1>1, <1>2, PTL DEF Spec

(* Space and Enter never index outside the list (selector.go:95, 102).     *)
THEOREM CursorCorrect == Spec => []CursorInList
<1>1. IInv => CursorInList
  BY DEF IInv
<1> QED
  BY <1>1, Invariance, PTL

(* After every key the cursor is on the screen, whatever sequence of keys  *)
(* and sizes came before (selector.go:135, 146-170).                       *)
THEOREM VisibleCorrect == Spec => KeysKeepCursorVisible
<1>1. IInv /\ [Next]_vars => [Key /\ n > 0 => cursor' \in OnScreen']_vars
  <2> SUFFICES ASSUME IInv, Key, n > 0 PROVE cursor' \in OnScreen'
    OBVIOUS
  <2>1. /\ n' = n /\ height' = height
        /\ cursor' \in Rows
        /\ scroll' = AdjustScroll(cursor', scroll, height)
    BY Moving
  <2>2. /\ AdjustScroll(cursor', scroll, height) <= cursor'
        /\ cursor' < AdjustScroll(cursor', scroll, height) + VisibleItems(height)
    BY <2>1, Moving, Scrolling DEF IInv
  <2>3. VisibleItems(height)' = VisibleItems(height) /\ Rows' = Rows
    BY <2>1 DEF VisibleItems, AtLeast, Rows
  <2> QED
    BY <2>1, <2>2, <2>3 DEF OnScreen
<1> QED
  BY <1>1, Invariance, PTL DEF Spec, KeysKeepCursorVisible

(* After every key no row of the window is blank while an entry above it   *)
(* is hidden (selector.go:163-169).                                        *)
THEOREM FillCorrect == Spec => KeysFillWindow
<1>1. IInv /\ [Next]_vars =>
        [Key => scroll' = 0 \/ scroll' + VisibleItems(height') <= n]_vars
  <2> SUFFICES ASSUME IInv, Key
               PROVE  scroll' = 0 \/ scroll' + VisibleItems(height') <= n
    OBVIOUS
  <2>1. /\ height' = height
        /\ cursor' \in Int
        /\ scroll' = AdjustScroll(cursor', scroll, height)
    BY Moving
  <2> QED
    BY <2>1, Scrolling DEF IInv
<1> QED
  BY <1>1, Invariance, PTL DEF Spec, KeysFillWindow

-----------------------------------------------------------------------------
(* Ticks.                                                                  *)

(* What a row's record tells of how often Space was pressed on it.         *)
TicksTold ==
  \A i \in Rows : IF mounted[i] THEN ticks[i] = "absent" <=> i \notin odd
                                ELSE ticks[i] = "SelMount" <=> i \in odd

TicksInv == TypeOK /\ TicksTold

(* Space changes the row under the cursor and no other (selector.go:100).  *)
LEMMA Ticking ==
  ASSUME IInv, TicksInv, Space
  PROVE  /\ ticks' \in [Rows -> {"absent", "SelNone", "SelMount"}]
         /\ odd' \subseteq Rows
         /\ TicksTold'
<1>1. Rows' = Rows /\ mounted' = mounted
  BY DEF Space, Rows
<1>2. CASE n > 0
  <2>1. cursor \in Rows
    BY <1>2 DEF IInv, CursorInList
  <2>2. /\ ticks' = [ticks EXCEPT ![cursor] = Toggled(cursor)]
        /\ odd' = IF cursor \in odd THEN odd \ {cursor} ELSE odd \cup {cursor}
    BY <1>2 DEF Space, IInv
  <2>3. ticks \in [Rows -> {"absent", "SelNone", "SelMount"}] /\ odd \subseteq Rows
    BY DEF TicksInv, TypeOK
  <2>4. Toggled(cursor) \in {"absent", "SelNone", "SelMount"}
    BY DEF Toggled
  <2>5. ASSUME NEW i \in Rows
        PROVE  IF mounted[i] THEN ticks'[i] = "absent" <=> i \notin odd'
                             ELSE ticks'[i] = "SelMount" <=> i \in odd'
    <3>1. CASE i = cursor
      <4>1. ticks'[i] = Toggled(i)
        BY <2>2, <2>3, <3>1
      <4> QED
        BY <2>1, <2>2, <3>1, <4>1 DEF Toggled, TicksInv, TicksTold
    <3>2. CASE i # cursor
      <4>1. ticks'[i] = ticks[i] /\ (i \in odd' <=> i \in odd)
        BY <2>2, <2>3, <3>2
      <4> QED
        BY <4>1 DEF TicksInv, TicksTold
    <3> QED
      BY <3>1, <3>2
  <2> QED
    BY <1>1, <2>1, <2>2, <2>3, <2>4, <2>5 DEF TicksTold
<1>3. CASE ~(n > 0)
  <2>1. n = 0 /\ Rows = {}
    BY <1>3 DEF IInv, Rows
  <2>2. ticks' = ticks /\ odd' = odd
    BY <1>3, <2>1 DEF Space
  <2> QED
    BY <1>1, <2>1, <2>2 DEF TicksTold, TicksInv, TypeOK
<1> QED
  BY <1>2, <1>3

(* A key keeps the state well formed (selector.go:100-135).                *)
LEMMA KeyTyped ==
  ASSUME IInv, TicksInv, Key
  PROVE  TypeOK'
<1>1. /\ n' = n /\ height' = height /\ cursor' \in Int
      /\ n > 0 => cursor' \in Rows
      /\ scroll' = AdjustScroll(cursor', scroll, height)
  BY Moving
<1>2. Rows' = Rows
  BY <1>1 DEF Rows
<1>3. scroll' \in 0..n
  BY <1>1, Scrolling DEF IInv
<1>4. cursor' \in -1..(IF n = 0 THEN 0 ELSE n - 1)
  <2>1. CASE n = 0
    BY <2>1, <1>1 DEF Key, Up, Down, Home, End, OtherKey, Space, MoveTo, TicksInv, TypeOK
  <2>2. CASE n > 0
    BY <2>2, <1>1 DEF Rows, IInv
  <2> QED
    BY <2>1, <2>2 DEF IInv
<1>5. /\ mounted' = mounted /\ selected' = selected
      /\ outcome' = outcome /\ running' = running
  BY DEF Key, Up, Down, Home, End, OtherKey, Space, MoveTo
<1>6. ticks' \in [Rows -> {"absent", "SelNone", "SelMount"}] /\ odd' \subseteq Rows
  <2>1. CASE Space
    BY <2>1, Ticking
  <2>2. CASE ~Space
    <3>1. ticks' = ticks /\ odd' = odd
      BY <2>2 DEF Key, Up, Down, Home, End, OtherKey, MoveTo
    <3> QED
      BY <3>1 DEF TicksInv, TypeOK
  <2> QED
    BY <2>1, <2>2
<1> QED
  BY <1>1, <1>2, <1>3, <1>4, <1>5, <1>6 DEF TicksInv, TypeOK

(* The state stays well formed, and a row's record tells whether Space was *)
(* pressed on it an odd number of times (selector.go:80-143).              *)
THEOREM TicksCorrect == Spec => []TicksInv
<1>1. Init => TicksInv
  <2> SUFFICES ASSUME Init PROVE TicksInv
    OBVIOUS
  <2>1. n \in Nat
    BY LengthsAreNat DEF Init
  <2>2. ticks = [i \in Rows |-> "absent"] /\ odd = {}
    BY DEF Init
  <2>3. TicksTold
    BY <2>2 DEF TicksTold
  <2>4. cursor \in -1..(IF n = 0 THEN 0 ELSE n - 1) /\ scroll \in 0..n
    BY <2>1 DEF Init
  <2>5. mounted \in [Rows -> MountStates]
    BY DEF Init, Rows
  <2> QED
    BY <2>2, <2>3, <2>4, <2>5 DEF TicksInv, TypeOK, Init
<1>2. IInv /\ TicksInv /\ [Next]_vars => TicksInv'
  <2> SUFFICES ASSUME IInv, TicksInv, [Next]_vars PROVE TicksInv'
    OBVIOUS
  <2>1. CASE Key
    <3>1. TypeOK'
      BY <2>1, KeyTyped
    <3>2. TicksTold'
      <4>1. CASE Space
        BY <4>1, Ticking
      <4>2. CASE ~Space
        BY <2>1, <4>2 DEF Key, Up, Down, Home, End, OtherKey, MoveTo, TicksInv, TicksTold, Rows
      <4> QED
        BY <4>1, <4>2
    <3> QED
      BY <3>1, <3>2 DEF TicksInv
  <2>2. CASE Enter
    <3>1. selected' \subseteq Rows
      BY <2>2 DEF Enter, Chosen, IInv, CursorInList
    <3> QED
      BY <2>2, <3>1 DEF Enter, TicksInv, TicksTold, TypeOK, Rows
  <2>3. CASE Cancel
    BY <2>3 DEF Cancel, TicksInv, TicksTold, TypeOK, Rows
  <2>4. CASE \E h \in Heights : Resize(h)
    BY <2>4 DEF Resize, TicksInv, TicksTold, TypeOK, Rows
  <2>5. CASE Quit \/ Ended \/ UNCHANGED vars
    BY <2>5 DEF Quit, Ended, vars, TicksInv, TicksTold, TypeOK, Rows
  <2> QED
    BY <2>1, <2>2, <2>3, <2>4, <2>5 DEF Next
<1> QED
  BY <1>1, <1>2, Invariance, PTL DEF Spec

(* The state is well formed (selector.go:45-76).                           *)
THEOREM TypeCorrect == Spec => []TypeOK
<1>1. TicksInv => TypeOK
  BY DEF TicksInv
<1> QED
  BY <1>1, TicksCorrect, PTL

(* A confirmation acts on the rows toggled an odd number of times, as      *)
(* their boxes displayed (selector.go:20-31, 100-116, 346-355).            *)
THEOREM TogglesCorrect == Spec => []ActionsAsToggled
<1>1. TicksInv => ActionsAsToggled
  <2> SUFFICES ASSUME TicksInv PROVE ActionsAsToggled
    OBVIOUS
  <2>1. odd \subseteq Rows
    BY DEF TicksInv, TypeOK
  <2>2. ToMount \cup ToUnmount = odd
    BY <2>1 DEF TicksInv, TicksTold, ToMount, ToUnmount
  <2>3. \A i \in Rows : /\ Checkbox(i) = "will mount" <=> i \in ToMount
                        /\ Checkbox(i) = "will unmount" <=> i \in ToUnmount
    BY DEF Checkbox, ToMount, ToUnmount
  <2> QED
    BY <2>2, <2>3 DEF ActionsAsToggled
<1> QED
  BY <1>1, TicksCorrect, PTL

(* Space alternates one row's box and leaves the others' alone             *)
(* (selector.go:20-31, 100-116).                                           *)
THEOREM SpaceCorrect == Spec => SpaceAlternates
<1>1. IInv /\ TicksInv /\ [Next]_vars =>
        [Space /\ n > 0 =>
           /\ Checkbox(cursor)' # Checkbox(cursor)
           /\ \A i \in Rows \ {cursor} : Checkbox(i)' = Checkbox(i)]_vars
  <2> SUFFICES ASSUME IInv, TicksInv, Space, n > 0
               PROVE  /\ Checkbox(cursor)' # Checkbox(cursor)
                      /\ \A i \in Rows \ {cursor} : Checkbox(i)' = Checkbox(i)
    OBVIOUS
  <2>1. cursor \in Rows
    BY DEF IInv, CursorInList
  <2>2. /\ ticks' = [ticks EXCEPT ![cursor] = Toggled(cursor)]
        /\ cursor' = cursor /\ mounted' = mounted
    BY DEF Space
  <2>3. ticks \in [Rows -> {"absent", "SelNone", "SelMount"}]
    BY DEF TicksInv, TypeOK
  <2>4. ticks'[cursor] = Toggled(cursor)
    BY <2>1, <2>2, <2>3
  <2>5. Checkbox(cursor)' # Checkbox(cursor)
    <3>1. /\ cursor' = cursor
          /\ mounted'[cursor] <=> mounted[cursor]
      BY <2>2
    <3>2. CASE mounted[cursor]
      BY <2>4, <3>1, <3>2 DEF Checkbox, Toggled
    <3>3. CASE ~mounted[cursor]
      BY <2>4, <3>1, <3>3 DEF Checkbox, Toggled
    <3> QED
      BY <3>2, <3>3
  <2>6. \A i \in Rows \ {cursor} : Checkbox(i)' = Checkbox(i)
    BY <2>2, <2>3 DEF Checkbox
  <2> QED
    BY <2>5, <2>6
<1> QED
  BY <1>1, Invariance, TicksCorrect, PTL DEF Spec, SpaceAlternates
=============================================================================
