------------------------------ MODULE Selector ------------------------------
(***************************************************************************)
(* The interactive selector of internal/tui/selector.go: the list with a   *)
(* cursor, a scroll window and one tick box per entry, which Bubble Tea    *)
(* drives one message at a time (keys and window sizes, in any order), and *)
(* what the callers make of the outcome: the two lists of                  *)
(* SelectMountAction and the one list of SelectEntry.                      *)
(*                                                                         *)
(* Indices start at 0 as in the code.  A row is an entry that is mounted   *)
(* or not; what else it displays is left out.  A definition marked         *)
(* "variant" is a plausible mistake, kept beside the definition it varies  *)
(* to show which property it breaks; no specification uses it.             *)
(***************************************************************************)
EXTENDS Integers

CONSTANTS
  Lengths,      \* how many entries the list may have
  MountStates,  \* whether entries may be mounted: {TRUE} for the list of
                \* SelectUnmountEntry, which holds mounted entries only
  Heights,      \* terminal heights a WindowSizeMsg may report
  NoFallback    \* TRUE for SelectMountAction, FALSE for SelectEntry

ASSUME LengthsAreNat      == Lengths \subseteq Nat
ASSUME StatesAreBoolean   == MountStates \subseteq BOOLEAN
ASSUME HeightsAreNat      == Heights \subseteq Nat
ASSUME FallbackIsBoolean  == NoFallback \in BOOLEAN

VARIABLES
  n,         \* len(m.Mounts)
  mounted,   \* IsMounted of each entry
  cursor,    \* m.Cursor
  scroll,    \* m.Scroll
  height,    \* m.Height, 0 until the first WindowSizeMsg
  ticks,     \* m.SelectedMap: "absent", "SelNone" or "SelMount"
  selected,  \* m.Selected
  outcome,   \* "open", or by m.Cancelled and m.Confirmed "cancelled", "confirmed"
  running,   \* whether the program still takes messages
  odd        \* history: the rows Space was pressed on an odd number of times

vars == <<n, mounted, cursor, scroll, height, ticks, selected, outcome, running, odd>>

Rows == 0..(n - 1)

Init ==
  /\ n \in Lengths
  /\ mounted \in [0..(n - 1) -> MountStates]
  /\ cursor = 0
  /\ scroll = 0
  /\ height = 0
  /\ ticks = [i \in Rows |-> "absent"]
  /\ selected = {}
  /\ outcome = "open"
  /\ running = TRUE
  /\ odd = {}

-----------------------------------------------------------------------------
(* Scrolling.                                                              *)

AtLeast(k, x) == IF x < k THEN k ELSE x
AtMost(k, x)  == IF x > k THEN k ELSE x

(* Seven lines are kept for the title and the help.                        *)
VisibleItems(h) == AtLeast(1, h - 7)

Follow(c, s, v) == IF c < s THEN c ELSE IF c >= s + v THEN c - v + 1 ELSE s

(* Variant: scrolls one row too late.                                      *)
AdjustScrollLate(c, s, h) ==
  LET v == VisibleItems(h)
      t == IF c < s THEN c ELSE IF c > s + v THEN c - v + 1 ELSE s
  IN  AtMost(AtLeast(0, n - v), AtLeast(0, t))

(* Variant: does not limit the scroll range.                               *)
AdjustScrollUnclamped(c, s, h) == Follow(c, s, VisibleItems(h))

(* The scroll position after the cursor moved to c.                        *)
AdjustScroll(c, s, h) ==
  LET v == VisibleItems(h)
  IN  AtMost(AtLeast(0, n - v), AtLeast(0, Follow(c, s, v)))

-----------------------------------------------------------------------------
(* Keys.                                                                   *)

MoveTo(c) ==
  /\ running
  /\ cursor' = c
  /\ scroll' = AdjustScroll(c, scroll, height)
  /\ UNCHANGED <<n, mounted, height, ticks, selected, outcome, running, odd>>

(* Variants: one row past the last; the length instead of the last index.  *)
DownPast == MoveTo(IF cursor <= n - 1 THEN cursor + 1 ELSE cursor)
EndPast  == MoveTo(n)

Up   == MoveTo(IF cursor > 0 THEN cursor - 1 ELSE cursor)
Down == MoveTo(IF cursor < n - 1 THEN cursor + 1 ELSE cursor)
Home == MoveTo(0)
End  == MoveTo(n - 1)

(* Any key that has no meaning still adjusts the scroll position.          *)
OtherKey == MoveTo(cursor)

(* Variant: a mounted entry's tick is never taken back.                    *)
ToggledForever(i) ==
  IF mounted[i]
    THEN "SelNone"
    ELSE IF ticks[i] = "SelMount" THEN "SelNone" ELSE "SelMount"

(* A mounted entry is ticked off by any record of it, an unmounted one is  *)
(* ticked by SelMount and keeps a record when the tick is taken back.      *)
Toggled(i) ==
  IF mounted[i]
    THEN IF ticks[i] = "absent" THEN "SelNone" ELSE "absent"
    ELSE IF ticks[i] = "SelMount" THEN "SelNone" ELSE "SelMount"

Space ==
  /\ running
  /\ ticks' = IF n > 0 THEN [ticks EXCEPT ![cursor] = Toggled(cursor)] ELSE ticks
  /\ scroll' = AdjustScroll(cursor, scroll, height)
  /\ odd' = IF n = 0 THEN odd
             ELSE IF cursor \in odd THEN odd \ {cursor} ELSE odd \cup {cursor}
  /\ UNCHANGED <<n, mounted, cursor, height, selected, outcome, running>>

Chosen == {i \in Rows : ticks[i] = "SelMount"}

(* tea.Quit is a message too: keys that are already waiting come before it. *)
(* Of a list that was confirmed and cancelled the callers see the latter.  *)
Enter ==
  /\ running
  /\ selected' = IF ~NoFallback /\ Chosen = {} /\ n > 0 THEN {cursor} ELSE Chosen
  /\ outcome' = IF outcome = "cancelled" THEN "cancelled" ELSE "confirmed"
  /\ UNCHANGED <<n, mounted, cursor, scroll, height, ticks, running, odd>>

Cancel ==
  /\ running
  /\ outcome' = "cancelled"
  /\ UNCHANGED <<n, mounted, cursor, scroll, height, ticks, selected, running, odd>>

(* A WindowSizeMsg only records the size.                                  *)
Resize(h) ==
  /\ running
  /\ height' = h
  /\ UNCHANGED <<n, mounted, cursor, scroll, ticks, selected, outcome, running, odd>>

Quit ==
  /\ running /\ outcome # "open"
  /\ running' = FALSE
  /\ UNCHANGED <<n, mounted, cursor, scroll, height, ticks, selected, outcome, odd>>

Ended == ~running /\ UNCHANGED vars

Key  == Up \/ Down \/ Home \/ End \/ OtherKey \/ Space
Next == \/ Key \/ Enter \/ Cancel \/ (\E h \in Heights : Resize(h))
        \/ Quit \/ Ended

Spec == Init /\ [][Next]_vars

-----------------------------------------------------------------------------
(* What the user sees and what the callers get.                            *)

(* renderItems draws the rows of the window.                               *)
OnScreen == {i \in Rows : scroll <= i /\ i < scroll + VisibleItems(height)}

(* checkboxText: "will mount", "stays mounted", "will unmount" or "stays   *)
(* unmounted".                                                             *)
Checkbox(i) ==
  IF ~mounted[i]
    THEN IF ticks[i] = "SelMount" THEN "will mount" ELSE "stays unmounted"
    ELSE IF ticks[i] = "absent" THEN "stays mounted" ELSE "will unmount"

(* Variant: looks for the state only entries to mount are given.           *)
ToUnmountTicked == {i \in Rows : mounted[i] /\ ticks[i] = "SelMount"}

(* SelectMountAction's two lists.                                          *)
ToUnmount == {i \in Rows : mounted[i] /\ ticks[i] # "absent"}
ToMount   == {i \in Rows : ~mounted[i] /\ ticks[i] = "SelMount"}

-----------------------------------------------------------------------------
(* Properties.                                                             *)

TypeOK ==
  /\ n \in Lengths
  /\ mounted \in [Rows -> MountStates]
  /\ cursor \in -1..(IF n = 0 THEN 0 ELSE n - 1)
  /\ scroll \in 0..n
  /\ height \in Heights \cup {0}
  /\ ticks \in [Rows -> {"absent", "SelNone", "SelMount"}]
  /\ selected \subseteq Rows
  /\ outcome \in {"open", "cancelled", "confirmed"}
  /\ running \in BOOLEAN
  /\ odd \subseteq Rows

(* The cursor always points at an entry when there is one, so that Space   *)
(* and Enter never index outside the list; only the End key on an empty    *)
(* list moves it to -1 (selector.go:95, 102, 132).                         *)
CursorInList == n > 0 => cursor \in Rows

(* After every key the cursor is on the screen, at any length and any      *)
(* sequence of resizes before it (selector.go:146-170).                    *)
KeysKeepCursorVisible == [][Key /\ n > 0 => cursor' \in OnScreen']_vars

(* After every key the window is as full as the list allows: no blank rows *)
(* below the last entry while entries are hidden above (selector.go:163-169). *)
KeysFillWindow == [][Key => scroll' = 0 \/ scroll' + VisibleItems(height') <= n]_vars

(* A confirmed SelectMountAction acts on exactly the entries whose row was *)
(* toggled an odd number of times, whatever else was pressed in between,   *)
(* and does to each what its box displayed; a row whose tick was taken     *)
(* back leaves no action behind (selector.go:20-31, 100-116, 346-355).     *)
ActionsAsToggled ==
  outcome = "confirmed" =>
    /\ ToMount \cup ToUnmount = odd
    /\ \A i \in Rows : /\ Checkbox(i) = "will mount" <=> i \in ToMount
                       /\ Checkbox(i) = "will unmount" <=> i \in ToUnmount

(* Pressing Space on one row again and again alternates its box between    *)
(* two displays and leaves every other row's alone (selector.go:100-116).  *)
SpaceAlternates ==
  [][Space /\ n > 0 =>
       /\ Checkbox(cursor)' # Checkbox(cursor)
       /\ \A i \in Rows \ {cursor} : Checkbox(i)' = Checkbox(i)]_vars

(* Comment at selector.go:145: scrolling keeps the cursor visible.         *)
CursorVisible == n > 0 /\ outcome = "open" => cursor \in OnScreen

(* Comment at selector.go:311: the selector of entries to unmount supports *)
(* choosing several, so it returns those the user ticked off.              *)
ReturnsTicked ==
  outcome = "confirmed" /\ ToUnmount # {} => selected = ToUnmount
=============================================================================
