------------------------------ MODULE MenuIter -----------------------------
(***************************************************************************)
(* src/ui/view/menu_iter.h: a cursor on a menu that wraps around at both   *)
(* ends, with the WRAP macro of src/core/utils.h in C's arithmetic.        *)
(***************************************************************************)
EXTENDS Integers

CONSTANTS
  ListCounts,   \* the lengths of the menus, 1 .. 255 in the code
  Deltas        \* the steps taken, -128 .. 127

\* A menu without entries would divide by zero.
ASSUME MenuConstants ==
  ListCounts \subseteq 1 .. 255 /\ Deltas \subseteq -128 .. 127

VARIABLES
  list_count, current_index,   \* the fields of the menu_iter_t
  moved                        \* (history) the sum of the steps taken, modulo
                               \* list_count

menuVars == <<list_count, current_index, moved>>

\* The remainder of C has the sign of the dividend.
Remainder(a, b) == IF a < 0 THEN -((-a) % b) ELSE a % b

\* Seeded fault: nothing is added to keep the sum from being negative.
WrapUnshifted(val, step, max) == Remainder(val + Remainder(step, max), max)

Wrap(val, step, max) == Remainder(val + max + Remainder(step, max), max)

\* menu_list_move returns a uint8_t.
MenuListMove(index, delta) == Wrap(index, delta, list_count) % 256

MenuInit ==
  /\ list_count \in ListCounts
  /\ current_index = 0 /\ moved = 0

\* The caller stores what menu_list_move returned.
Move(delta) ==
  /\ current_index' = MenuListMove(current_index, delta)
  /\ moved' = (moved + delta) % list_count
  /\ UNCHANGED list_count

MenuNext == \E delta \in Deltas : Move(delta)

MenuSpec == MenuInit /\ [][MenuNext]_menuVars

-----------------------------------------------------------------------------
\* The cursor is on the entry all the steps taken lead to, on a circle of
\* list_count entries, and so never outside the menu.
CursorFollowsSteps == current_index = moved
=============================================================================
