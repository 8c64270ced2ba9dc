------------------------------ MODULE ApFooter ------------------------------
(***************************************************************************)
(* The footer of an Apostrophe screen (apostrophe.h, ap_draw_footer): the  *)
(* button hints are split into a left group and a right group (the confirm *)
(* actions).  When they do not fit, items are left out, counted in a "+n"  *)
(* marker, and kept for the overlay of hidden actions.  Widths stand for   *)
(* pixels; an item is [w, confirm].                                        *)
(***************************************************************************)
EXTENDS Integers, Sequences

CONSTANTS FooterGap,      \* btn_margin: between items and at both ends
          MarkerText,     \* width of the text of the marker, whatever number it shows
          FooterMax       \* screen width less the padding

ASSUME FooterAssumption == FooterGap \in Nat /\ MarkerText \in Nat /\ FooterMax \in Nat
Hints == Seq([w : Nat, confirm : BOOLEAN])
\* AP__MAX_FOOTER_ITEMS: what comes after so many hints is not looked at.
MaxFooterItems == 64

MarkerWidth(hidden) == IF hidden <= 0 THEN 0 ELSE FooterGap + MarkerText + FooterGap

\* The first n of the widths ws, side by side.
Total(ws, n) ==
    LET upTo[k \in 0 .. n] == IF k = 0 THEN 0 ELSE upTo[k - 1] + ws[k]
    IN  upTo[n]

(* ap__footer_group_outer_width of the first n of the widths ws *)
GroupWidth(ws, n, marker) ==
    LET gaps == (IF n > 1 THEN n - 1 ELSE 0) + (IF n > 0 /\ marker > 0 THEN 1 ELSE 0)
    IN  IF n <= 0 /\ marker <= 0 THEN 0
        ELSE 2 * FooterGap + Total(ws, n) + marker + gaps * FooterGap

Widths(items) == [i \in DOMAIN items |-> items[i].w]

(* The hints that confirm go to the right, the others to the left. *)
Sides(items) ==
    LET upTo[k \in 0 .. Len(items)] ==
          IF k = 0 THEN [left |-> << >>, right |-> << >>]
          ELSE IF items[k].confirm THEN [upTo[k - 1] EXCEPT !.right = Append(@, items[k])]
          ELSE [upTo[k - 1] EXCEPT !.left = Append(@, items[k])]
    IN  upTo[Len(items)]
LeftOf(items) == Sides(items).left
RightOf(items) == Sides(items).right

(* The right group from its last item backwards: an item that does not fit *)
(* is passed over, and the group is drawn from the last one that did fit.  *)
RightFrom(ws) ==
    LET n == Len(ws)
        taken(s, i) ==
            LET cand == ws[i] + (IF s.n > 0 THEN FooterGap ELSE 0)
            IN  IF 2 * FooterGap + s.inner + cand <= FooterMax \/ s.n = 0
                THEN [inner |-> s.inner + cand, n |-> s.n + 1, from |-> i]
                ELSE s
        after[k \in 0 .. n] == IF k = 0 THEN [inner |-> 0, n |-> 0, from |-> n + 1]
                               ELSE taken(after[k - 1], n + 1 - k)
    IN  after[n]

\* Mutant: the room for the marker is forgotten.
LeftFits_unmarked(lw, v, hidden, room) == GroupWidth(lw, v, 0) <= room
\* The first v left items and the marker for what is hidden fit.
LeftFits(lw, v, hidden, room) == GroupWidth(lw, v, MarkerWidth(hidden)) <= room

(* ap_draw_footer: how many of the left items are drawn, from which right   *)
(* item on, the widths of the two pills and the items stored as hidden.     *)
FooterLayout(items, enabled) ==
    LET left == LeftOf(items)
        right == RightOf(items)
        rw == Widths(right)
        lw == Widths(left)
        whole == GroupWidth(rw, Len(rw), 0)
        cut == enabled /\ Len(rw) > 0 /\ whole > FooterMax
        scan == RightFrom(rw)
        from == IF cut THEN scan.from ELSE 1
        rightW == IF cut THEN 2 * FooterGap + scan.inner ELSE whole
        room == IF FooterMax > rightW THEN FooterMax - rightW ELSE 0
        hiddenWith(v) == (from - 1) + (Len(lw) - v)
        good == {v \in 0..Len(lw) : LeftFits(lw, v, hiddenWith(v), room)}
        leftN == IF ~enabled THEN Len(lw)
                 ELSE IF good = {} THEN 0
                 ELSE CHOOSE v \in good : \A u \in good : u <= v
        hidden == SubSeq(right, 1, from - 1) \o SubSeq(left, leftN + 1, Len(left))
    IN  [left |-> SubSeq(left, 1, leftN), right |-> SubSeq(right, from, Len(right)),
         hidden |-> hidden, cuts |-> enabled, rightW |-> rightW,
         leftW |-> GroupWidth(lw, leftN, IF enabled THEN MarkerWidth(Len(hidden)) ELSE 0)]

(* The layout puts every item in exactly one place, and the pills lie side  *)
(* by side whenever items may be left out, the right group fits and there   *)
(* is room for the marker.                                                  *)
LayoutHonest(items, lay) ==
    /\ Len(lay.left) + Len(lay.right) + Len(lay.hidden) = Len(items)
    /\ lay.cuts /\ GroupWidth(Widths(RightOf(items)), Len(RightOf(items)), 0)
          + GroupWidth(<< >>, 0, MarkerWidth(Len(items))) <= FooterMax
       => lay.leftW + lay.rightW <= FooterMax
=============================================================================
