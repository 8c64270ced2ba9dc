----------------------------- MODULE MCMinuiList -----------------------------
(* The lists minui-list is checked on: every list of up to four plain,     *)
(* header, unselectable and pinned rows without and with the filter, the   *)
(* same rows with letter jumps, and a few lists with options, images,      *)
(* hidden buttons and malformed elements.                                  *)
EXTENDS MinuiList

Raw(n, f) == [name |-> n, feats |-> f, opts |-> 0, cur |-> 0, shape |-> "ok",
              images |-> <<>>, back |-> "default"]
Plain == Raw(<<1>>, {})
Other == Raw(<<2, 1>>, {})
Header == Raw(<<2>>, {"is_header"})
Pinned == Raw(<<1, 1>>, {"unselectable", "display_on_filter"})

Lists(K, n) == UNION {[1 .. m -> K] : m \in 0 .. n}

Run(form, raw) ==
  [form |-> form, raw |-> raw, selected |-> 0, alpha |-> FALSE, filter |-> FALSE,
   text |-> <<>>, openKb |-> FALSE, always |-> FALSE,
   btn |-> [action |-> "", confirm |-> "A", cancel |-> "B", enable |-> "Y"],
   images |-> FALSE, cursor |-> FALSE, badArgs |-> {}, back |-> ""]

Plainly == {[Run("objects", l) EXCEPT !.selected = s] :
              l \in Lists({Plain, Header}, 5), s \in {-1, 1}}
Long == {Run("strings", [k \in 1 .. n |-> Plain]) : n \in 6 .. 9}
Filtered == {[Run("objects", l) EXCEPT !.filter = TRUE, !.text = t, !.openKb = o] :
               l \in Lists({Plain, Other, Header, Pinned}, 4),
               t \in {<<>>, <<2>>}, o \in BOOLEAN}
Jumping == {[Run(f, l) EXCEPT !.alpha = TRUE, !.selected = 2] :
              f \in {"strings", "objects"}, l \in Lists({Plain, Other, Header}, 4)}
Texts == {Run("text", l) : l \in Lists({Plain, Raw(<<>>, {})}, 4)}

Odd ==
  LET Opt(f, c) == [Raw(<<1>>, f) EXCEPT !.opts = 3, !.cur = c]
      Img(p) == [Raw(<<1>>, {}) EXCEPT !.images = p]
  IN  {[Run("objects", l) EXCEPT !.btn = b, !.always = a] :
         a \in BOOLEAN,
         b \in {[action |-> "X", confirm |-> "A", cancel |-> "B", enable |-> "Y"],
                [action |-> "X", confirm |-> "A", cancel |-> "A", enable |-> "X"],
                [action |-> "", confirm |-> "B", cancel |-> "B", enable |-> "A"]},
         l \in {<<Opt({}, 7), Opt({"can_disable", "show_confirm"}, -1), Plain>>,
                <<Opt({"hide_cancel", "hide_confirm"}, 1),
                  Raw(<<2>>, {"hide_action", "can_disable", "disabled"})>>}}
      \cup {[Run("objects", <<Img([exact |-> "x", default |-> "y"]),
                   [Img([default |-> "y"]) EXCEPT !.back = "y"], Plain, Img([default |-> "y"])>>)
               EXCEPT !.images = TRUE, !.back = "x"],
             [Run("objects", <<Img([exact |-> "x"]), Plain, [Plain EXCEPT !.back = "y"]>>)
               EXCEPT !.images = TRUE, !.filter = TRUE, !.back = "x"]}
      \cup {[Run("strings", <<Plain, Other>>) EXCEPT !.filter = TRUE, !.cursor = TRUE]}
      \cup {[Run("text", <<Plain>>) EXCEPT !.badArgs = {o}] :
              o \in {"confirm-button", "format", "file"}}
      \cup {Run(f, <<Plain, [Plain EXCEPT !.shape = "bad"]>>) :
              f \in {"strings", "objects"}}

MCInputs == Plainly \cup Long \cup Filtered \cup Jumping \cup Texts \cup Odd
=============================================================================
