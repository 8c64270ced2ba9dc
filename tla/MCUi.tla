-------------------------------- MODULE MCUi --------------------------------
(* Screens, each on its own: minui-list on the lists of MCMinuiList,        *)
(* minui-presenter on messages and files of up to three slides with every   *)
(* kind of timeout, and the widgets of Apostrophe.                          *)
EXTENDS MCMinuiList, MinuiPresenter, Widgets

Word(n, b) == [width |-> n, breaks |-> b]
Slide(words, pic) == [shape |-> "ok", words |-> words, pic |-> pic]
Short == <<Word(2, 0)>>
Tall == <<Word(3, 1), Word(1, 0), Word(3, 0), Word(2, 3), Word(3, 0)>>

Cmd(message, lines) ==
  [message |-> message, file |-> lines, selected |-> 0, pic |-> "", quitLast |-> FALSE,
   timeout |-> 0, timeLeft |-> FALSE, nowrap |-> FALSE, bad |-> {},
   btn |-> [action |-> "", confirm |-> "A", cancel |-> "B", inaction |-> ""],
   show |-> {"confirm"}]

Shows == {[Cmd(<<>>, f) EXCEPT !.timeout = t, !.quitLast = q, !.selected = s, !.timeLeft = l] :
            f \in {<<Slide(Short, "p")>>,
                   <<Slide(Short, ""), Slide(Tall, "p"), Slide(Short, "p")>>},
            t \in {-1, 0, 2}, q \in BOOLEAN, s \in {-1, 1, 5}, l \in BOOLEAN}
Messages == {[Cmd(m, <<>>) EXCEPT !.pic = "p", !.timeout = 1, !.nowrap = n, !.show = h,
                                  !.btn = b] :
               m \in {Short, Tall}, n \in BOOLEAN,
               h \in {{}, {"action", "cancel"}, {"inaction", "confirm", "cancel"}},
               b \in {[action |-> "X", confirm |-> "A", cancel |-> "", inaction |-> "Y"],
                      [action |-> "A", confirm |-> "", cancel |-> "A", inaction |-> ""]}}
Wrong == {[Cmd(Short, <<>>) EXCEPT !.bad = {"alignment"}],
          Cmd(<<>>, <<>>),
          [Cmd(Short, <<>>) EXCEPT !.btn.action = "Z"],
          Cmd(<<>>, <<Slide(Short, ""), [Slide(Short, "") EXCEPT !.shape = "pill"]>>)}

MCArgs == Shows \cup Messages \cup Wrong

Row(id, grp) == [id |-> id, group |-> grp, marked |-> FALSE]
List(rws, initial, top, multi, help, btn) ==
  [items |-> rws, initial |-> initial, top |-> top, multi |-> multi, help |-> help, btn |-> btn]
Abc == <<Row(1, 1), Row(2, 1), Row(3, 2), Row(4, 3), Row(5, 3)>>
Mixed == <<Row(1, 1), Row(2, 2), Row(3, 1), Row(4, 2)>>
MCListOpts ==
  {List(Abc, 1, 4, FALSE, TRUE, [b \in {"X"} |-> "triggered"]),
   List(Mixed, 9, -1, FALSE, FALSE, [b \in {"Y", "START"} |-> IF b = "Y" THEN "reorder" ELSE "confirmed"]),
   List(<<Row(1, 1), Row(2, 2)>>, -3, 7, TRUE, FALSE, [b \in {"SELECT"} |-> "secondary"])}

Opt(type, count, at0) == [type |-> type, count |-> count, sel |-> at0, value |-> "old"]
Settings(rws, initial, onChange, confirmA) ==
  [items |-> rws, initial |-> initial, top |-> 1, onChange |-> onChange, confirmA |-> confirmA,
   btn |-> [b \in {"X", "START"} |-> IF b = "X" THEN "triggered" ELSE "confirmed"]]
MCOptOpts ==
  {Settings(<<Opt("standard", 3, 7), Opt("keyboard", 1, 0), Opt("clickable", 0, 0)>>, 2, c, a) :
     c, a \in BOOLEAN}
  \cup {Settings(<<Opt("standard", 2, -1), Opt("color", 1, 0), Opt("standard", 0, 0)>>, -1, TRUE, a) :
     a \in BOOLEAN}

MCKbTexts == {<<3, 0, 0>>, <<2, 0, 3, 0, 0>>}

Node(type, to, hidden, ext, open) ==
  [type |-> type, to |-> to, hidden |-> hidden, ext |-> ext, open |-> open]
Dir == Node("dir", <<>>, FALSE, "", TRUE)
MCNodes ==
  (<<"sd">> :> Dir) @@ (<<"sd", "roms">> :> Dir)
  @@ (<<"sd", "roms", "game">> :> Node("file", <<>>, FALSE, "zip", TRUE))
  @@ (<<"sd", "roms", "text">> :> Node("file", <<>>, FALSE, "txt", TRUE))
  @@ (<<"sd", "roms", "top">> :> Node("link", <<"sd">>, FALSE, "", TRUE))
  @@ (<<"sd", "out">> :> Node("link", <<"etc">>, FALSE, "", TRUE))
  @@ (<<"sd", "void">> :> Node("link", <<"gone">>, FALSE, "", TRUE))
  @@ (<<"sd", "shut">> :> Node("dir", <<>>, TRUE, "", FALSE))
  @@ (<<"etc">> :> Dir) @@ (<<"etc", "conf">> :> Node("file", <<>>, FALSE, "zip", TRUE))
Pick(mode, initial, root, exts, hidden, create) ==
  [mode |-> mode, initial |-> initial, root |-> root, exts |-> exts, hidden |-> hidden,
   create |-> create]
MCPickOpts ==
  {Pick("files", <<>>, <<>>, {"zip"}, FALSE, TRUE),
   Pick("dirs", <<"sd", "shut">>, <<"sd", "out">>, {}, TRUE, TRUE),
   Pick("both", <<"sd">>, <<"sd", "roms">>, {}, FALSE, FALSE)}

MCViewOpts == {[detail |-> TRUE, cancel |-> TRUE, clear |-> TRUE, noFilter |-> FALSE, overflow |-> FALSE],
               [detail |-> TRUE, cancel |-> FALSE, clear |-> FALSE, noFilter |-> TRUE, overflow |-> TRUE]}

Sec(title, body, drawn) == [title |-> title, body |-> body, drawn |-> drawn]
MCDetails == {<<Sec(1, 3, 3), Sec(0, 2, 2), Sec(1, 4, 4)>>, <<Sec(1, 1, 1)>>,
              <<Sec(0, 4, 0), Sec(1, 5, 5)>>}

MCBaseRoot == <<"sd">>
MCJobs == <<1, 2, 1>>
MCHelpTexts == {[height |-> 12, estimate |-> 11], [height |-> 2, estimate |-> 3]}

-----------------------------------------------------------------------------
Widget == w.kind # "off"
\* A tool that is not run is as one that refused its command line.
ListOff == /\ in = Run("text", <<>>) /\ items = <<>> /\ hasOpts = FALSE /\ vis = <<>> /\ sel = -1
           /\ first = 0 /\ last = 0 /\ rows = Rows /\ saved = 0 /\ kb = FALSE /\ text = <<>>
           /\ cur = [layout |-> 0, row |-> 0, col |-> 0] /\ code = "error" /\ files = {}
           /\ active = <<>> /\ loaded = {} /\ backSeen = {} /\ shown = <<>> /\ backLost = FALSE
ShowOff == arg = Cmd(<<>>, <<>>) /\ slides = <<>> /\ slide = 0 /\ usr1 = FALSE /\ dirty = FALSE
           /\ now = 0 /\ pics = {} /\ found = {} /\ pcode = "error" /\ pshown = <<>>
           /\ pressed = "none" /\ dropped = FALSE
WidgetOff == w = [kind |-> "off"]

UiInit ==
  \/ Init /\ ShowOff /\ WidgetOff
  \/ PInit /\ ListOff /\ WidgetOff
  \/ ListOff /\ ShowOff /\ WidgetInit
UiNext ==
  \/ ~Widget /\ Next /\ UNCHANGED <<w, pvars>>
  \/ ~Widget /\ PNext /\ UNCHANGED <<w, vars>>
  \/ Widget /\ WidgetNext /\ UNCHANGED <<vars, pvars>>
UiSpec == UiInit /\ [][UiNext]_<<vars, pvars, w>>
=============================================================================
