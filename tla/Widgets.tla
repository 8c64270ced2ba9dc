------------------------------- MODULE Widgets -------------------------------
(***************************************************************************)
(* The widgets of Apostrophe.  A program calls one of them, and it has the *)
(* screen and the events to itself until it returns: w is the stack frame  *)
(* of that call.                                                           *)
(***************************************************************************)
EXTENDS Integers, Sequences, FiniteSets

CONSTANTS
  ListOpts, ListRows, AlphaGroups,                         \* ApList
  OptOpts, OptRows,                                        \* ApOptions
  Layouts, KbTexts, KbSize, Shortcuts,                     \* ApKeyboard
  PickOpts, Nodes, BaseRoot, MaxDepth, NewName,            \* ApPicker
  Jobs, MaxItems, ViewRows, ViewOpts, ViewGroups,          \* ApQueueViewer
  NChoices, Details, DetailView, DetailStep, SectionGap, HelpTexts   \* ApDialogs

VARIABLE w

AList == INSTANCE ApList
AOptions == INSTANCE ApOptions
AKeyboard == INSTANCE ApKeyboard WITH KbLayouts <- Layouts
APicker == INSTANCE ApPicker
AViewer == INSTANCE ApQueueViewer
ADialogs == INSTANCE ApDialogs

-----------------------------------------------------------------------------
(* What callers, the screen and the file system give the widgets.          *)

\* A list that is shown has rows, and room for one of them at least
\* (apostrophe_widgets.h:559, 596); the caller chooses where it starts.
ListRow == [id : Nat, group : Nat, marked : BOOLEAN]
ListSetting ==
  /\ ListRows \in Nat \ {0}
  /\ \A o \in ListOpts : /\ o.items \in Seq(ListRow) /\ o.items # <<>>
                         /\ o.initial \in Int /\ o.top \in Int

\* The same for the list of options (1052, 1077), whose numbers of options and
\* selected ones are the caller's.
OptValues == {"new"} \cup UNION {{o.items[k].value : k \in DOMAIN o.items} : o \in OptOpts}
OptRow == [type : {"standard", "keyboard", "color", "clickable"}, count : Int, sel : Int,
           value : OptValues]
OptSetting ==
  /\ OptRows \in Nat \ {0}
  /\ \A o \in OptOpts : /\ o.items \in Seq(OptRow) /\ o.items # <<>>
                        /\ o.initial \in Int /\ o.top \in Int

\* Texts of whole characters, and at most 10 shortcuts (2134).
KbSetting ==
  /\ Layouts \subseteq {"numeric", "general", "url"}
  /\ KbSize \in Nat \ {0} /\ Shortcuts \in 0 .. 10
  /\ \A t \in KbTexts : t \in Seq(Nat) /\ AKeyboard!Whole(t)

\* The names of a path; "?" is the one that stands for a missing file.  No name
\* on the way of a path, nor its last one, is a link; a link stands for what
\* its text resolves to, and that has none.
Names == {"?"} \cup STRING
NoLink(fs, p) ==
  \A k \in 1 .. Len(p) : SubSeq(p, 1, k) \in DOMAIN fs => fs[SubSeq(p, 1, k)].type # "link"
Resolved(fs) ==
  /\ DOMAIN fs \subseteq Seq(Names)
  /\ \A l \in DOMAIN fs : fs[l].type = "link" /\ fs[l].to \in DOMAIN fs => NoLink(fs, fs[l].to)
PickSetting ==
  /\ Resolved(Nodes) /\ BaseRoot \in Seq(Names) /\ NewName \in Names
  /\ \A o \in PickOpts : o.root \in Seq(Names) /\ o.initial \in Seq(Names)

\* Room for one job at least (4472).
ViewSetting == Jobs \in Seq(Nat) /\ MaxItems \in Nat /\ ViewRows \in Nat \ {0}

DetailSection == [title : Nat, body : Nat, drawn : Nat]
DetailSetting == Details \subseteq Seq(DetailSection) /\ DetailView \in Nat /\ SectionGap \in Nat

ASSUME WidgetsAssumption ==
  ListSetting /\ OptSetting /\ KbSetting /\ PickSetting /\ ViewSetting /\ DetailSetting

-----------------------------------------------------------------------------
WidgetInit ==
  \/ AList!ListInit \/ AOptions!OptInit \/ AKeyboard!KbInit
  \/ APicker!PickInit \/ AViewer!ViewInit \/ ADialogs!DialogInit
WidgetNext ==
  \/ AList!ListNext \/ AOptions!OptNext \/ AKeyboard!KbNext
  \/ APicker!PickNext \/ AViewer!ViewNext \/ ADialogs!DialogNext
WidgetSpec == WidgetInit /\ [][WidgetNext]_w

-----------------------------------------------------------------------------
\* The row of the cursor is on the screen after every frame of the list
\* widgets, the window of the queue viewer is full although jobs come and go,
\* and a screen of details can be scrolled to its end.  What a widget hands
\* back is whole: reordering keeps every row and the order that letter jumps
\* use, no character is broken by typing, a picked path is below the root, and
\* the worker of a process screen has ended (ApList, ApOptions, ApKeyboard,
\* ApPicker, ApQueueViewer, ApDialogs).
WidgetsWhole ==
  /\ AList!CursorShown /\ AOptions!CursorShown /\ AViewer!WindowFull /\ ADialogs!EndReachable
  /\ AList!AlphaFresh /\ AList!SameRows /\ AKeyboard!TextWhole /\ APicker!StaysInside
  /\ ADialogs!WorkerOutlived
=============================================================================
