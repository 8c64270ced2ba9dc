------------------------------- MODULE MCLoops -------------------------------
(* Two loops of Apostrophe, each on its own: the download manager with    *)
(* its threads, and the input loop under every screen on a raw pad with    *)
(* hat and stick, a controller, a controller faster than the loop, an      *)
(* overflowing footer with its chord, combos, and footers alone.           *)
EXTENDS ApDownload, ApInput

DlOff == /\ status = [d \in D |-> "failed"] /\ worker = [d \in D |-> "gone"]
         /\ file = [d \in D |-> "none"] /\ next = DlCount + 1 /\ active = 0
         /\ completed = DlCount /\ cancel = TRUE /\ joinable = D /\ lock = FALSE
         /\ ui = "cancelled" /\ seen = [status |-> status, done |-> DlCount, all |-> TRUE]
         /\ result = [completed |-> 0, failed |-> DlCount, cancelled |-> TRUE]

Quiet == [controller |-> TRUE, flipped |-> FALSE, buttons |-> {}, hats |-> {{}}, sticks |-> {},
          trigger |-> FALSE, system |-> {}, footers |-> {<< >>}, frames |-> {-1},
          opts |-> {[enabled |-> TRUE, a |-> "none", b |-> "none"]}, combos |-> {},
          burst |-> 2]
Hint(width, confirm) == [w |-> width, confirm |-> confirm]
Wide == <<Hint(4, FALSE), Hint(4, FALSE), Hint(3, TRUE)>>
Slim == <<Hint(2, TRUE)>>

RawPad == [Quiet EXCEPT !.controller = FALSE, !.burst = 1,
                        !.hats = {{}, {"up"}, {"up", "left"}}, !.sticks = {"y"}]
Controller == [Quiet EXCEPT !.burst = 1, !.flipped = TRUE, !.buttons = {"up", "A"},
                            !.trigger = TRUE, !.system = {"quit", "user"}, !.frames = {-1, 2}]
Hasty == [Controller EXCEPT !.burst = 2, !.trigger = FALSE, !.system = {"quit"}]
Chorded == [Quiet EXCEPT !.controller = FALSE, !.buttons = {"X", "Y", "A"}, !.footers = {Wide, Slim},
                         !.opts = {[enabled |-> TRUE, a |-> "X", b |-> "Y"],
                                   [enabled |-> FALSE, a |-> "none", b |-> "none"]}]
Pair(id, sequence, strict) ==
  [id |-> id, btns |-> <<"A", "B">>, sequence |-> sequence, strict |-> strict, window |-> 1,
   active |-> TRUE]
Comboed == [Quiet EXCEPT !.controller = FALSE, !.burst = 1, !.buttons = {"A", "B"},
                         !.combos = {Pair("both", FALSE, FALSE), Pair("then", TRUE, TRUE)}]
Footers == [Quiet EXCEPT !.footers =
              UNION {[1..n -> {Hint(wd, c) : wd \in {2, 4}, c \in BOOLEAN}] : n \in 0..3}]

MCSetups == {RawPad, Controller, Hasty, Chorded, Comboed, Footers}

InputOff == setup = Quiet /\ phys = NothingPressed /\ sdl = <<>> /\ g = Fresh /\ at = "off"
            /\ rest = 0 /\ keyed = {}

LoopInit == (DlInit /\ InputOff) \/ (InInit /\ DlOff)
LoopNext == (DlNext /\ UNCHANGED inVars) \/ (InNext /\ UNCHANGED dvars)
LoopSpec == LoopInit /\ [][LoopNext]_<<dvars, inVars>> /\ DlFairness /\ InFairness
=============================================================================
