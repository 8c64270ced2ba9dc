SPECIFICATION UiSpec
CONSTANTS
    Inputs <- MCInputs
    Letters = {1, 2}
    MaxText = 2
    Rows = 3
    KbRows = 2
    Args <- MCArgs
    MaxClock = 2
    MainRows = 3
    LineWidth = 5
    ListOpts <- MCListOpts
    ListRows = 2
    AlphaGroups = 3
    OptOpts <- MCOptOpts
    OptRows = 2
    Layouts = {"numeric", "general", "url"}
    KbTexts <- MCKbTexts
    KbSize = 5
    Shortcuts = 7
    PickOpts <- MCPickOpts
    Nodes <- MCNodes
    BaseRoot <- MCBaseRoot
    MaxDepth = 3
    NewName = "new"
    Jobs <- MCJobs
    MaxItems = 2
    ViewRows = 1
    ViewOpts <- MCViewOpts
    ViewGroups = 2
    NChoices = 3
    Details <- MCDetails
    DetailView = 5
    DetailStep = 3
    SectionGap = 1
    HelpTexts <- MCHelpTexts
INVARIANTS
    ListShown
    SlideShown
    WidgetsWhole
CHECK_DEADLOCK FALSE
