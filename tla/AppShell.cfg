SPECIFICATION ShellSpec
CONSTANTS
    Nothing = Nothing
    MaxThreads = 2
    ListBound <- MCListBound
    Models = {"claude", "opus"}
    Providers = {"anthropic"}
    ProviderOf <- MCProviderOf
    DefaultModel = "claude"
    ModelBound <- MCPageBound
    SkillIds = {pdf, sql}
    SkillPaths = {"notes"}
    FirstSkills <- MCFirstSkills
    SkillBound <- MCPageBound
    McpIds = {db, web}
    McpBound <- MCPageBound
INVARIANTS
    ShellTypeOK
    SidebarShowsTheServer
    SwitcherShowsTheServer
    EditorsKeepToTheirOwn
SYMMETRY MCSymmetry
CHECK_DEADLOCK FALSE
