CONSTANTS
    Paths <- MCPaths
    Main = "main"
    Disks <- MCDisks
    Targets <- MCTargets
    Expand <- MCExpand
    Keywords = {"user", "port"}
    Numeric = {"port"}
    Values = {"1", "2", "3", "u"}
    Numbers = {"1", "2", "3"}
    Aliases <- MCAliases
    MaxIncludeDepth = 1
    Missing = Missing
    Unreadable = Unreadable
    None = None
    Characters <- MCCharacters
    Globs <- MCGlobs
    Texts <- MCTexts
    LineTexts <- MCLineTexts
    Comments <- MCComments
SPECIFICATION ScanSpec
INVARIANTS ResolveFaithful BlocksAccounted HelpersAgree
PROPERTIES Terminates
