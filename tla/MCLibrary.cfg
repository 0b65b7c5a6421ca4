CONSTANTS
    FolderIds = {1, 2, 3}
    HostIds = {1, 2}
    TagIds = {1, 2}
    Names = {"prod", "lab"}
    Root = Root
SPECIFICATION Spec
INVARIANTS ReferencesHold TreeComplete
PROPERTIES HostsSurvive
