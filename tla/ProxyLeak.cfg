SPECIFICATION FairSpec
CONSTANTS
    WebActions = {}
    ConnReqs = {"p"}
    Scenes = {{"p"}}
    MaxFaults = 1
PROPERTIES UnhandledLinkIsClosed
CHECK_DEADLOCK FALSE
