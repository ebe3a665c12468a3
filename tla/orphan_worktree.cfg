SPECIFICATION WorkspacesFairSpec
CONSTANTS
  Tasks = {task}
  Repositories = {repo}
  Branches = {branch}
  branchOf <- OneBranch
  Actors = {a1, a2}
  None = None
  releaseLimit = 2
  MaxBase = 0
  MaxIntrusions = 0
  MaxCrashes = 1
  Losses = {}
  MaxLosses = 0
PROPERTIES TerminalLeavesNoWorktree
CHECK_DEADLOCK FALSE
