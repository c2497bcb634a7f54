SPECIFICATION Spec
CONSTANTS
  Inputs = {"i1", "i2"}
  Settings <- MCSettings
  NoInput = NoInput
  MaxCalls = 2
  Prompts = {p1, p2}
  NoPrompt = NoPrompt
  MaxAttempts = 3
  Sessions = {s1, s2}
  Modes = {"none", "plan", "default"}
  Others = {"none", "dark"}
  MaxFaults = 3
  Calls = {"c1", "c2", "c3"}
  Processes = {"p", "q"}
  ProcessOf <- MCProcessOf
  NoFile = NoFile
  MaxFiles = 8
INVARIANTS
  ClearedBeforeExecuted
  ResultHonest
  PromptAccounted
  UserSettingsKept
  AgentRecordTrue
PROPERTIES
  InterruptEnds
  PatchIsAtomic
CHECK_DEADLOCK FALSE
