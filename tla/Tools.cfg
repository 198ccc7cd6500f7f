CONSTANTS
  Files <- AllOfFiles  Mounts <- AllOfMounts  Names <- AllOfNames  Commands <- ToolCommands
  None = None  Refused = Refused  Raised = Raised  Blank = Blank
  a1 = a1  a2 = a2  n1 = n1  n2 = n2  u0 = u0  u1 = u1  x1 = x1  x2 = x2
  k1 = k1  k2 = k2  v1 = v1  v2 = v2  Zero = Zero  Extended = Extended  Unparsable = Unparsable
SPECIFICATION ToolsSpec
INVARIANTS ToolsTypeOK SummaryIsTrue HeadServesModels PoliciesSurvive AcceptedRunsAllowed OrderlyIsAccepted AcceptsAllowedBoots OneLength BaseSurvives LeftOutStaysOut UpgradeKeepsValues AcceptedMeetsPolicy
CHECK_DEADLOCK FALSE
