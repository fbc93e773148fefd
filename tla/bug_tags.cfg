SPECIFICATION Spec
CONSTANTS
    a = a  b = b  u1 = u1  u2 = u2  u3 = u3  v1 = v1  v2 = v2  slow = slow  web = web
    SetupId = SetupId  None = None  Torn = Torn  AllTags = AllTags
    Runs = {a, b}
    Units = {u1, u2, u3, v1, v2}
    Tags = {slow, web}
    Plans <- TagPlans
    Outcomes <- MCOutcomes
    FeatureTags <- MCFeatureTags
    ScenarioTags <- MCScenarioTags
    SafeId <- MCSafeId
INVARIANTS SelectedOnly
CHECK_DEADLOCK FALSE
