SPECIFICATION Spec
CONSTANTS
    CondType = {ready, validated}
    Info <- MCInfo
    None = None
    MaxTime = 1
INVARIANTS BlockersAreSeen ChangesAreReported
PROPERTIES ImplementsConditionSet TimeOnlyWithChange
