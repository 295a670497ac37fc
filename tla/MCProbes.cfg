SPECIFICATION Spec
CONSTANT Scripts <- AllScripts
INVARIANTS
    GivesBack
PROPERTIES
    OneSlot
CHECK_DEADLOCK FALSE
