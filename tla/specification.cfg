SPECIFICATION Spec
CONSTANTS
    None = None
    PageCeiling = 3
    DefaultResults = 4
    MaxEdits = 2
    Choices <- MCChoices
    Base <- MCBase
INVARIANTS CallsNeverBlameTheSpec LimitsInRange
PROPERTIES RepairsGetFurther
