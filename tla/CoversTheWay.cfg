SPECIFICATION Spec
CHECK_DEADLOCK FALSE
CONSTANTS
    Commands <- MCCommands
    Statuses <- MCStatuses
    Places <- MCPlaces
    Home <- MCHome
    Fractions <- MCFractions
    MaxGoals = 2
    Postures <- MCPostures
    Yoshikawa <- MCYoshikawa
    Primitives <- MCPrimitives
    MaxPoints = 5
    SafeBudget = 3
    HardLimit = 4
    MaxSignFlips = 1
    SampleEvery = 2
    Floor = 5
PROPERTY CoversTheWay
