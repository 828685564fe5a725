SPECIFICATION EvaluationSpec
CONSTANTS
    Capabilities <- MCCapabilities
    Formats <- MCFormats
    Modes <- MCModes
    Answers <- MCAnswers
    Cases <- MCCases
    ExactRate = 50
    GateRate = 100
    MaxCases = 2
    Beside <- MCBeside
CHECK_DEADLOCK FALSE
INVARIANTS
    PlannerAgreesWithRouter
    RoutedRequestsAreServed
    LoadedTasksAreRouted
    PassedReportsHoldTheGate
PROPERTIES
    DemandsNeverWidenTheRoute
