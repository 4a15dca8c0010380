SPECIFICATION LanguageSpec
CONSTANTS
    Fluent <- MCFluent
    FluentType <- MCFluentType
    Fields <- MCFields
    Literal <- MCLiteral
    Made <- MCMade
    Initially <- MCInitially
    ListTypes <- MCListTypes
    RndNumbers <- MCRndNumbers
    ExogFunctionTypes <- MCExogFunctionTypes
    MaxIndex = 1
    MaxLength = 2
    MaxOperators = 5
    ComponentNames <- MCComponentNames
    StateLists <- MCStateLists
    ClockLists <- MCClockLists
    TransitionLists <- MCTransitionLists
    Programs <- MCPrograms
    ModelElements <- MCModelElements
    Height = 12
    MaxNesting = 3
    MaxStarted = 1
    MaxBody = 2
    MaxRules = 2
    MaxTurns = 2
    Horizon = 4
    ComponentRefs <- MCComponentRefs
    AutomatonStates <- MCAutomatonStates
    PlatformActions <- MCPlatformActions
    BoundPairs <- MCBoundPairs
    Second = 2
    Components <- MCComponents
    Formulas <- MCFormulas
    Lowercase <- MCLowercase
    Models <- MCModels
    Plans <- MCPlans
    Delays <- MCDelays
    MaxSwitches = 2
    MaxTransforms = 2
INVARIANTS LoadingTypeOK VariablesBound SubtypesSound ChainKept RespectedWithoutValley
    RunsAsWritten CompiledIsNecessary CompiledAsWritten
    StartsIfDefined GologVarsDistinct ComponentsAsWritten
    TypeOK StatementsAgree ArgumentsArrive
PROPERTIES CallsStayConsistent TransformsFaithfully
CHECK_DEADLOCK FALSE
