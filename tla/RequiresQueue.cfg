SPECIFICATION Spec
CONSTANTS
    TypeGroups <- MCTypeGroups
    Names <- MCNames
    Inputs <- MCInputs
    Values <- MCValues
    Filter <- MCFilter
    Empty <- MCEmpty
    MaxSlots = 3
INVARIANTS
    UniqueIds
    ListedIsProvidable
PROPERTIES
    ProvidedIsFinal
    AnsweredOnce
