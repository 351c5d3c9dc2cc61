\* Every route, tokens of nine kinds, any step failing.
SPECIFICATION Spec
CONSTANTS
    None = None
    Invalid = Invalid
    PermissionSets <- MCPermissionSets
INVARIANTS TypeOK OwnRightsReachOwnData ReadersChangeNothing RefusalsChangeNothing
INVARIANTS ChangesLeaveAnEntry LogAgreesWithAnswer AnswersDescribed
