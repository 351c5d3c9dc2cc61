\* The permissions docs/api-reference.md gives for own items.
SPECIFICATION Spec
CONSTANTS
    None = None
    Invalid = Invalid
    PermissionSets <- MCPermissionSets
INVARIANT ChangeNeedsItsRight
