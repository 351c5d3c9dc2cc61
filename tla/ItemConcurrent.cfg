\* Two requests in flight, one context without and one with fields that may be null.
SPECIFICATION HistorySpec
CONSTANTS
    u1 = u1
    u2 = u2
    i1 = i1
    s1 = s1
    s2 = s2
    v0 = v0
    v1 = v1
    w = w
    Users = {u1, u2}
    Items = {i1}
    Kinds = {"note", "todo"}
    KeptValues = {v0, v1}
    Initial = v0
    NullableValues = {w}
    Null = null
    Absent = absent
    Slots = {s1, s2}
SYMMETRY Symmetry
INVARIANT TypeOK
PROPERTIES OnlyTheOwnerChanges RevivedOnlyByOverlap PatchIsPartialUnlessOverlapped ImplementsTable
