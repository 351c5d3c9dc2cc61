\* One request at a time, all six contexts.
SPECIFICATION Spec
CONSTANTS
    u1 = u1
    u2 = u2
    i1 = i1
    s1 = s1
    s2 = s2
    v0 = v0
    v1 = v1
    w = w
    Users = {u1, u2}
    Items = {i1}
    Kinds = {"todo", "note", "contact", "book", "movie", "expense"}
    KeptValues = {v0, v1}
    Initial = v0
    NullableValues = {w}
    Null = null
    Absent = absent
    Slots = {s1}
PROPERTIES PatchIsPartial ImplementsStore
