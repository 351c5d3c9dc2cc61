\* Four rows, pages of one and two, two writes in the course of a walk.
SPECIFICATION Spec
CONSTANTS
    Rows = {1, 2, 3, 4}
    Creations <- MCCreations
    Limits = {1, 2}
    Pages = {1, 3}
    NotYet = NotYet
    MaxWrites = 2
INVARIANTS TypeOK WalksShowEachRowOnce MetaFitsThePage
