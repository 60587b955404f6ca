CONSTANTS
    Times = {t1, t2}
    Colors = {c1, c2}
    Zero = Zero
    Erased = Erased
    Broken = Broken
SPECIFICATION Spec
INVARIANTS
    TypeOK
    NoLostUpdate
    PageIsPrefixOfRecord
PROPERTIES
    NoOverprogramming
    CommandReachesFlash
    ImplementsPersistentRecord
