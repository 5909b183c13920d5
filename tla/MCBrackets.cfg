CONSTANT MaxLen = 5
SPECIFICATION FairSpec
INVARIANTS TypeOK OutsideIsClean ScannersAgree
PROPERTY WordIsDecided
