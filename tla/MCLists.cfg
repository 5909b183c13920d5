CONSTANT Texts <- MCTexts
SPECIFICATION FairSpec
INVARIANTS TypeOK WritesFit SplitAlike ItemsAreUtf8
PROPERTY ListIsSplit
