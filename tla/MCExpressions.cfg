CONSTANT Texts <- MCTexts
SPECIFICATION FairSpec
INVARIANTS TypeOK AcceptsGrammar DepthFollowsText SubstitutionsAreValidated
PROPERTY ExpressionIsDecided
