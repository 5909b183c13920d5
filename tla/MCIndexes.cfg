CONSTANT Texts <- IndexTexts
SPECIFICATION Spec
INVARIANT IndexesAreValidated
