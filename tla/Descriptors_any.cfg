SPECIFICATION Spec
CONSTANT Numbers <- MCNumbers
INVARIANTS TypeOK OwnDescriptors EveryDescriptorHasACloser
PROPERTY WrongUseNeedsAFailure
