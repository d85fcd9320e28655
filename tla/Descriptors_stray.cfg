SPECIFICATION Spec
CONSTANT Numbers <- MCNumbers
INVARIANT WritesGoToTheCoreModule
