SPECIFICATION Spec
INVARIANT PerformsItsAction
