SPECIFICATION SetupSpec
CONSTANT MaxEntered = 1
INVARIANT KconfigPermanent
