SPECIFICATION Spec
CONSTANT
    Amounts <- SomeAmounts
INVARIANT MeansTheAmount
