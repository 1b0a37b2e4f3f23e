\* Lengths beyond four digits.
CONSTANT MaxLen = 10100
SPECIFICATION Spec
INVARIANT TypeOK
INVARIANT WholeOrRefused
