SPECIFICATION Spec
CONSTANTS
  Bits = 3
  Operands <- MCOperands
INVARIANT IntersectsAnswers
