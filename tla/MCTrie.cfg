SPECIFICATION Spec
CONSTANTS
  Keys <- MCKeys
  Values = {"x", "y"}
  Nil = "nil"
  Width = 8
  Doublings = 3
INVARIANTS TypeOK GetAnswers ForEachSorted
PROPERTY ActsAsDictionary
