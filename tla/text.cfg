SPECIFICATION Spec
CONSTANTS
  Letters = {"a", "b"}
  MaxText = 8
  MaxLen = 4
  Size = 3
INVARIANTS FieldsCopied TokensAreFields
