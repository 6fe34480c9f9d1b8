\* Every shape of type, lists and maps of at most two, all sequences of calls.
SPECIFICATION Spec
VIEW ButCall
CONSTANTS
  None = None
  Err = Err
  Schemas <- MCSchemas
  Payloads <- MCPayloads
  FloatText <- MCFloatText
  KeyNames <- MCKeyNames
  MaxLen = 2
  ProbeNames <- MCProbeNames
  ProbeIndexes = {0, 2}
INVARIANTS
  TypeOK
  LayoutsAgree
  ReadsAgree
  Canonical
PROPERTY
  ImplementsTypedDocument
