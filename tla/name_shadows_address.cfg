SPECIFICATION Spec
CONSTANTS
  e1 = e1
  e2 = e2
  e3 = e3
  a1 = a1
  c1 = c1
  i1 = i1
  i2 = i2
  n1 = n1
  n2 = n2
  x1 = x1
  x2 = x2
  d1 = d1
  d2 = d2
  Null = Null
  Entities = {e1, e2}
  Artifacts = {a1}
  Cards = {c1}
  Importers = {i1}
  Names = {n1}
  Addresses = {x1}
  DisplayNames = {d1}
  FullKey <- MCFullKey
  NameKeys <- MCNameKeys
  HintLists <- MCHintLists
  CardContents <- MCCardContents
  Suggestions = {}
  Export = {}
  Forms <- MCForms
  Edits = {n1, x1}
PROPERTY
  NameNeverShadowsAddress
