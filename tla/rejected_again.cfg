SPECIFICATION Spec
CONSTANTS
  e1 = e1
  e2 = e2
  e3 = e3
  a1 = a1
  c1 = c1
  i1 = i1
  i2 = i2
  sender = sender
  listed = listed
  senderKey = senderKey
  listedKey = listedKey
  address = address
  Null = Null
  Entities = {e1, e2}
  Artifacts = {a1}
  Cards = {c1}
  Importers = {i1, i2}
  Names = {senderKey, listedKey}
  Addresses = {address}
  DisplayNames = {sender, listed}
  FullKey <- OneKey
  NameKeys <- OneKeySet
  HintLists <- MCSpellings
  CardContents <- MCCardContents
  Suggestions = {}
  Export = {}
  Forms = {}
  Edits = {address}
PROPERTY
  RejectedStaysOut
