SPECIFICATION Spec
CONSTANTS
  Field = {1, 2, 3}
  NameField = 2
  Languages = {"rust", "python"}
  MaxFields = 2
  MaxRelays = 2
INVARIANTS
  EventSurvives
  RecordEvolution
  
  
