SPECIFICATION Spec
CONSTANTS
  Versions <- Catalog
  Replicas = 2
  MaxSpecChanges = 2
  MaxForeignWrites = 1
  MaxFaults = 1
  MaxLag = 2
INVARIANTS
  TypeOK
  TemplateOneLine
  CopiesAgree
  ChownBeforeStart
PROPERTIES
  ImplementsContract
