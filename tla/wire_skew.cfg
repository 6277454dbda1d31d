SPECIFICATION Spec
CONSTANTS
    Writers = {"ingest"}
    Readers = {"viewer"}
    Mixed = TRUE
    Sections = {"thermal"}
    MaxSet = 1
INVARIANTS
    SameReading
