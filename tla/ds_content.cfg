SPECIFICATION Spec
CONSTANTS
    Absent = Absent
    Specs <- DistinctSpecs
    EditSteps <- AnyEdit
    SecretNames = {"s1", "s2"}
    Secrets <- SecretData
    SecretSteps <- Creation
INVARIANTS UnchangedIsCurrent
