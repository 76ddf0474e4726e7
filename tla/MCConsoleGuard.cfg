\* Two users of different roles, a restricted page, late and lost answers.
CONSTANTS
    Users <- TwoUsers
    Role <- MCRole
    Pages <- ThreePages
    MaxLogins = 2
    MaxKinds = 2
    PatientUser = TRUE
SPECIFICATION Spec
INVARIANTS TypeOK SignedInToSee RoleFitsPage
