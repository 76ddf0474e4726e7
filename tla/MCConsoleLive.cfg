\* One user on the status page, whose session the server may forget.
CONSTANTS
    Users <- OneUser
    Role <- MCRole
    Pages <- OnePage
    MaxLogins = 2
    MaxKinds = 2
    PatientUser = TRUE
SPECIFICATION FairSpec
PROPERTY RevokedSessionLeaves
