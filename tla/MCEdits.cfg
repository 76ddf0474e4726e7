\* Every page that edits, and the portal's forms.
CONSTANTS
    Views <- AllViews
    Values <- ThreeValues
    Cleared = "none"
    RoleSet <- OneRole
    MaxReqs = 2
    MaxSent = 3
    MaxDialogs = 1
    MemberViews <- AllMemberViews
    People = {"ann", "bob"}
    Providers <- AllProviders
    MemberRoles = {3}
    MaxRequests = 2
    MaxMemberSent = 3
    Names = {"n1", "n2"}
    Images = {"i1", "i2"}
    Contracts = {"c1"}
    MaxAttrs = 2
    FormVisits <- MCFormVisits
SPECIFICATION MCSpec
INVARIANTS
    SaveIsShown
    EditTypesOK
    BanIsShown
    ShownIsServed
    PreviewIsAvatar
PROPERTY
    LinkKeepsRest
\* Deleted objects, closed forms and used-up bounds: a page may come to rest.
CHECK_DEADLOCK FALSE
