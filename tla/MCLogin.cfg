SPECIFICATION Spec
CONSTANTS
    Tabs = {t1, t2}
    Pages = {Root, certs}
    Root = Root
    NoPage = NoPage
    TooLong = FALSE
    MaxVisits = 1
    MaxMishaps = 1
INVARIANT RightPage
PROPERTY LoginEndsAlone
CHECK_DEADLOCK FALSE
