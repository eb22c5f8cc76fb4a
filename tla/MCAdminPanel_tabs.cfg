SPECIFICATION FairSpec
CONSTANTS
    Tabs = {tab1, tab2}
    Ids = {1, 2}
    None = None
    Fetching = 1
INVARIANTS
    TypeOK
    EndedSessionActsNoMore
    LogoutEndsItsPage
PROPERTIES
    LoadEnds
    EndedPanelLeaves
