SPECIFICATION FairSpec
CONSTANTS
    Pages = {v1}
    Accounts = {1, 2, 3}
    Assets = {1, 2}
    Openings <- AllKinds
    Jobs = {j1, j2}
    NoPage = NoPage
INVARIANTS
    MenuTypeOK
    OneRunPerPage
    ListedAccountsAnswered
PROPERTIES
    ButtonsComeBack
