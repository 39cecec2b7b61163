SPECIFICATION EditorsSpec
CONSTANTS
    Scope = {"credential", "page", "list", "vault", "generator"}
    Tabs = {t1, t2}
    Passwords = {p1, p2}
    MaxVersion = 3
    HistoryMax = 1
    Visits = {y1}
    Texts = {x1}
    Puts = {q1, q2}
    PageMaxVersion = 3
    PageHistoryMax = 1
    None = None
    Pages = {g1, g2}
    g1 = g1
    g2 = g2
    Token <- TwoTokens
    Sought <- FirstToken
    Requests = {t1, t2}
    ListMaxVersion = 2
    Credentials = {c1, c2}
    Matching = {c1}
    VaultMaxVersion = 2
    MaxByte = 2
    Width = 3
    Charsets <- TwoClassesAndDigits
    Words <- ThreeWords
    Bytes = 8
    Bytes16 = 16
    MinLength = 3
    MaxLength = 4
    MinWords = 2
    MaxWords = 3
CHECK_DEADLOCK FALSE
SYMMETRY Symmetry
INVARIANTS TypesOK PasswordsAreKept HistoryIsTheLastVersions CopiesAreTrue ListsAreTrue EveryClassAppears
PROPERTIES SavesBuildOnTheRow SearchFindsTheTitle
