SPECIFICATION Spec
CONSTANTS
    MajorHdr = 3
    MinorHdr = 3
    Alignment = 2
    AlignInfo = 2
    PageSize = 32
    PageCount = 1
    HeapPages = 3
    Requests = {2, 7, 54}
    MaxUsers = 3
INVARIANTS TypeOK UsersAreSeparate UsersHaveHeaders ListsAreSound CountsAreExact BestBetIsLive EmptyMajorsGoBack
PROPERTY GrowsOnlyWhenFull

