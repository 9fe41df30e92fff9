SPECIFICATION Spec
CONSTANTS
    MaxEvents = 3
    Ids = {1, 2, 3, 4}
    Initial = {1, 2, 3}
    Matching = {2, 3}
    Manageable = {1, 3}
    PageSize = 2
INVARIANTS RowsShowThePast WhatIsShownIsTrue NoUserTwice
CHECK_DEADLOCK FALSE
