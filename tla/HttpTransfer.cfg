CONSTANTS
    StatusLines <- MCStatusLines
    Statuses <- MCStatuses
    HeaderLists <- MCHeaderLists
    Bodies <- MCBodies
    Capacities = {12, 20, 40}
SPECIFICATION TransferSpec
INVARIANTS AllOrNothing CompleteIsUnderstood NothingIsRetracted
CHECK_DEADLOCK FALSE
