SPECIFICATION DashboardSpec
CONSTANTS
 Post = {p1}
 Poll = {q1, q2}
 Patch = {c1}
 Kind = {sos, other}
 SystemKind = other
 AllKinds = AllKinds
 Limit = 1
 MaxAlert = 2
CHECK_DEADLOCK FALSE
INVARIANTS DashboardTypeOK RaisedIsRecorded QuietIsTrue PageShowsItsOwn FiguresAddUp
PROPERTIES BoardCatchesUp
CONSTANTS
 Route = {r1, r2}
 NoRoute = NoRoute
 Hour = {8, 9}
 Request = {f1, f2}
 Boarding = {0, 1}
 MaxTrip = 1
 MaxEvent = 2
 FleetMap = FleetMap
 Other = Other
