------------------------------ MODULE MCIvyBus ------------------------------
(* Two applications and two expressions: both match m1, only r2 matches m2. *)
EXTENDS IvyBus, TLC

CONSTANTS app1, app2, r1, r2, m1, m2

Both(x, y) == app1 :> x @@ app2 :> y

MCApp == {app1, app2}
MCPort == Both(1, 2)
MCRe == {r1, r2}
MCMessage == {m1, m2}
MCMatch == r1 :> {m1} @@ r2 :> {m1, m2}

NoFilter == Both({}, {})
AFilters == Both({r2}, {})
BReady == Both(NoMessage, m1)
BothReady == Both(m1, m2)

None == Both(0, 0)
One == Both(1, 1)
TwoA == Both(2, 0)
TwoOne == Both(2, 1)
OneB == Both(0, 1)
OneA == Both(1, 0)

AToB == Both(Both(0, 1), None)
Twice == Both(Both(0, 2), None)
Crossed == Both(Both(0, 1), Both(1, 0))
Echoed == Both(Both(1, 1), None)
=============================================================================
