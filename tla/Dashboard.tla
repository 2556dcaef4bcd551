----------------------------- MODULE Dashboard -----------------------------
(***************************************************************************)
(* One browser tab of the admin dashboard, on the alerts page (AlertBoard) *)
(* or on the analytics pages (AdminPages).  The two read tables the other  *)
(* does not, so what the tab does not look at stands still.                *)
(***************************************************************************)
EXTENDS AlertBoard, AdminPages

dashboardVars == <<boardVars, pagesVars>>

DashboardInit == BoardInit /\ PagesInit
DashboardNext == \/ page = Other /\ BoardNext /\ UNCHANGED pagesVars
                 \/ page # Other /\ PagesNext /\ UNCHANGED boardVars

DashboardSpec == DashboardInit /\ [][DashboardNext]_dashboardVars /\ BoardFairness

(* Every variable has its type; the board shows rows, few enough.          *)
DashboardTypeOK == BoardTypeOK /\ PagesTypeOK
=============================================================================
