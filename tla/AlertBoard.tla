----------------------------- MODULE AlertBoard -----------------------------
(***************************************************************************)
(* An incident on its way from a driver's button to a dispatcher's screen  *)
(* and off it again: on_trip_screen.dart, alerts.service.ts, useAlerts.ts  *)
(* and AlertsPanel.tsx.  Alerts are numbered as they are inserted, which   *)
(* is the order of raised_at.                                              *)
(***************************************************************************)
EXTENDS Naturals, Sequences, FiniteSets

CONSTANTS Post,      \* alerts drivers raise from the app
          Poll,      \* bound: GET /alerts in flight at one time
          Patch,     \* bound: PATCH /alerts/:id/resolve in flight at one time
          Kind,      \* alert types
          SystemKind, \* one the stream-processor raises
          AllKinds,  \* no filter chosen
          Limit,     \* the limit useAlerts asks for
          MaxAlert   \* bound: rows

ASSUME BoardAssumption ==
    /\ Limit \in Nat \ {0} /\ MaxAlert \in Nat
    /\ SystemKind \in Kind /\ AllKinds \notin Kind

VARIABLES alerts,   \* rows: [kind, open: resolved_at is null]
          post,     \* each POST /alerts: where the service is, what the driver was told
          mounted,  \* the Alerts page is open
          list,     \* useAlerts: alerts, loading, error; AlertsPanel: filter
          poll,     \* GETs in flight
          patch,    \* PATCHes in flight
          asOf      \* history: rows there were when the list shown was read

boardVars == <<alerts, post, mounted, list, poll, patch, asOf>>
screenVars == <<mounted, list, poll, patch, asOf>>

Row == DOMAIN alerts
Alert == [kind : Kind, open : BOOLEAN]
PostRecord == [kind : Kind, row : 0 .. MaxAlert, inserting : BOOLEAN,
               server : {"none", "insert", "inserted", "failed"},
               driver : {"idle", "sending", "sent", "notSent"}]
List == [shown : SUBSET (1 .. MaxAlert), loading : BOOLEAN, error : BOOLEAN,
         filter : Kind \cup {AllKinds}]
PollRecord == [pc : {"idle", "sent", "read"}, upTo : 0 .. MaxAlert,
               rows : SUBSET (1 .. MaxAlert)]
PatchRecord == [pc : {"idle", "sent", "served"}, alert : 0 .. MaxAlert, page : BOOLEAN]

FreshList == [shown |-> {}, loading |-> TRUE, error |-> FALSE, filter |-> AllKinds]
IdlePoll == [pc |-> "idle", upTo |-> 0, rows |-> {}]
IdlePatch == [pc |-> "idle", alert |-> 0, page |-> FALSE]

BoardInit ==
    /\ alerts = <<>>
    /\ post \in [Post -> {[kind |-> k, row |-> 0, inserting |-> FALSE, server |-> "none",
                           driver |-> "idle"] : k \in Kind \ {SystemKind}}]
    /\ mounted = FALSE /\ list = FreshList /\ asOf = 0
    /\ poll = [p \in Poll |-> IdlePoll]
    /\ patch = [c \in Patch |-> IdlePatch]

(***************************************************************************)
(* The driver's app and the service.                                       *)
(***************************************************************************)

Insert(k) == /\ Len(alerts) < MaxAlert
             /\ alerts' = Append(alerts, [kind |-> k, open |-> TRUE])

Raise(p) == /\ post[p].driver = "idle"
            /\ post' = [post EXCEPT ![p].driver = "sending"]
            /\ UNCHANGED <<alerts, screenVars>>

(* The request arrives, perhaps after the driver was told it did not;      *)
(* resolveBusPk finds the bus, does not know it, or fails and says null.   *)
ResolveBusPk(p) ==
    /\ post[p].driver # "idle" /\ post[p].server = "none"
    /\ post' = [post EXCEPT ![p].server = "insert"]
    /\ UNCHANGED <<alerts, screenVars>>

(* The INSERT, with the bus or with null for it: the row says no more here. *)
Create(p) ==
    /\ post[p].server = "insert"
    /\ Insert(post[p].kind)
    /\ post' = [post EXCEPT ![p].server = "inserted", ![p].inserting = TRUE,
                            ![p].row = Len(alerts) + 1]
    /\ UNCHANGED screenVars
CreateFails(p) ==
    /\ post[p].server = "insert"
    /\ post' = [post EXCEPT ![p].server = "failed", ![p].inserting = TRUE]
    /\ UNCHANGED <<alerts, screenVars>>

(* The answer shows a message, if the screen is still there.               *)
Told(p) ==
    /\ post[p].driver = "sending"
    /\ \/ /\ post[p].server = "inserted"
          /\ post' = [post EXCEPT ![p].driver = "sent"]
       \/ /\ post[p].server = "failed"
          /\ post' = [post EXCEPT ![p].driver = "notSent"]
    /\ UNCHANGED <<alerts, screenVars>>

(* No connection, no answer within the time limit, or the screen was left. *)
GivenUp_Optimistic(p) ==
    /\ post[p].driver = "sending"
    /\ post' = [post EXCEPT ![p].driver = "sent"]
    /\ UNCHANGED <<alerts, screenVars>>
GivenUp(p) ==
    /\ post[p].driver = "sending"
    /\ post' = [post EXCEPT ![p].driver = "notSent"]
    /\ UNCHANGED <<alerts, screenVars>>

(* The stream-processor inserts alerts of its own.                         *)
SystemAlert == /\ Insert(SystemKind)
               /\ UNCHANGED <<post, screenVars>>

(***************************************************************************)
(* The dispatcher's page.                                                  *)
(***************************************************************************)

(* resolve(): a row that is resolved stays as it is.                       *)
Resolved(i) == [alerts EXCEPT ![i].open = FALSE]

(* listOpen: the newest open rows.                                         *)
Open == {i \in Row : alerts[i].open}
ListOpen_All == Open
ListOpen == {i \in Open : Cardinality({j \in Open : j > i}) < Limit}

(* fetchAlerts starts; the interval does not wait for the one before.      *)
Fetch(p) == /\ poll[p] = IdlePoll
            /\ poll' = [poll EXCEPT ![p] = [IdlePoll EXCEPT !.pc = "sent"]]

PollTick_UntilError(p) == mounted /\ ~list.error /\ Fetch(p) /\ UNCHANGED <<alerts, post, mounted, list, patch, asOf>>
PollTick(p) == mounted /\ Fetch(p) /\ UNCHANGED <<alerts, post, mounted, list, patch, asOf>>

Mount(p) == /\ ~mounted /\ mounted' = TRUE
            /\ Fetch(p)
            /\ UNCHANGED <<alerts, post, list, patch, asOf>>

(* What is in flight cannot touch the page any more.                       *)
Unmount == /\ mounted /\ mounted' = FALSE
           /\ poll' = [p \in Poll |-> IdlePoll]
           /\ patch' = [c \in Patch |-> [patch[c] EXCEPT !.page = FALSE]]
           /\ list' = FreshList /\ asOf' = 0
           /\ UNCHANGED <<alerts, post>>

Serve(p) == /\ poll[p].pc = "sent"
            /\ poll' = [poll EXCEPT ![p].pc = "read", ![p].rows = ListOpen,
                                     ![p].upTo = Len(alerts)]
            /\ UNCHANGED <<alerts, post, mounted, list, patch, asOf>>

PollAnswered(p) ==
    /\ poll[p].pc = "read"
    /\ list' = [list EXCEPT !.shown = poll[p].rows, !.error = FALSE, !.loading = FALSE]
    /\ asOf' = poll[p].upTo
    /\ poll' = [poll EXCEPT ![p] = IdlePoll]
    /\ UNCHANGED <<alerts, post, mounted, patch>>

PollFailed(p) ==
    /\ poll[p].pc # "idle"
    /\ list' = [list EXCEPT !.error = TRUE, !.loading = FALSE]
    /\ poll' = [poll EXCEPT ![p] = IdlePoll]
    /\ UNCHANGED <<alerts, post, mounted, patch, asOf>>

(* The panel's list under its filter.                                      *)
Visible == {i \in list.shown : list.filter \in {AllKinds, alerts[i].kind}}

SetFilter(k) ==
    /\ mounted
    /\ k = AllKinds \/ \E i \in list.shown : alerts[i].kind = k
    /\ list' = [list EXCEPT !.filter = k]
    /\ UNCHANGED <<alerts, post, mounted, poll, patch, asOf>>

Click(c, i) ==
    /\ mounted /\ ~list.loading /\ i \in Visible /\ patch[c] = IdlePatch
    /\ list' = [list EXCEPT !.shown = @ \ {i}]
    /\ patch' = [patch EXCEPT ![c] = [pc |-> "sent", alert |-> i, page |-> TRUE]]
    /\ UNCHANGED <<alerts, post, mounted, poll, asOf>>

Resolve(c) == /\ patch[c].pc = "sent"
              /\ alerts' = Resolved(patch[c].alert)
              /\ patch' = [patch EXCEPT ![c].pc = "served"]
              /\ UNCHANGED <<post, mounted, list, poll, asOf>>

PatchAnswered(c) == /\ patch[c].pc = "served"
                    /\ patch' = [patch EXCEPT ![c] = IdlePatch]
                    /\ UNCHANGED <<alerts, post, mounted, list, poll, asOf>>

(* The catch: the list is fetched again.                                   *)
PatchFailed(c) == /\ patch[c].pc # "idle"
                  /\ patch' = [patch EXCEPT ![c] = IdlePatch]
                  /\ IF patch[c].page THEN \E p \in Poll : Fetch(p) ELSE UNCHANGED poll
                  /\ UNCHANGED <<alerts, post, mounted, list, asOf>>

(* Another dispatcher.                                                     *)
ResolvedElsewhere(i) == /\ i \in Open /\ alerts' = Resolved(i)
                        /\ UNCHANGED <<post, screenVars>>

DriverSide == \/ \E p \in Post : \/ Raise(p) \/ ResolveBusPk(p) \/ Create(p)
                                 \/ CreateFails(p) \/ Told(p) \/ GivenUp(p)
              \/ SystemAlert
BoardSide ==
    \/ \E p \in Poll : PollTick(p) \/ Mount(p) \/ Serve(p) \/ PollAnswered(p) \/ PollFailed(p)
    \/ Unmount
    \/ \E k \in Kind \cup {AllKinds} : SetFilter(k)
    \/ \E c \in Patch : Resolve(c) \/ PatchAnswered(c) \/ PatchFailed(c) \/ \E i \in Row : Click(c, i)
    \/ \E i \in Row : ResolvedElsewhere(i)
BoardNext == DriverSide \/ BoardSide

(* The interval keeps firing and polls do not all fail for ever; nothing   *)
(* is assumed of a PATCH.                                                  *)
BoardFairness ==
    /\ WF_boardVars(\E p \in Poll : PollTick(p))
    /\ SF_boardVars(\E p \in Poll : Serve(p)) /\ SF_boardVars(\E p \in Poll : PollAnswered(p))

BoardSpec == BoardInit /\ [][BoardNext]_boardVars /\ BoardFairness

(***************************************************************************)
(* Properties.                                                             *)
(***************************************************************************)

(* Every variable has its type; rows are shown, and no more than Limit.    *)
BoardTypeOK ==
    /\ alerts \in Seq(Alert) /\ Len(alerts) <= MaxAlert
    /\ post \in [Post -> PostRecord]
    /\ mounted \in BOOLEAN /\ list \in List /\ list.shown \subseteq Row
    /\ Cardinality(list.shown) <= Limit
    /\ poll \in [Poll -> PollRecord] /\ patch \in [Patch -> PatchRecord]
    /\ asOf \in 0 .. Len(alerts)

(* alerts.service.ts 13-20: a driver is told an alert was sent only if its *)
(* row is there, no two alerts share a row, and only an INSERT that itself *)
(* failed loses one - never the bus it could not be attributed to.         *)
RaisedIsRecorded ==
    \A p \in Post :
        /\ post[p].driver = "sent" => post[p].row \in Row
        /\ post[p].server = "failed" => post[p].inserting
        /\ post[p].row # 0 => /\ alerts[post[p].row].kind = post[p].kind
                              /\ \A q \in Post \ {p} : post[q].row # post[p].row

(* What the panel says when its list is empty.                             *)
Title_OfVisible == IF list.loading \/ Visible # {} THEN "alerts" ELSE "No open alerts"
Title == IF list.loading \/ Visible # {} THEN "alerts"
         ELSE IF list.shown = {} THEN "No open alerts" ELSE "No alerts match this filter"

(* AlertsPanel.tsx 131-141: "the fleet is quiet" under no error banner     *)
(* means that every alert raised before the list was read is resolved,     *)
(* about to be, being asked for again, or behind Limit newer.              *)
QuietIsTrue ==
    (mounted /\ Title = "No open alerts" /\ ~list.error) =>
        \A i \in 1 .. asOf : \/ i \notin Open
                             \/ \E c \in Patch : patch[c].alert = i
                             \/ \E p \in Poll : poll[p] # IdlePoll
                             \/ Len(alerts) >= i + Limit

(* useAlerts.ts 18-20, 43-44: while the page stays open the board does not *)
(* stay wrong about an alert: an open one that is not behind Limit newer   *)
(* gets on it, also after a resolve that failed, a resolved one off it.    *)
WrongAbout(i) ==
    mounted /\ (i \in ListOpen \ list.shown \/ i \in list.shown \ Open)
BoardCatchesUp == \A i \in 1 .. MaxAlert : []<>~WrongAbout(i)
=============================================================================
