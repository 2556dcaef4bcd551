-------------------------- MODULE Dashboard_proofs --------------------------
(***************************************************************************)
(* Proofs about Dashboard: the alerts page (AlertBoard), for any number of *)
(* alerts, posts, polls and resolves in flight and any limit of the list,  *)
(* and the analytics pages (AdminPages), for any number of routes, hours,  *)
(* requests and rows.                                                      *)
(*                                                                         *)
(* A list on its way to the alerts page misses no row it could hold as of  *)
(* its reading.  On an analytics page one request stands at a time, so no  *)
(* answer but its own reaches it (EffectsInv); its figures are sums over   *)
(* rows that were there when they were read (ReadingsInv), and rows stay.  *)
(***************************************************************************)
EXTENDS Dashboard, SumTheorems, FiniteSetTheorems, TLAPS

USE BoardAssumption

(* A row belongs to the post that inserted it.                             *)
PostInv ==
    /\ alerts \in Seq(Alert) /\ Len(alerts) <= MaxAlert /\ post \in [Post -> PostRecord]
    /\ \A p \in Post :
          /\ post[p].server = "inserted" <=> post[p].row # 0
          /\ post[p].driver = "sent" => post[p].server = "inserted"
          /\ post[p].row <= Len(alerts)
    /\ RaisedIsRecorded

(* Once more than Limit rows are newer, the list need not show a row.      *)
Behind(i) == Len(alerts) >= i + Limit
Missing(i, shown) == i \in Open /\ i \notin shown /\ ~Behind(i)

(* A list that was read is complete as of what it was read at; a resolve   *)
(* that was served took effect; and what the page, as it is, misses was    *)
(* clicked on it or is being asked for.                                    *)
ScreenTyped ==
    /\ list \in List /\ asOf \in 0 .. Len(alerts)
    /\ poll \in [Poll -> PollRecord] /\ \A p \in Poll : poll[p].upTo <= Len(alerts)
    /\ patch \in [Patch -> PatchRecord] /\ \A c \in Patch : patch[c].alert <= Len(alerts)
ReadInv == \A p \in Poll : poll[p].pc = "read" =>
               \A i \in 1 .. poll[p].upTo : ~Missing(i, poll[p].rows)
ServedInv == \A c \in Patch : patch[c].pc = "served" => patch[c].alert \notin Open
Clicked(i) == \E c \in Patch : patch[c].alert = i /\ patch[c].page
Asking == \E p \in Poll : poll[p] # IdlePoll
ListInv == (mounted /\ ~list.loading /\ ~list.error) =>
               \A i \in 1 .. asOf : Missing(i, list.shown) => Clicked(i) \/ Asking

PageInv == ScreenTyped /\ ReadInv /\ ServedInv /\ ListInv
BoardInv == PostInv /\ PageInv

(* Open rows are rows.                                                     *)
LEMMA OpenRows ==
  ASSUME alerts \in Seq(Alert)
  PROVE  Open \subseteq 1 .. Len(alerts) /\ Len(alerts) \in Nat
BY DEF Open, Row

(* An open row that is not among the newest open ones has Limit after it.  *)
LEMMA NotListed ==
  ASSUME alerts \in Seq(Alert), NEW i \in Open, i \notin ListOpen
  PROVE  Behind(i)
<1> DEFINE newer == {j \in Open : j > i}
           after == (i + 1) .. Len(alerts)
<1>1. i \in 1 .. Len(alerts) /\ Len(alerts) \in Nat /\ i \in Nat
  BY OpenRows
<1>2. newer \subseteq after
  <2>1. ASSUME NEW j \in Open, j > i PROVE j \in after
    <3>1. j \in 1 .. Len(alerts)
      BY OpenRows
    <3> QED BY <1>1, <2>1, <3>1
  <2> QED BY <2>1
<1>3. IsFiniteSet(after) /\ Cardinality(after) = Len(alerts) - i
  BY <1>1, FS_Interval
<1>4. Cardinality(newer) <= Cardinality(after) /\ Cardinality(newer) \in Nat
  <2>1. IsFiniteSet(newer)
    BY <1>2, <1>3, FS_Subset
  <2> QED BY <1>2, <1>3, <2>1, FS_Subset, FS_CardinalityType
<1>5. ~(Cardinality(newer) < Limit)
  BY DEF ListOpen
<1> QED BY <1>1, <1>3, <1>4, <1>5 DEF Behind

(* Rows are only added, and only resolved.                                 *)
Grown == /\ alerts' \in Seq(Alert) /\ Len(alerts) <= Len(alerts')
         /\ Len(alerts') <= MaxAlert
         /\ \A i \in 1 .. Len(alerts) : /\ alerts'[i].kind = alerts[i].kind
                                        /\ i \in Open' => i \in Open

(* Resolving a row closes it and leaves the others.                        *)
LEMMA ResolvedGrows ==
  ASSUME alerts \in Seq(Alert), Len(alerts) <= MaxAlert, NEW r, alerts' = Resolved(r)
  PROVE  Grown /\ r \notin Open' /\ Len(alerts') = Len(alerts)
<1>1. /\ Len(alerts) \in Nat /\ alerts \in [1 .. Len(alerts) -> Alert]
  OBVIOUS
<1>2. /\ alerts' \in [1 .. Len(alerts) -> Alert]
      /\ \A i \in 1 .. Len(alerts) : /\ alerts'[i].kind = alerts[i].kind
                                     /\ alerts'[i].open => alerts[i].open /\ i # r
  BY <1>1 DEF Resolved, Alert
<1>3. alerts' \in Seq(Alert) /\ Len(alerts') = Len(alerts)
  BY <1>1, <1>2
<1> QED BY <1>1, <1>2, <1>3 DEF Grown, Open, Row

(* An insert adds one row of its kind at the end.                          *)
LEMMA InsertGrows ==
  ASSUME alerts \in Seq(Alert), NEW k \in Kind, Insert(k)
  PROVE  /\ Grown /\ Len(alerts') = Len(alerts) + 1 /\ Len(alerts') \in 0 .. MaxAlert
         /\ alerts'[Len(alerts')].kind = k
<1>1. [kind |-> k, open |-> TRUE] \in Alert
  BY DEF Alert
<1>2. /\ Len(alerts) \in Nat /\ alerts' = Append(alerts, [kind |-> k, open |-> TRUE])
      /\ Len(alerts) < MaxAlert
  BY DEF Insert
<1>3. /\ alerts' \in Seq(Alert) /\ Len(alerts') = Len(alerts) + 1
      /\ \A i \in 1 .. Len(alerts) : alerts'[i] = alerts[i]
      /\ alerts'[Len(alerts) + 1] = [kind |-> k, open |-> TRUE]
  BY <1>1, <1>2
<1> QED BY <1>2, <1>3 DEF Grown, Open, Row

(* What nobody touches on the screen stays right while rows change.        *)
LEMMA ScreenStays ==
  ASSUME alerts \in Seq(Alert), PageInv, Grown, UNCHANGED screenVars
  PROVE  PageInv'
<1>1. /\ mounted' = mounted /\ list' = list /\ poll' = poll /\ patch' = patch /\ asOf' = asOf
      /\ Len(alerts) \in Nat /\ Len(alerts') \in Nat /\ Len(alerts) <= Len(alerts')
  BY DEF screenVars, Grown
<1>2. \A i \in 1 .. Len(alerts) : (i \in Open' => i \in Open) /\ (Behind(i) => Behind(i)')
  BY <1>1 DEF Grown, Behind
<1>3. ScreenTyped'
  <2>1. \A p \in Poll : poll[p].upTo \in Nat
    BY DEF PageInv, ScreenTyped, PollRecord
  <2>2. \A c \in Patch : patch[c].alert \in Nat
    BY DEF PageInv, ScreenTyped, PatchRecord
  <2> QED BY <1>1, <2>1, <2>2 DEF PageInv, ScreenTyped
<1>4. ReadInv'
  <2> SUFFICES ASSUME NEW p \in Poll, poll[p].pc = "read", NEW i \in 1 .. poll[p].upTo,
                      i \in Open', i \notin poll[p].rows
               PROVE  Behind(i)'
    BY <1>1 DEF ReadInv, Missing
  <2>1. i \in 1 .. Len(alerts)
    BY <1>1 DEF PageInv, ScreenTyped, PollRecord
  <2> QED BY <1>2, <2>1 DEF PageInv, ReadInv, Missing
<1>5. ServedInv'
  <2> SUFFICES ASSUME NEW c \in Patch, patch[c].pc = "served", patch[c].alert \in Open'
               PROVE  FALSE
    BY <1>1 DEF ServedInv
  <2>1. patch[c].alert \in 1 .. Len(alerts)
    <3>1. patch[c].alert \in 1 .. Len(alerts')
      BY DEF Open, Row, Grown
    <3> QED BY <1>1, <3>1 DEF PageInv, ScreenTyped
  <2> QED BY <1>2, <2>1 DEF PageInv, ServedInv
<1>6. ListInv'
  <2> SUFFICES ASSUME mounted, ~list.loading, ~list.error, NEW i \in 1 .. asOf,
                      i \in Open', i \notin list.shown, ~Behind(i)'
               PROVE  Clicked(i) \/ Asking
    BY <1>1 DEF ListInv, Missing, Clicked, Asking
  <2>1. i \in 1 .. Len(alerts)
    BY <1>1 DEF PageInv, ScreenTyped
  <2> QED BY <1>2, <2>1 DEF PageInv, ListInv, Missing
<1> QED BY <1>3, <1>4, <1>5, <1>6 DEF PageInv

(***************************************************************************)
(* The driver's side.                                                      *)
(***************************************************************************)

(* A post whose record agrees with the rows may be put into the list.      *)
PostAgrees(p) ==
    LET r == post[p] IN
    /\ r.server = "inserted" <=> r.row # 0
    /\ r.driver = "sent" => r.server = "inserted"
    /\ r.server = "failed" => r.inserting
    /\ r.row # 0 => /\ r.row <= Len(alerts) /\ alerts[r.row].kind = r.kind
                    /\ \A q \in Post \ {p} : post[q].row # r.row

(* The invariant of the posts, post by post.                               *)
LEMMA Agreement ==
  ASSUME alerts \in Seq(Alert), Len(alerts) <= MaxAlert, post \in [Post -> PostRecord]
  PROVE  PostInv <=> \A p \in Post : PostAgrees(p)
<1>1. Len(alerts) \in Nat /\ \A p \in Post : post[p].row \in Nat
  BY DEF PostRecord
<1> QED BY <1>1 DEF PostInv, PostAgrees, RaisedIsRecorded, Row

(* Posts that do not change still agree with rows that grew.               *)
LEMMA PostsStay ==
  ASSUME PostInv, Grown, post' = post
  PROVE  PostInv'
<1>1. /\ Len(alerts) \in Nat /\ Len(alerts') \in Nat /\ Len(alerts) <= Len(alerts')
      /\ \A p \in Post : post[p].row \in Nat
  BY DEF PostInv, PostRecord, Grown
<1>2. \A p \in Post : post[p].row # 0 => /\ post[p].row \in 1 .. Len(alerts)
                                         /\ alerts[post[p].row].kind = post[p].kind
  BY <1>1 DEF PostInv, RaisedIsRecorded, Row
<1>3. \A p \in Post : post[p].row # 0 => alerts'[post[p].row].kind = post[p].kind
  BY <1>2 DEF Grown
<1> QED BY <1>1, <1>2, <1>3 DEF PostInv, RaisedIsRecorded, Row, Grown

(* So do the others when one post changes and itself agrees.               *)
LEMMA PostStep ==
  ASSUME PostInv, Grown, NEW p \in Post, post' \in [Post -> PostRecord],
         \A q \in Post \ {p} : post'[q] = post[q], PostAgrees(p)'
  PROVE  PostInv'
<1>1. /\ Len(alerts) \in Nat /\ Len(alerts') \in Nat /\ Len(alerts) <= Len(alerts')
      /\ \A q \in Post : post[q].row \in Nat /\ post'[q].row \in Nat
  BY DEF PostInv, PostRecord, Grown
<1>2. ASSUME NEW q \in Post, q # p PROVE PostAgrees(q)'
  <2>1. post'[q] = post[q] /\ PostAgrees(q)
    BY <1>2, Agreement DEF PostInv
  <2>2. post[q].row # 0 => post[q].row \in 1 .. Len(alerts)
    BY <1>1, <2>1 DEF PostAgrees
  <2>3. post[q].row # 0 => alerts'[post[q].row].kind = post[q].kind
    BY <2>1, <2>2 DEF PostAgrees, Grown
  <2>4. post[q].row # 0 => \A o \in Post \ {q} : post'[o].row # post[q].row
    <3>1. post[q].row # 0 => post'[p].row # post[q].row
      BY <1>1, <1>2, <2>1 DEF PostAgrees
    <3> QED BY <1>2, <2>1, <3>1 DEF PostAgrees
  <2> QED BY <1>1, <2>1, <2>2, <2>3, <2>4 DEF PostAgrees
<1>3. \A q \in Post : PostAgrees(q)'
  BY <1>2
<1>4. alerts' \in Seq(Alert) /\ Len(alerts') <= MaxAlert
  BY DEF Grown
<1> QED BY <1>1, <1>3, <1>4 DEF PostInv, PostAgrees, RaisedIsRecorded, Row

(* Rows that do not change have grown, by nothing.                         *)
LEMMA Standing == ASSUME alerts \in Seq(Alert), Len(alerts) <= MaxAlert, alerts' = alerts PROVE Grown
BY DEF Grown, Open, Row

(* What drivers and the service do to rows keeps both invariants.          *)
LEMMA DriverInv == ASSUME BoardInv, DriverSide PROVE BoardInv'
<1>1. /\ alerts \in Seq(Alert) /\ Len(alerts) <= MaxAlert /\ post \in [Post -> PostRecord]
      /\ PostInv /\ PageInv
  BY DEF BoardInv, PostInv
<1>2. ASSUME NEW p \in Post, Raise(p) \/ ResolveBusPk(p) \/ CreateFails(p) \/ Told(p) \/ GivenUp(p)
      PROVE  BoardInv'
  <2>1. alerts' = alerts /\ UNCHANGED screenVars
    BY <1>2 DEF Raise, ResolveBusPk, CreateFails, Told, GivenUp
  <2>2. Grown
    BY <1>1, <2>1, Standing
  <2>3. PostAgrees(p)
    BY <1>1, Agreement
  <2>4. post' \in [Post -> PostRecord] /\ \A q \in Post \ {p} : post'[q] = post[q]
    <3>1. \E r \in PostRecord : post' = [post EXCEPT ![p] = r]
      <4>1. post[p] \in PostRecord
        BY <1>1
      <4>2. CASE Raise(p)
        <5>1. post' = [post EXCEPT ![p] = [post[p] EXCEPT !.driver = "sending"]]
          BY <1>1, <4>2 DEF Raise
        <5>2. [post[p] EXCEPT !.driver = "sending"] \in PostRecord
          BY <4>1 DEF PostRecord
        <5> QED BY <5>1, <5>2
      <4>3. CASE ResolveBusPk(p)
        <5>1. post' = [post EXCEPT ![p] = [post[p] EXCEPT !.server = "insert"]]
          BY <1>1, <4>3 DEF ResolveBusPk
        <5>2. [post[p] EXCEPT !.server = "insert"] \in PostRecord
          BY <4>1 DEF PostRecord
        <5> QED BY <5>1, <5>2
      <4>4. CASE CreateFails(p)
        <5>1. post' = [post EXCEPT ![p] = [post[p] EXCEPT !.server = "failed", !.inserting = TRUE]]
          BY <1>1, <4>4 DEF CreateFails
        <5>2. [post[p] EXCEPT !.server = "failed", !.inserting = TRUE] \in PostRecord
          BY <4>1 DEF PostRecord
        <5> QED BY <5>1, <5>2
      <4>5. CASE Told(p) \/ GivenUp(p)
        <5>1. \/ post' = [post EXCEPT ![p] = [post[p] EXCEPT !.driver = "sent"]]
              \/ post' = [post EXCEPT ![p] = [post[p] EXCEPT !.driver = "notSent"]]
          BY <1>1, <4>5 DEF Told, GivenUp
        <5>2. /\ [post[p] EXCEPT !.driver = "sent"] \in PostRecord
              /\ [post[p] EXCEPT !.driver = "notSent"] \in PostRecord
          BY <4>1 DEF PostRecord
        <5> QED BY <5>1, <5>2
      <4> QED BY <1>2, <4>2, <4>3, <4>4, <4>5
    <3> QED BY <1>1, <3>1
  <2>5. /\ post'[p].row = post[p].row /\ post'[p].kind = post[p].kind
        /\ post'[p].server = post[p].server \/ (post[p].server # "inserted" /\ post'[p].server # "inserted")
        /\ post'[p].driver = "sent" => post[p].driver = "sent" \/ post[p].server = "inserted"
        /\ post'[p].driver = "sent" => post'[p].server = post[p].server \/ post[p].driver = "sent"
        /\ post'[p].server = "failed" => post'[p].inserting \/ (post[p].server = "failed" /\ post'[p].inserting = post[p].inserting)
    BY <1>1, <1>2 DEF PostRecord, Raise, ResolveBusPk, CreateFails, Told, GivenUp
  <2>6. PostAgrees(p)'
    BY <2>1, <2>3, <2>4, <2>5 DEF PostAgrees
  <2> QED BY <1>1, <2>1, <2>2, <2>4, <2>6, PostStep, ScreenStays DEF BoardInv
<1>3. ASSUME NEW p \in Post, Create(p) PROVE BoardInv'
  <2>1. post[p].kind \in Kind /\ Insert(post[p].kind) /\ UNCHANGED screenVars
    BY <1>1, <1>3 DEF Create, PostRecord
  <2>2. /\ Grown /\ Len(alerts') = Len(alerts) + 1 /\ Len(alerts') \in 0 .. MaxAlert
        /\ alerts'[Len(alerts')].kind = post[p].kind /\ Len(alerts) \in Nat
    BY <1>1, <2>1, InsertGrows
  <2> DEFINE w == [post[p] EXCEPT !.server = "inserted", !.inserting = TRUE,
                                  !.row = Len(alerts) + 1]
  <2>6. w \in PostRecord /\ w.row = Len(alerts') /\ w.server = "inserted" /\ w.kind = post[p].kind
        /\ w.inserting
    BY <1>1, <2>2 DEF PostRecord
  <2>7. post' = [post EXCEPT ![p] = w]
    BY <1>1, <1>3 DEF Create
  <2> HIDE DEF w
  <2>3. /\ post' \in [Post -> PostRecord] /\ \A q \in Post \ {p} : post'[q] = post[q]
        /\ post'[p].row = Len(alerts') /\ post'[p].server = "inserted"
        /\ post'[p].kind = post[p].kind
    BY <1>1, <2>6, <2>7
  <2>4. \A q \in Post : post[q].row \in Nat /\ post[q].row <= Len(alerts)
    BY <1>1 DEF PostInv, PostRecord
  <2>5. PostAgrees(p)'
    BY <2>2, <2>3, <2>4 DEF PostAgrees
  <2> QED BY <1>1, <2>1, <2>2, <2>3, <2>5, PostStep, ScreenStays DEF BoardInv
<1>4. CASE SystemAlert
  <2>1. Grown /\ post' = post /\ UNCHANGED screenVars
    BY <1>1, <1>4, InsertGrows DEF SystemAlert
  <2> QED BY <1>1, <2>1, PostsStay, ScreenStays DEF BoardInv
<1> QED BY <1>2, <1>3, <1>4 DEF DriverSide

(***************************************************************************)
(* The page.                                                               *)
(***************************************************************************)

(* A poll changes to one that is not read, or whose list is complete.      *)
LEMMA PollsStay ==
  ASSUME PageInv, alerts' = alerts, NEW p \in Poll, NEW r \in PollRecord,
         poll' = [poll EXCEPT ![p] = r], r.upTo <= Len(alerts),
         r.pc = "read" => \A i \in 1 .. r.upTo : ~Missing(i, r.rows)
  PROVE  /\ poll' \in [Poll -> PollRecord] /\ \A q \in Poll : poll'[q].upTo <= Len(alerts')
         /\ ReadInv'
<1>1. poll' \in [Poll -> PollRecord] /\ \A q \in Poll : poll'[q].upTo <= Len(alerts')
  BY DEF PageInv, ScreenTyped
<1>2. \A q \in Poll : poll'[q] = IF q = p THEN r ELSE poll[q]
  BY DEF PageInv, ScreenTyped
<1>3. ReadInv'
  <2> SUFFICES ASSUME NEW q \in Poll, poll'[q].pc = "read", NEW i \in 1 .. poll'[q].upTo,
                      i \in Open, i \notin poll'[q].rows, ~Behind(i)
               PROVE  FALSE
    BY DEF ReadInv, Missing, Open, Row, Behind
  <2>1. CASE q = p
    BY <1>2, <2>1 DEF Missing
  <2>2. CASE q # p
    BY <1>2, <2>2 DEF PageInv, ReadInv, Missing
  <2> QED BY <2>1, <2>2
<1> QED BY <1>1, <1>3

(* A resolve in flight changes to one that is not served.                  *)
LEMMA PatchesStay ==
  ASSUME PageInv, alerts' = alerts, NEW c \in Patch, NEW r \in PatchRecord,
         patch' = [patch EXCEPT ![c] = r], r.alert <= Len(alerts), r.pc # "served"
  PROVE  /\ patch' \in [Patch -> PatchRecord] /\ \A d \in Patch : patch'[d].alert <= Len(alerts')
         /\ ServedInv'
<1>1. \A d \in Patch : patch'[d] = IF d = c THEN r ELSE patch[d]
  BY DEF PageInv, ScreenTyped
<1>2. patch' \in [Patch -> PatchRecord] /\ \A d \in Patch : patch'[d].alert <= Len(alerts')
  BY DEF PageInv, ScreenTyped
<1>3. Open' = Open
  BY DEF Open, Row
<1>4. ServedInv'
  BY <1>1, <1>3 DEF PageInv, ServedInv
<1> QED BY <1>2, <1>4

(* A fetch that starts asks for whatever the page misses.                  *)
LEMMA FetchAsks ==
  ASSUME PageInv, alerts' = alerts, list' = list, asOf' = asOf, NEW p \in Poll, Fetch(p)
  PROVE  /\ poll' \in [Poll -> PollRecord] /\ \A q \in Poll : poll'[q].upTo <= Len(alerts')
         /\ ReadInv' /\ ListInv'
<1> DEFINE r == [IdlePoll EXCEPT !.pc = "sent"]
<1>1. /\ r \in PollRecord /\ r.upTo = 0 /\ r.pc = "sent" /\ r # IdlePoll
      /\ poll' = [poll EXCEPT ![p] = r]
  BY DEF Fetch, IdlePoll, PollRecord
<1>2. 0 <= Len(alerts)
  BY DEF PageInv, ScreenTyped
<1>3. /\ poll' \in [Poll -> PollRecord] /\ \A q \in Poll : poll'[q].upTo <= Len(alerts')
      /\ ReadInv'
  BY <1>1, <1>2, PollsStay
<1>4. Asking'
  <2>1. poll'[p] = r
    BY <1>1 DEF PageInv, ScreenTyped
  <2> QED BY <1>1, <2>1 DEF Asking
<1> QED BY <1>3, <1>4 DEF ListInv

(* What happens to the lists the page reads.                               *)
LEMMA PollInv ==
  ASSUME BoardInv, NEW p \in Poll,
         PollTick(p) \/ Mount(p) \/ Serve(p) \/ PollAnswered(p) \/ PollFailed(p)
  PROVE  PageInv'
<1>1. /\ PageInv /\ alerts' = alerts /\ patch' = patch
      /\ alerts \in Seq(Alert) /\ Len(alerts) \in Nat /\ Len(alerts) <= MaxAlert
  BY DEF BoardInv, PostInv, PollTick, Mount, Serve, PollAnswered, PollFailed
<1>2. ServedInv' /\ patch' \in [Patch -> PatchRecord] /\ \A c \in Patch : patch'[c].alert <= Len(alerts')
  BY <1>1 DEF PageInv, ScreenTyped, ServedInv, Open, Row
<1>3. IdlePoll \in PollRecord /\ IdlePoll.upTo <= Len(alerts) /\ IdlePoll.pc # "read"
  BY <1>1 DEF IdlePoll, PollRecord
<1>4. CASE PollTick(p) \/ Mount(p)
  <2>1. Fetch(p) /\ list' = list /\ asOf' = asOf
    BY <1>4 DEF PollTick, Mount
  <2> QED BY <1>1, <1>2, <2>1, FetchAsks DEF PageInv, ScreenTyped
<1>5. CASE Serve(p)
  <2> DEFINE r == [poll[p] EXCEPT !.pc = "read", !.rows = ListOpen, !.upTo = Len(alerts)]
  <2>1. poll[p] \in PollRecord /\ list' = list /\ asOf' = asOf
    BY <1>1, <1>5 DEF PageInv, ScreenTyped, Serve
  <2>2. ListOpen \subseteq 1 .. MaxAlert
    BY <1>1, OpenRows DEF ListOpen
  <2>3. poll' = [poll EXCEPT ![p] = r]
    BY <1>1, <1>5 DEF Serve, PageInv, ScreenTyped
  <2>4. r.pc = "read" /\ r.upTo = Len(alerts) /\ r.rows = ListOpen
    BY <2>1 DEF PollRecord
  <2>5. r \in PollRecord /\ r.upTo <= Len(alerts)
    <3>1. Len(alerts) \in 0 .. MaxAlert /\ ListOpen \in SUBSET (1 .. MaxAlert)
      BY <1>1, <2>2
    <3>2. r \in PollRecord
      BY <2>1, <3>1 DEF PollRecord
    <3> QED BY <1>1, <2>4, <3>2
  <2>6. \A i \in 1 .. r.upTo : ~Missing(i, r.rows)
    BY <1>1, <2>4, NotListed DEF Missing
  <2>7. /\ poll' \in [Poll -> PollRecord] /\ \A q \in Poll : poll'[q].upTo <= Len(alerts')
        /\ ReadInv'
    BY <1>1, <2>3, <2>5, <2>6, PollsStay
  <2>8. Asking'
    <3>1. poll'[p] = r /\ r.pc # IdlePoll.pc
      BY <1>1, <2>3 DEF PageInv, ScreenTyped, IdlePoll
    <3> QED BY <3>1 DEF Asking
  <2> QED BY <1>1, <1>2, <2>1, <2>7, <2>8 DEF PageInv, ScreenTyped, ListInv
<1>6. CASE PollAnswered(p)
  <2>1. /\ poll' = [poll EXCEPT ![p] = IdlePoll] /\ asOf' = poll[p].upTo /\ poll[p].pc = "read"
        /\ list' = [list EXCEPT !.shown = poll[p].rows, !.error = FALSE, !.loading = FALSE]
        /\ poll[p] \in PollRecord /\ poll[p].upTo <= Len(alerts) /\ list \in List
    BY <1>1, <1>6 DEF PollAnswered, PageInv, ScreenTyped
  <2>2. /\ poll' \in [Poll -> PollRecord] /\ \A q \in Poll : poll'[q].upTo <= Len(alerts')
        /\ ReadInv'
    BY <1>1, <1>3, <2>1, PollsStay
  <2>3. list' \in List /\ list'.shown = poll[p].rows
    BY <2>1 DEF List, PollRecord
  <2>4. asOf' \in 0 .. Len(alerts')
    BY <1>1, <2>1 DEF PollRecord
  <2>5. \A i \in 1 .. asOf' : ~(i \in Open' /\ i \notin list'.shown /\ ~Behind(i)')
    BY <1>1, <2>1, <2>3 DEF PageInv, ReadInv, Missing, Open, Row, Behind
  <2>6. ListInv'
    BY <2>5 DEF ListInv, Missing
  <2> QED BY <1>2, <2>2, <2>3, <2>4, <2>6 DEF PageInv, ScreenTyped
<1>7. CASE PollFailed(p)
  <2>1. /\ poll' = [poll EXCEPT ![p] = IdlePoll] /\ asOf' = asOf /\ list \in List
        /\ list' = [list EXCEPT !.error = TRUE, !.loading = FALSE]
    BY <1>1, <1>7 DEF PollFailed, PageInv, ScreenTyped
  <2>2. /\ poll' \in [Poll -> PollRecord] /\ \A q \in Poll : poll'[q].upTo <= Len(alerts')
        /\ ReadInv'
    BY <1>1, <1>3, <2>1, PollsStay
  <2>3. list' \in List /\ list'.error
    BY <2>1 DEF List
  <2> QED BY <1>1, <1>2, <2>1, <2>2, <2>3 DEF PageInv, ScreenTyped, ListInv
<1> QED BY <1>4, <1>5, <1>6, <1>7

(* A resolve in flight that ends takes with it only what it resolved.      *)
LEMMA PatchEnds ==
  ASSUME PageInv, alerts' = alerts, mounted' = mounted, list' = list, poll' = poll, asOf' = asOf,
         NEW c \in Patch, patch' = [patch EXCEPT ![c] = IdlePatch],
         patch[c].alert \notin Open \/ ~patch[c].page
  PROVE  PageInv'
<1>1. IdlePatch \in PatchRecord /\ IdlePatch.alert <= Len(alerts) /\ IdlePatch.pc # "served"
  BY DEF IdlePatch, PatchRecord, PageInv, ScreenTyped
<1>2. /\ patch' \in [Patch -> PatchRecord] /\ \A d \in Patch : patch'[d].alert <= Len(alerts')
      /\ ServedInv'
  BY <1>1, PatchesStay
<1>3. ReadInv'
  BY DEF PageInv, ReadInv, Missing, Open, Row, Behind
<1>4. ASSUME NEW i, i \in Open, Clicked(i) PROVE Clicked(i)'
  <2>1. PICK d \in Patch : patch[d].alert = i /\ patch[d].page
    BY <1>4 DEF Clicked
  <2>2. d # c
    BY <1>4, <2>1
  <2>3. patch'[d] = patch[d]
    BY <2>2 DEF PageInv, ScreenTyped
  <2> QED BY <2>1, <2>3 DEF Clicked
<1>5. ListInv'
  <2> SUFFICES ASSUME mounted, ~list.loading, ~list.error, NEW i \in 1 .. asOf,
                      i \in Open, i \notin list.shown, ~Behind(i)
               PROVE  Clicked(i)' \/ Asking'
    BY DEF ListInv, Missing, Open, Row, Behind
  <2>1. Clicked(i) \/ Asking
    BY DEF PageInv, ListInv, Missing
  <2> QED BY <1>4, <2>1 DEF Asking
<1> QED BY <1>2, <1>3, <1>5 DEF PageInv, ScreenTyped

(* What the dispatcher does on the page.                                   *)
LEMMA PanelInv ==
  ASSUME BoardInv,
         \/ Unmount
         \/ \E k \in Kind \cup {AllKinds} : SetFilter(k)
         \/ \E c \in Patch, i \in Row : Click(c, i)
  PROVE  PageInv'
<1>1. /\ PageInv /\ alerts' = alerts /\ Open' = Open /\ list \in List
      /\ alerts \in Seq(Alert) /\ Len(alerts) \in Nat /\ Len(alerts) <= MaxAlert
  BY DEF BoardInv, PostInv, PageInv, ScreenTyped, Unmount, SetFilter, Click, Open, Row
<1>2. CASE Unmount
  <2>1. /\ list' = FreshList /\ asOf' = 0 /\ ~mounted' /\ FreshList \in List
    BY <1>2 DEF Unmount, FreshList, List
  <2>2. /\ IdlePoll \in PollRecord /\ IdlePoll.pc # "read" /\ IdlePoll.upTo = 0
        /\ poll' = [p \in Poll |-> IdlePoll]
    BY <1>2 DEF Unmount, IdlePoll, PollRecord
  <2>3. \A c \in Patch : /\ patch'[c] \in PatchRecord /\ patch'[c].pc = patch[c].pc
                         /\ patch'[c].alert = patch[c].alert
    BY <1>1, <1>2 DEF Unmount, PageInv, ScreenTyped, PatchRecord
  <2>4. patch' \in [Patch -> PatchRecord]
    BY <1>2, <2>3 DEF Unmount
  <2> QED BY <1>1, <2>1, <2>2, <2>3, <2>4 DEF PageInv, ScreenTyped, ReadInv, ServedInv, ListInv
<1>3. ASSUME NEW k \in Kind \cup {AllKinds}, SetFilter(k) PROVE PageInv'
  <2>1. /\ list' = [list EXCEPT !.filter = k]
        /\ mounted' = mounted /\ poll' = poll /\ patch' = patch /\ asOf' = asOf
    BY <1>3 DEF SetFilter
  <2>2. /\ list' \in List /\ list'.shown = list.shown /\ list'.loading = list.loading
        /\ list'.error = list.error
    BY <1>1, <2>1 DEF List
  <2> QED BY <1>1, <2>1, <2>2 DEF PageInv, ScreenTyped, ReadInv, ServedInv, ListInv, Missing,
                                  Behind, Clicked, Asking
<1>4. ASSUME NEW c \in Patch, NEW i \in Row, Click(c, i) PROVE PageInv'
  <2> DEFINE r == [pc |-> "sent", alert |-> i, page |-> TRUE]
  <2>1. /\ mounted /\ ~list.loading /\ patch[c] = IdlePatch /\ patch' = [patch EXCEPT ![c] = r]
        /\ list' = [list EXCEPT !.shown = list.shown \ {i}]
        /\ mounted' = mounted /\ poll' = poll /\ asOf' = asOf
    BY <1>1, <1>4 DEF Click, List
  <2>2. i \in 1 .. Len(alerts) /\ r \in PatchRecord /\ r.alert <= Len(alerts)
    BY <1>1 DEF Row, PatchRecord
  <2>3. /\ patch' \in [Patch -> PatchRecord] /\ \A d \in Patch : patch'[d].alert <= Len(alerts')
        /\ ServedInv'
    BY <1>1, <2>1, <2>2, PatchesStay
  <2>4. /\ list' \in List /\ list'.shown = list.shown \ {i} /\ list'.loading = list.loading
        /\ list'.error = list.error
    BY <1>1, <2>1 DEF List
  <2>5. \A d \in Patch : patch'[d] = IF d = c THEN r ELSE patch[d]
    BY <1>1, <2>1 DEF PageInv, ScreenTyped
  <2>6. Clicked(i)'
    BY <2>5 DEF Clicked
  <2>7. ASSUME NEW j, Clicked(j) PROVE Clicked(j)'
    <3>1. PICK d \in Patch : patch[d].alert = j /\ patch[d].page
      BY <2>7 DEF Clicked
    <3>2. d # c
      BY <2>1, <3>1 DEF IdlePatch
    <3> QED BY <2>5, <3>1, <3>2 DEF Clicked
  <2>8. ListInv'
    <3> SUFFICES ASSUME ~list.error, NEW j \in 1 .. asOf,
                        j \in Open, j \notin list.shown \ {i}, ~Behind(j)
                 PROVE  Clicked(j)' \/ Asking
      BY <1>1, <2>1, <2>4 DEF ListInv, Missing, Behind, Asking
    <3>1. CASE j = i
      BY <2>6, <3>1
    <3>2. CASE j # i
      BY <1>1, <2>1, <2>7, <3>2 DEF PageInv, ListInv, Missing
    <3> QED BY <3>1, <3>2
  <2> QED BY <1>1, <2>1, <2>3, <2>4, <2>8 DEF PageInv, ScreenTyped, ReadInv, Missing, Behind
<1> QED BY <1>2, <1>3, <1>4

(* A resolve is served, answered, or lost.                                 *)
LEMMA PatchInv ==
  ASSUME BoardInv, NEW c \in Patch, Resolve(c) \/ PatchAnswered(c) \/ PatchFailed(c)
  PROVE  PageInv'
<1>1. /\ PageInv /\ alerts \in Seq(Alert) /\ Len(alerts) \in Nat /\ Len(alerts) <= MaxAlert
      /\ mounted' = mounted /\ list' = list /\ asOf' = asOf
      /\ patch[c] \in PatchRecord /\ patch[c].alert \in Nat
      /\ \A d \in Patch : patch[d].alert \in Nat /\ patch[d].alert <= Len(alerts)
  BY DEF BoardInv, PostInv, PageInv, ScreenTyped, PatchRecord, Resolve, PatchAnswered, PatchFailed
<1>2. CASE Resolve(c)
  <2>1. /\ Grown /\ patch[c].alert \notin Open' /\ Len(alerts') = Len(alerts)
    BY <1>1, <1>2, ResolvedGrows DEF Resolve
  <2>2. poll' = poll /\ patch' = [patch EXCEPT ![c] = [patch[c] EXCEPT !.pc = "served"]]
    BY <1>1, <1>2 DEF Resolve, PageInv, ScreenTyped
  <2>3. /\ [patch[c] EXCEPT !.pc = "served"] \in PatchRecord
        /\ [patch[c] EXCEPT !.pc = "served"].alert = patch[c].alert
        /\ [patch[c] EXCEPT !.pc = "served"].page = patch[c].page
    BY <1>1 DEF PatchRecord
  <2>4. /\ patch' \in [Patch -> PatchRecord]
        /\ \A d \in Patch : /\ patch'[d].alert = patch[d].alert /\ patch'[d].page = patch[d].page
                            /\ d # c => patch'[d] = patch[d]
    BY <1>1, <2>2, <2>3 DEF PageInv, ScreenTyped
  <2>5. \A i \in 1 .. Len(alerts) : (i \in Open' => i \in Open) /\ (Behind(i)' <=> Behind(i))
    BY <2>1 DEF Grown, Behind
  <2>6. Open' \subseteq 1 .. Len(alerts)
    BY <2>1 DEF Open, Row, Grown
  <2>7. ServedInv'
    BY <1>1, <2>1, <2>2, <2>4, <2>5, <2>6 DEF PageInv, ServedInv
  <2>8. ReadInv'
    BY <1>1, <2>2, <2>5, <2>6 DEF PageInv, ReadInv, Missing
  <2>9. ListInv'
    BY <1>1, <2>2, <2>4, <2>5, <2>6 DEF PageInv, ListInv, Missing, Clicked, Asking
  <2> QED BY <1>1, <2>1, <2>2, <2>4, <2>7, <2>8, <2>9 DEF PageInv, ScreenTyped
<1>3. CASE PatchAnswered(c)
  <2>1. patch[c].alert \notin Open
    BY <1>1, <1>3 DEF PatchAnswered, PageInv, ServedInv
  <2> QED BY <1>1, <1>3, <2>1, PatchEnds DEF PatchAnswered
<1>4. CASE PatchFailed(c) /\ ~patch[c].page
  BY <1>1, <1>4, PatchEnds DEF PatchFailed
<1>5. CASE PatchFailed(c) /\ patch[c].page
  <2>1. PICK p \in Poll : Fetch(p)
    BY <1>5 DEF PatchFailed
  <2>2. alerts' = alerts /\ patch' = [patch EXCEPT ![c] = IdlePatch]
    BY <1>5 DEF PatchFailed
  <2>3. IdlePatch \in PatchRecord /\ IdlePatch.alert <= Len(alerts) /\ IdlePatch.pc # "served"
    BY <1>1 DEF IdlePatch, PatchRecord
  <2>4. /\ patch' \in [Patch -> PatchRecord] /\ \A d \in Patch : patch'[d].alert <= Len(alerts')
        /\ ServedInv'
    BY <1>1, <2>2, <2>3, PatchesStay
  <2>5. /\ poll' \in [Poll -> PollRecord] /\ \A q \in Poll : poll'[q].upTo <= Len(alerts')
        /\ ReadInv' /\ ListInv'
    BY <1>1, <2>1, <2>2, FetchAsks
  <2> QED BY <1>1, <2>2, <2>4, <2>5 DEF PageInv, ScreenTyped
<1> QED BY <1>2, <1>3, <1>4, <1>5

(***************************************************************************)
(* The invariant, and what it says of the board.                           *)
(***************************************************************************)

(* Nothing is raised and nothing is in flight at the start.                *)
LEMMA BoardInitInv == ASSUME BoardInit PROVE BoardInv
<1>1. /\ alerts = <<>> /\ alerts \in Seq(Alert) /\ Len(alerts) = 0 /\ ~mounted
      /\ list = FreshList /\ asOf = 0
      /\ poll = [p \in Poll |-> IdlePoll] /\ patch = [c \in Patch |-> IdlePatch]
  BY DEF BoardInit
<1>2. \A p \in Post : /\ post[p] \in PostRecord /\ post[p].row = 0
                       /\ post[p].server = "none" /\ post[p].driver = "idle"
  <2> DEFINE Idle(k) == [kind |-> k, row |-> 0, inserting |-> FALSE, server |-> "none",
                         driver |-> "idle"]
  <2>1. \A k \in Kind : Idle(k) \in PostRecord
    BY DEF PostRecord
  <2>2. post \in [Post -> {Idle(k) : k \in Kind \ {SystemKind}}]
    BY DEF BoardInit
  <2> SUFFICES ASSUME NEW p \in Post
               PROVE  /\ post[p] \in PostRecord /\ post[p].row = 0
                      /\ post[p].server = "none" /\ post[p].driver = "idle"
    OBVIOUS
  <2>3. PICK k \in Kind : post[p] = Idle(k)
    BY <2>2
  <2>4. Idle(k).row = 0 /\ Idle(k).server = "none" /\ Idle(k).driver = "idle"
    OBVIOUS
  <2> QED BY <2>1, <2>3, <2>4
<1>3. post \in [Post -> PostRecord]
  BY <1>2 DEF BoardInit
<1>4. PostInv
  BY <1>1, <1>2, <1>3 DEF PostInv, RaisedIsRecorded
<1>5. FreshList \in List /\ IdlePoll \in PollRecord /\ IdlePatch \in PatchRecord
  BY DEF FreshList, List, IdlePoll, PollRecord, IdlePatch, PatchRecord
<1>6. PageInv
  BY <1>1, <1>5 DEF PageInv, ScreenTyped, ReadInv, ServedInv, ListInv, IdlePoll, IdlePatch
<1> QED BY <1>4, <1>6 DEF BoardInv

(* Every step keeps the invariant.                                         *)
LEMMA BoardNextInv == ASSUME BoardInv, [BoardNext]_boardVars PROVE BoardInv'
<1>1. alerts \in Seq(Alert) /\ Len(alerts) <= MaxAlert /\ PostInv /\ PageInv
  BY DEF BoardInv, PostInv
<1>2. CASE DriverSide
  BY <1>2, DriverInv
<1>3. ASSUME alerts' = alerts \/ \E r : alerts' = Resolved(r), post' = post
      PROVE  PostInv'
  <2>1. Grown
    BY <1>1, <1>3, Standing, ResolvedGrows
  <2> QED BY <1>1, <1>3, <2>1, PostsStay
<1>4. ASSUME NEW p \in Poll,
             PollTick(p) \/ Mount(p) \/ Serve(p) \/ PollAnswered(p) \/ PollFailed(p)
      PROVE  BoardInv'
  <2>1. alerts' = alerts /\ post' = post
    BY <1>4 DEF PollTick, Mount, Serve, PollAnswered, PollFailed
  <2> QED BY <1>3, <1>4, <2>1, PollInv DEF BoardInv
<1>5. CASE \/ Unmount \/ \E k \in Kind \cup {AllKinds} : SetFilter(k)
           \/ \E c \in Patch, i \in Row : Click(c, i)
  <2>1. alerts' = alerts /\ post' = post
    BY <1>5 DEF Unmount, SetFilter, Click
  <2>2. PageInv'
    BY <1>5, PanelInv
  <2> QED BY <1>3, <2>1, <2>2 DEF BoardInv
<1>6. ASSUME NEW c \in Patch, Resolve(c) \/ PatchAnswered(c) \/ PatchFailed(c)
      PROVE  BoardInv'
  <2>1. (alerts' = alerts \/ \E r : alerts' = Resolved(r)) /\ post' = post
    BY <1>6 DEF Resolve, PatchAnswered, PatchFailed
  <2> QED BY <1>3, <1>6, <2>1, PatchInv DEF BoardInv
<1>7. ASSUME NEW i \in Row, ResolvedElsewhere(i) PROVE BoardInv'
  <2>1. alerts' = Resolved(i) /\ post' = post /\ UNCHANGED screenVars
    BY <1>7 DEF ResolvedElsewhere
  <2>2. Grown
    BY <1>1, <2>1, ResolvedGrows
  <2> QED BY <1>1, <2>1, <2>2, PostsStay, ScreenStays DEF BoardInv
<1>8. CASE UNCHANGED boardVars
  <2>1. alerts' = alerts /\ post' = post /\ UNCHANGED screenVars
    BY <1>8 DEF boardVars, screenVars
  <2> QED BY <1>1, <2>1, Standing, PostsStay, ScreenStays DEF BoardInv
<1> QED BY <1>2, <1>4, <1>5, <1>6, <1>7, <1>8 DEF BoardNext, BoardSide

(***************************************************************************)
(* Lists name rows, and no more than Limit.                                *)
(***************************************************************************)

Short(S) == S \in SUBSET (1 .. Len(alerts)) /\ Cardinality(S) <= Limit
ShortInv == mounted \in BOOLEAN /\ Short(list.shown) /\ \A p \in Poll : Short(poll[p].rows)

(* The oldest of the newest open rows has the others after it.             *)
LEMMA ListOpenShort ==
  ASSUME alerts \in Seq(Alert)
  PROVE  Short(ListOpen)
<1>1. ListOpen \subseteq 1 .. Len(alerts) /\ Len(alerts) \in Nat
  BY OpenRows DEF ListOpen
<1>2. CASE ListOpen = {}
  BY <1>2, FS_EmptySet DEF Short
<1>3. CASE ListOpen # {}
  <2>1. ListOpen \in SUBSET Nat
    BY <1>1
  <2>2. PICK m \in ListOpen : \A j \in ListOpen : m <= j
    BY <1>3, <2>1, LeastNumber
  <2> DEFINE newer == {j \in Open : j > m}
  <2>3. ListOpen \ {m} \subseteq newer
    <3> SUFFICES ASSUME NEW j \in ListOpen, j # m PROVE j \in newer
      OBVIOUS
    <3>1. j \in Nat /\ m \in Nat /\ m <= j
      BY <2>1, <2>2
    <3>2. j > m
      BY <3>1
    <3> QED BY <3>2 DEF ListOpen
  <2>4. IsFiniteSet(newer) /\ IsFiniteSet(ListOpen)
    <3>1. newer \subseteq 1 .. Len(alerts) /\ IsFiniteSet(1 .. Len(alerts))
      BY OpenRows, FS_Interval
    <3> QED BY <1>1, <3>1, FS_Subset
  <2>5. Cardinality(newer) < Limit /\ Cardinality(newer) \in Nat
    BY <2>2, <2>4, FS_CardinalityType DEF ListOpen
  <2>6. Cardinality(ListOpen \ {m}) <= Cardinality(newer)
    BY <2>3, <2>4, FS_Subset
  <2>7. /\ Cardinality(ListOpen \ {m}) = Cardinality(ListOpen) - 1
        /\ Cardinality(ListOpen) \in Nat
    BY <2>2, <2>4, FS_RemoveElement, FS_CardinalityType
  <2> QED BY <1>1, <2>5, <2>6, <2>7 DEF Short
<1> QED BY <1>2, <1>3

LEMMA ShortPart ==
  ASSUME alerts \in Seq(Alert), NEW S, Short(S), NEW T \in SUBSET S
  PROVE  Short(T)
<1>1. IsFiniteSet(1 .. Len(alerts))
  BY FS_Interval
<1>2. IsFiniteSet(S) /\ IsFiniteSet(T)
  BY <1>1, FS_Subset DEF Short
<1>3. Cardinality(T) <= Cardinality(S) /\ Cardinality(T) \in Nat /\ Cardinality(S) \in Nat
  BY <1>2, FS_Subset, FS_CardinalityType
<1> QED BY <1>3 DEF Short

LEMMA ShortInit == BoardInit => ShortInv
<1> SUFFICES ASSUME BoardInit PROVE ShortInv
  OBVIOUS
<1>1. Short({})
  BY FS_EmptySet DEF Short
<1> QED BY <1>1 DEF BoardInit, ShortInv, FreshList, IdlePoll

LEMMA ShortNext == BoardInv /\ ShortInv /\ [BoardNext]_boardVars => ShortInv'
<1> SUFFICES ASSUME BoardInv, ShortInv, [BoardNext]_boardVars PROVE ShortInv'
  OBVIOUS
<1>1. /\ alerts \in Seq(Alert) /\ Len(alerts) \in Nat /\ list \in List
      /\ poll \in [Poll -> PollRecord] /\ \A p \in Poll : poll[p] \in PollRecord
  BY DEF BoardInv, PostInv, PageInv, ScreenTyped
<1>2. Len(alerts') \in Nat /\ Len(alerts) <= Len(alerts')
  <2>1. CASE \E k \in Kind : Insert(k)
    BY <1>1, <2>1, InsertGrows DEF Grown
  <2>2. CASE \E r : alerts' = Resolved(r)
    BY <1>1, <2>2, ResolvedGrows DEF Grown, BoardInv, PostInv
  <2>3. CASE alerts' = alerts
    BY <1>1, <2>3
  <2>4. \A p \in Post : Create(p) => \E k \in Kind : Insert(k)
    BY DEF Create, BoardInv, PostInv, PostRecord
  <2>5. SystemAlert => \E k \in Kind : Insert(k)
    BY DEF SystemAlert
  <2> QED BY <2>1, <2>2, <2>3, <2>4, <2>5
      DEF BoardNext, DriverSide, BoardSide, boardVars, Raise, ResolveBusPk, CreateFails, Told,
          GivenUp, PollTick, Mount, Serve, PollAnswered, PollFailed, Unmount, SetFilter, Click,
          Resolve, PatchAnswered, PatchFailed, ResolvedElsewhere
<1>3. ASSUME NEW S, Short(S) PROVE Short(S)'
  BY <1>1, <1>2, <1>3 DEF Short
<1>4. Short({}) /\ Short(ListOpen) /\ \A p \in Poll : Short(poll[p].rows)
  BY <1>1, FS_EmptySet, ListOpenShort DEF Short, ShortInv
<1>5. ASSUME NEW p \in Poll, Fetch(p) PROVE \A q \in Poll : poll'[q].rows \in {{}, poll[q].rows}
  BY <1>1, <1>5 DEF Fetch, IdlePoll
<1>6. mounted' \in BOOLEAN
  BY DEF ShortInv, BoardNext, DriverSide, BoardSide, boardVars, screenVars, Raise, ResolveBusPk,
         Create, CreateFails, Told, GivenUp, SystemAlert, PollTick, Mount, Serve, PollAnswered,
         PollFailed, Unmount, SetFilter, Click, Resolve, PatchAnswered, PatchFailed,
         ResolvedElsewhere
<1>7. \A q \in Poll : poll'[q].rows \in {{}, poll[q].rows, ListOpen}
  <2>1. ASSUME NEW p \in Poll, PollTick(p) \/ Mount(p)
        PROVE  \A q \in Poll : poll'[q].rows \in {{}, poll[q].rows, ListOpen}
    BY <1>5, <2>1 DEF PollTick, Mount
  <2>2. ASSUME NEW p \in Poll, Serve(p)
        PROVE  \A q \in Poll : poll'[q].rows \in {{}, poll[q].rows, ListOpen}
    <3>1. /\ \A q \in Poll \ {p} : poll'[q] = poll[q]
          /\ poll'[p] = [poll[p] EXCEPT !.pc = "read", !.rows = ListOpen, !.upTo = Len(alerts)]
      BY <1>1, <2>2 DEF Serve
    <3>2. poll'[p].rows = ListOpen
      BY <1>1, <3>1 DEF PollRecord
    <3> QED BY <3>1, <3>2
  <2>3. ASSUME NEW p \in Poll, PollAnswered(p) \/ PollFailed(p)
        PROVE  \A q \in Poll : poll'[q].rows \in {{}, poll[q].rows, ListOpen}
    BY <1>1, <2>3 DEF PollAnswered, PollFailed, IdlePoll
  <2>4. CASE Unmount
    BY <2>4 DEF Unmount, IdlePoll
  <2>5. ASSUME NEW c \in Patch, PatchFailed(c)
        PROVE  \A q \in Poll : poll'[q].rows \in {{}, poll[q].rows, ListOpen}
    BY <1>5, <2>5 DEF PatchFailed
  <2>6. CASE poll' = poll
    BY <2>6
  <2> QED BY <2>1, <2>2, <2>3, <2>4, <2>5, <2>6
      DEF BoardNext, DriverSide, BoardSide, boardVars, screenVars, Raise, ResolveBusPk, Create,
          CreateFails, Told, GivenUp, SystemAlert, SetFilter, Click, Resolve, PatchAnswered,
          ResolvedElsewhere
<1>8. Short(list'.shown)
  <2>1. ASSUME list'.shown \subseteq list.shown PROVE Short(list'.shown)
    BY <1>1, <2>1, ShortPart DEF ShortInv
  <2>2. ASSUME NEW p \in Poll, PollAnswered(p) PROVE Short(list'.shown)
    <3>1. list'.shown = poll[p].rows
      BY <1>1, <2>2 DEF PollAnswered, List
    <3> QED BY <1>4, <3>1
  <2>3. ASSUME NEW p \in Poll, PollFailed(p) PROVE list'.shown = list.shown
    BY <1>1, <2>3 DEF PollFailed, List
  <2>4. ASSUME NEW k \in Kind \cup {AllKinds}, SetFilter(k) PROVE list'.shown = list.shown
    BY <1>1, <2>4 DEF SetFilter, List
  <2>5. ASSUME NEW c \in Patch, NEW i \in Row, Click(c, i) PROVE list'.shown \subseteq list.shown
    BY <1>1, <2>5 DEF Click, List
  <2>6. CASE Unmount
    BY <2>1, <2>6 DEF Unmount, FreshList
  <2>7. CASE list' = list
    BY <2>1, <2>7
  <2> QED BY <2>1, <2>2, <2>3, <2>4, <2>5, <2>6, <2>7
      DEF BoardNext, DriverSide, BoardSide, boardVars, screenVars, Raise, ResolveBusPk, Create,
          CreateFails, Told, GivenUp, SystemAlert, PollTick, Mount, Serve, Resolve, PatchAnswered,
          PatchFailed, ResolvedElsewhere
<1>9. \A q \in Poll : Short(poll'[q].rows)
  BY <1>4, <1>7
<1> QED BY <1>3, <1>6, <1>8, <1>9 DEF ShortInv

LEMMA BoardTypes == BoardInv /\ ShortInv => BoardTypeOK
<1> SUFFICES ASSUME BoardInv, ShortInv PROVE BoardTypeOK
  OBVIOUS
<1> QED BY DEF BoardInv, PostInv, PageInv, ScreenTyped, ShortInv, Short, BoardTypeOK, Row

LEMMA QuietBoard == BoardInv => QuietIsTrue
<1>1. ASSUME BoardInv, mounted, Title = "No open alerts", ~list.error, NEW i \in 1 .. asOf
      PROVE  \/ i \notin Open
             \/ \E c \in Patch : patch[c].alert = i
             \/ \E p \in Poll : poll[p] # IdlePoll
             \/ Len(alerts) >= i + Limit
  <2>1. ~list.loading /\ list.shown = {}
    BY <1>1 DEF Title
  <2> QED BY <1>1, <2>1 DEF BoardInv, PageInv, ListInv, Missing, Behind, Clicked, Asking
<1> QED BY <1>1 DEF QuietIsTrue

HIDE BoardAssumption

(***************************************************************************)
(* The analytics pages: any number of requests, rows and routes.           *)
(***************************************************************************)

USE PagesAssumption

Live(q) == request[q].asked # "idle" /\ ~request[q].cancelled

(* The figures of a ridership request are read in the order of its         *)
(* queries, those of a demand request at one moment; none of them before   *)
(* the page was opened.                                                    *)
Readings(asked, got) ==
    /\ asked = "ridership" => \A i \in DOMAIN got :
           /\ opened <= got[i].events /\ got[i].events <= Len(stopEvents)
           /\ \A j \in 1 .. i : got[j].events <= got[i].events
    /\ (asked = "demand" /\ got # <<>>) =>
           /\ opened <= got[1].events /\ got[1].events <= Len(stopEvents)
           /\ got[1].trips <= Len(trips)
           /\ \A e \in 1 .. got[1].events : stopEvents[e].trip <= got[1].trips

TablesInv == PagesTypeOK /\ Len(trips) <= MaxTrip /\ Len(stopEvents) <= MaxEvent

(* One request stands at a time: the one the page opened with, while the   *)
(* page loads, or the one for the route selected, while that loads.        *)
EffectsInv ==
    /\ \A p, q \in Request : Live(p) /\ Live(q) => p = q
    /\ \A q \in Request : Live(q) =>
         /\ page \in Page
         /\ \/ request[q].asked = First(page) /\ view.loading
            \/ /\ page = "performance" /\ request[q].asked = "performance"
               /\ view.loadingPerf /\ ~view.loading /\ request[q].route = view.selected
    /\ (page \in Page /\ view.loading) => \E q \in Request : Live(q) /\ request[q].asked = First(page)
    /\ view.loadingPerf => \E q \in Request : Live(q) /\ request[q].asked = "performance"
    /\ view.loading => view.selected = NoRoute /\ view.perf = NoRoute /\ ~view.loadingPerf
    /\ (page = "performance" /\ ~view.loading /\ ~view.loadingPerf /\ ~view.error) =>
         view.perf = view.selected

ReadingsInv ==
    /\ \A q \in Request : Readings(request[q].asked, request[q].got)
    /\ page \in Page => Readings(First(page), view.data)
    /\ (page = "load" /\ view.data # <<>>) => Len(view.data) = 3

PagesInv == TablesInv /\ EffectsInv /\ ReadingsInv

LEMMA Firsts ==
  /\ First("performance") = "routes" /\ First("load") = "ridership"
  /\ First("demand") = "demand" /\ First("health") = "health"
  /\ \A p \in Page : First(p) \in Asked \ {"performance"}
  /\ \A p \in Page : First(p) = "routes" => p = "performance"
  BY DEF First, Page, Asked

LEMMA PagesNumbers ==
  /\ MaxTrip \in Nat /\ MaxEvent \in Nat /\ 0 .. MaxTrip \subseteq Nat /\ 0 .. MaxEvent \subseteq Nat
  OBVIOUS

(* The records a request and a page begin with.                            *)
LEMMA PagesBegin ==
  /\ IdleRequest \in RequestRecord /\ FreshView \in View /\ Blank \in Reading
  /\ \A a \in Asked, r \in Route \cup {NoRoute} :
        [IdleRequest EXCEPT !.asked = a, !.route = r] \in
           {w \in RequestRecord : w.asked = a /\ w.route = r /\ ~w.cancelled /\ w.got = <<>>}
<1>1. <<>> \in Seq(Reading)
  OBVIOUS
<1>2. Blank \in Reading
  BY PagesNumbers DEF Blank, Reading
<1>3. IdleRequest \in RequestRecord
  BY <1>1 DEF IdleRequest, RequestRecord
<1>4. FreshView \in View
  BY <1>1 DEF FreshView, View
<1>5. ASSUME NEW a \in Asked, NEW r \in Route \cup {NoRoute}
      PROVE  [IdleRequest EXCEPT !.asked = a, !.route = r] \in
               {w \in RequestRecord : w.asked = a /\ w.route = r /\ ~w.cancelled /\ w.got = <<>>}
  BY <1>1, <1>5 DEF IdleRequest, RequestRecord
<1> QED BY <1>2, <1>3, <1>4, <1>5

LEMMA PagesInit_Inv == PagesInit => PagesInv
<1> SUFFICES ASSUME PagesInit PROVE PagesInv
  OBVIOUS
<1>1. /\ trips = <<>> /\ stopEvents = <<>> /\ opened = 0 /\ view = FreshView
      /\ page \in {Other, FleetMap} /\ request = [q \in Request |-> IdleRequest]
  BY DEF PagesInit
<1>2. TablesInv
  <2>1. trips \in Seq([route : Route, running : BOOLEAN])
    BY <1>1
  <2>2. stopEvents \in Seq([trip : DOMAIN trips, hour : Hour, boarding : Boarding])
    BY <1>1
  <2>3. Len(trips) = 0 /\ Len(stopEvents) = 0
    BY <1>1
  <2>4. request \in [Request -> RequestRecord]
    BY <1>1, PagesBegin
  <2>5. opened \in 0 .. Len(stopEvents) /\ Len(trips) <= MaxTrip /\ Len(stopEvents) <= MaxEvent
    BY <1>1, <2>3, PagesNumbers
  <2>6. view \in View /\ page \in Page \cup {FleetMap, Other}
    BY <1>1, PagesBegin
  <2> QED BY <2>1, <2>2, <2>4, <2>5, <2>6 DEF TablesInv, PagesTypeOK
<1>3. \A q \in Request : request[q].asked = "idle" /\ ~Live(q)
  BY <1>1 DEF IdleRequest, Live
<1>4. page \notin Page /\ page # "performance" /\ page # "load"
  BY <1>1, PagesAssumption DEF Page
<1>5. EffectsInv
  BY <1>1, <1>3, <1>4 DEF EffectsInv, FreshView
<1>6. ReadingsInv
  BY <1>3, <1>4 DEF ReadingsInv, Readings
<1> QED BY <1>2, <1>5, <1>6 DEF PagesInv

(***************************************************************************)
(* The tables grow.                                                        *)
(***************************************************************************)

LEMMA Tables ==
  ASSUME PagesTypeOK
  PROVE  /\ Len(trips) \in Nat /\ Len(stopEvents) \in Nat /\ DOMAIN trips = 1 .. Len(trips)
         /\ trips \in [1 .. Len(trips) -> [route : Route, running : BOOLEAN]]
         /\ stopEvents \in [1 .. Len(stopEvents) ->
                              [trip : DOMAIN trips, hour : Hour, boarding : Boarding]]
         /\ opened \in Nat /\ opened <= Len(stopEvents)
<1>1. /\ trips \in Seq([route : Route, running : BOOLEAN])
      /\ stopEvents \in Seq([trip : DOMAIN trips, hour : Hour, boarding : Boarding])
      /\ opened \in 0 .. Len(stopEvents)
  BY DEF PagesTypeOK
<1>2. Len(trips) \in Nat /\ DOMAIN trips = 1 .. Len(trips) /\ Len(stopEvents) \in Nat
  BY <1>1
<1>3. stopEvents \in [1 .. Len(stopEvents) -> [trip : DOMAIN trips, hour : Hour, boarding : Boarding]]
  <2> DEFINE R == [trip : DOMAIN trips, hour : Hour, boarding : Boarding]
  <2>1. stopEvents \in Seq(R)
    BY <1>1
  <2> HIDE DEF R
  <2>2. stopEvents \in [1 .. Len(stopEvents) -> R]
    BY <2>1
  <2> QED BY <2>2 DEF R
<1>4. trips \in [1 .. Len(trips) -> [route : Route, running : BOOLEAN]]
  <2> DEFINE R == [route : Route, running : BOOLEAN]
  <2>1. trips \in Seq(R)
    BY <1>1
  <2> HIDE DEF R
  <2>2. trips \in [1 .. Len(trips) -> R]
    BY <2>1
  <2> QED BY <2>2 DEF R
<1>5. opened \in Nat /\ opened <= Len(stopEvents)
  BY <1>1, <1>2
<1> QED BY <1>2, <1>3, <1>4, <1>5

TablesGrow ==
    /\ Len(trips) <= Len(trips') /\ Len(trips') <= MaxTrip
    /\ Len(stopEvents) <= Len(stopEvents') /\ Len(stopEvents') <= MaxEvent
    /\ trips' \in Seq([route : Route, running : BOOLEAN])
    /\ stopEvents' \in Seq([trip : DOMAIN trips', hour : Hour, boarding : Boarding])
    /\ \A e \in 1 .. Len(stopEvents) : stopEvents'[e] = stopEvents[e]
    /\ UNCHANGED <<page, view, request, opened>>

(* What was read stays read.                                               *)
LEMMA GrowInv ==
  ASSUME PagesInv, TablesGrow
  PROVE  PagesInv'
<1>1. PagesTypeOK /\ UNCHANGED <<page, view, request, opened>>
  BY DEF PagesInv, TablesInv, TablesGrow
<1>2. /\ Len(trips) \in Nat /\ Len(stopEvents) \in Nat /\ Len(trips') \in Nat
      /\ Len(stopEvents') \in Nat /\ opened \in Nat /\ opened <= Len(stopEvents)
      /\ Len(trips) <= Len(trips') /\ Len(stopEvents) <= Len(stopEvents')
  BY <1>1, Tables DEF TablesGrow
<1>3. TablesInv'
  <2>1. opened' \in 0 .. Len(stopEvents')
    BY <1>1, <1>2
  <2> QED BY <1>1, <2>1 DEF TablesGrow, PagesTypeOK, TablesInv
<1>4. EffectsInv'
  BY <1>1 DEF PagesInv, EffectsInv, Live
<1>5. ASSUME NEW a, NEW got \in Seq(Reading), Readings(a, got) PROVE Readings(a, got)'
  <2>0. \A i \in DOMAIN got : got[i].events \in Nat /\ got[i].trips \in Nat
    <3>1. \A i \in DOMAIN got : got[i] \in Reading
      BY <1>5
    <3> QED BY <3>1, PagesNumbers DEF Reading
  <2>1. CASE a = "ridership"
    BY <1>1, <1>2, <1>5, <2>0, <2>1 DEF Readings
  <2>2. CASE a = "demand" /\ got # <<>>
    <3>1. 1 \in DOMAIN got
      BY <2>2
    <3>2. \A e \in 1 .. got[1].events : stopEvents'[e] = stopEvents[e]
      <4>1. /\ got[1].events \in Nat /\ got[1].events <= Len(stopEvents)
            /\ \A e \in 1 .. Len(stopEvents) : stopEvents'[e] = stopEvents[e]
        BY <1>5, <2>0, <2>2, <3>1 DEF Readings, TablesGrow
      <4>2. 1 .. got[1].events \subseteq 1 .. Len(stopEvents)
        BY <1>2, <4>1
      <4> QED BY <4>1, <4>2
    <3>3. /\ opened <= got[1].events /\ got[1].events <= Len(stopEvents)
          /\ got[1].trips <= Len(trips)
          /\ \A e \in 1 .. got[1].events : stopEvents[e].trip <= got[1].trips
      BY <1>5, <2>2 DEF Readings
    <3>4. got[1].events \in Nat /\ got[1].trips \in Nat
      BY <2>0, <3>1
    <3>5. got[1].events <= Len(stopEvents') /\ got[1].trips <= Len(trips')
      BY <1>2, <3>3, <3>4
    <3>6. \A e \in 1 .. got[1].events : stopEvents'[e].trip <= got[1].trips
      BY <3>2, <3>3
    <3> QED BY <1>1, <2>2, <3>3, <3>5, <3>6 DEF Readings
  <2> QED BY <2>1, <2>2 DEF Readings
<1>6. ReadingsInv'
  <2>1. view.data \in Seq(Reading) /\ \A q \in Request : request[q].got \in Seq(Reading)
    BY <1>1 DEF PagesTypeOK, View, RequestRecord
  <2>2. \A q \in Request : Readings(request[q].asked, request[q].got)'
    BY <1>1, <1>5, <2>1 DEF PagesInv, ReadingsInv
  <2>3. (page \in Page => Readings(First(page), view.data))'
    BY <1>1, <1>5, <2>1 DEF PagesInv, ReadingsInv
  <2> QED BY <1>1, <2>2, <2>3 DEF PagesInv, ReadingsInv
<1> QED BY <1>3, <1>4, <1>6 DEF PagesInv

LEMMA TripStartedInv ==
  ASSUME PagesInv, NEW r \in Route, TripStarted(r)
  PROVE  PagesInv'
<1>1. PagesTypeOK /\ Len(trips) <= MaxTrip /\ Len(stopEvents) <= MaxEvent
  BY DEF PagesInv, TablesInv
<1> DEFINE row == [route |-> r, running |-> TRUE]
<1>2. /\ row \in [route : Route, running : BOOLEAN] /\ trips' = Append(trips, row)
      /\ Len(trips) < MaxTrip /\ UNCHANGED <<stopEvents, page, view, request, opened>>
  BY DEF TripStarted
<1>3. trips \in Seq([route : Route, running : BOOLEAN])
  BY <1>1 DEF PagesTypeOK
<1> HIDE DEF row
<1>4. /\ trips' \in Seq([route : Route, running : BOOLEAN]) /\ Len(trips') = Len(trips) + 1
      /\ Len(trips) \in Nat
  BY <1>2, <1>3
<1>5. DOMAIN trips \subseteq DOMAIN trips'
  BY <1>3, <1>4
<1>6. stopEvents' \in Seq([trip : DOMAIN trips', hour : Hour, boarding : Boarding])
  <2> DEFINE R == [trip : DOMAIN trips', hour : Hour, boarding : Boarding]
  <2>1. \A e \in 1 .. Len(stopEvents) : stopEvents[e] \in R
    BY <1>1, <1>5, Tables
  <2>2. stopEvents \in Seq([trip : DOMAIN trips, hour : Hour, boarding : Boarding])
    BY <1>1 DEF PagesTypeOK
  <2> HIDE DEF R
  <2>3. Len(stopEvents) \in Nat /\ stopEvents = [e \in 1 .. Len(stopEvents) |-> stopEvents[e]]
    BY <2>2
  <2>4. stopEvents \in Seq(R)
    BY <2>1, <2>3
  <2> QED BY <1>2, <2>4 DEF R
<1> QED BY <1>1, <1>2, <1>4, <1>6, PagesNumbers, Tables, GrowInv DEF TablesGrow

LEMMA TripEndedInv ==
  ASSUME PagesInv, NEW t \in DOMAIN trips, TripEnded(t)
  PROVE  PagesInv'
<1>1. PagesTypeOK /\ Len(trips) <= MaxTrip /\ Len(stopEvents) <= MaxEvent
  BY DEF PagesInv, TablesInv
<1>2. /\ trips' = [trips EXCEPT ![t].running = FALSE]
      /\ UNCHANGED <<stopEvents, page, view, request, opened>>
  BY DEF TripEnded
<1>3. trips' \in [1 .. Len(trips) -> [route : Route, running : BOOLEAN]]
  BY <1>1, <1>2, Tables
<1>4. /\ trips' \in Seq([route : Route, running : BOOLEAN]) /\ Len(trips') = Len(trips)
      /\ DOMAIN trips' = DOMAIN trips
  <2> DEFINE R == [route : Route, running : BOOLEAN]
  <2>1. Len(trips) \in Nat /\ trips' \in [1 .. Len(trips) -> R] /\ DOMAIN trips = 1 .. Len(trips)
    BY <1>1, <1>3, Tables
  <2> HIDE DEF R
  <2>2. trips' \in Seq(R) /\ Len(trips') = Len(trips) /\ DOMAIN trips' = DOMAIN trips
    BY <2>1
  <2> QED BY <2>2 DEF R
<1>5. stopEvents' \in Seq([trip : DOMAIN trips', hour : Hour, boarding : Boarding])
  BY <1>1, <1>2, <1>4 DEF PagesTypeOK
<1> QED BY <1>1, <1>2, <1>4, <1>5, PagesNumbers, Tables, GrowInv DEF TablesGrow

LEMMA StopRecordedInv ==
  ASSUME PagesInv, NEW t \in DOMAIN trips, NEW h \in Hour, NEW n \in Boarding,
         StopRecorded(t, h, n)
  PROVE  PagesInv'
<1>1. PagesTypeOK /\ Len(trips) <= MaxTrip /\ Len(stopEvents) <= MaxEvent
  BY DEF PagesInv, TablesInv
<1> DEFINE row == [trip |-> t, hour |-> h, boarding |-> n]
           Rows == [trip : DOMAIN trips, hour : Hour, boarding : Boarding]
<1>2. /\ row \in Rows /\ stopEvents' = Append(stopEvents, row)
      /\ Len(stopEvents) < MaxEvent /\ UNCHANGED <<trips, page, view, request, opened>>
  BY DEF StopRecorded
<1>3. stopEvents \in Seq(Rows) /\ trips \in Seq([route : Route, running : BOOLEAN])
  BY <1>1 DEF PagesTypeOK
<1>4. DOMAIN trips' = DOMAIN trips
  BY <1>2
<1> HIDE DEF row
<1>5. /\ stopEvents' \in Seq(Rows) /\ Len(stopEvents') = Len(stopEvents) + 1
      /\ \A e \in 1 .. Len(stopEvents) : stopEvents'[e] = stopEvents[e]
      /\ Len(stopEvents) \in Nat
  <2> HIDE DEF Rows
  <2> QED BY <1>2, <1>3
<1> QED BY <1>1, <1>2, <1>3, <1>4, <1>5, PagesNumbers, Tables, GrowInv DEF TablesGrow

(***************************************************************************)
(* The effects of a page and their requests.                               *)
(***************************************************************************)

LEMMA Requests ==
  ASSUME PagesTypeOK, NEW q \in Request
  PROVE  /\ request[q] \in RequestRecord /\ request[q].got \in Seq(Reading)
         /\ request[q].asked \in Asked \cup {"idle"} /\ request[q].route \in Route \cup {NoRoute}
BY DEF PagesTypeOK, RequestRecord

(* The tables stand still, and so does what was read of them.              *)
Still == UNCHANGED <<trips, stopEvents>>

LEMMA ReadingsStay ==
  ASSUME Still, UNCHANGED opened, NEW a, NEW got, Readings(a, got)
  PROVE  Readings(a, got)'
BY DEF Still, Readings

LEMMA NoReadings == \A a : Readings(a, <<>>) /\ Readings(a, <<>>)'
  BY DEF Readings

(* A request is over, and the page is not touched or shows its end.        *)
LEMMA TablesStay ==
  ASSUME PagesInv, Still, request' \in [Request -> RequestRecord], view' \in View,
         page' \in Page \cup {FleetMap, Other}, opened' \in 0 .. Len(stopEvents)
  PROVE  TablesInv'
BY DEF PagesInv, TablesInv, PagesTypeOK, Still

LEMMA IgnoredInv ==
  ASSUME PagesInv, NEW q \in Request, Ignored(q)
  PROVE  PagesInv'
<1>1. /\ PagesTypeOK /\ request[q].cancelled /\ request' = [request EXCEPT ![q] = IdleRequest]
      /\ UNCHANGED <<trips, stopEvents, page, view, opened>>
  BY DEF PagesInv, TablesInv, Ignored, tableVars
<1>2. /\ request' \in [Request -> RequestRecord] /\ request'[q] = IdleRequest
      /\ \A p \in Request \ {q} : request'[p] = request[p]
  BY <1>1, PagesBegin DEF PagesTypeOK
<1>3. TablesInv'
  BY <1>1, <1>2, TablesStay DEF Still, PagesTypeOK
<1>4. \A p \in Request : /\ Live(p)' <=> Live(p)
                         /\ Live(p) => request'[p] = request[p]
  BY <1>1, <1>2 DEF Live, IdleRequest
<1>5. EffectsInv'
  BY <1>1, <1>4 DEF PagesInv, EffectsInv
<1>6. ReadingsInv'
  <2>1. \A p \in Request : Readings(request[p].asked, request[p].got)'
    BY <1>1, <1>2, ReadingsStay, NoReadings DEF PagesInv, ReadingsInv, IdleRequest, Still
  <2> QED BY <1>1, <2>1, ReadingsStay DEF PagesInv, ReadingsInv, Still
<1> QED BY <1>3, <1>5, <1>6 DEF PagesInv

(* A page that opens forgets what the pages before it asked for.           *)
LEMMA OpenPageInv ==
  ASSUME PagesInv, NEW p \in Page, NEW q \in Request, OpenPage(p, q)
  PROVE  PagesInv'
<1> DEFINE w == [IdleRequest EXCEPT !.asked = First(p), !.route = NoRoute]
<1>1. /\ PagesTypeOK /\ page' = p /\ view' = FreshView /\ opened' = Len(stopEvents)
      /\ UNCHANGED <<trips, stopEvents>>
      /\ request' = [x \in Request |->
            IF x = q THEN w
            ELSE IF request[x].asked \in Asked THEN [request[x] EXCEPT !.cancelled = TRUE, !.got = <<>>]
            ELSE request[x]]
  BY DEF PagesInv, TablesInv, OpenPage, Send, tableVars
<1>2. /\ w \in RequestRecord /\ w.asked = First(p) /\ w.route = NoRoute /\ ~w.cancelled
      /\ w.got = <<>> /\ First(p) \in Asked \ {"performance"}
  <2>1. First(p) \in Asked /\ First(p) # "performance"
    BY Firsts
  <2>2. <<>> \in Seq(Reading)
    OBVIOUS
  <2> DEFINE a == First(p)
  <2>3. a \in Asked
    BY <2>1
  <2> HIDE DEF a
  <2>4. [IdleRequest EXCEPT !.asked = a, !.route = NoRoute] \in RequestRecord
    BY <2>2, <2>3 DEF IdleRequest, RequestRecord
  <2> QED BY <2>1, <2>4 DEF IdleRequest, a
<1> HIDE DEF w
<1>3. /\ request'[q] = w
      /\ \A x \in Request \ {q} :
           /\ request'[x] \in RequestRecord /\ request'[x].asked = request[x].asked
           /\ request'[x].cancelled \/ request'[x].asked = "idle"
           /\ request'[x].got = <<>> \/ request'[x].asked = "idle"
  <2> SUFFICES ASSUME NEW x \in Request \ {q}
               PROVE  /\ request'[x] \in RequestRecord /\ request'[x].asked = request[x].asked
                      /\ request'[x].cancelled \/ request'[x].asked = "idle"
                      /\ request'[x].got = <<>> \/ request'[x].asked = "idle"
    BY <1>1
  <2>1. request[x] \in RequestRecord
    BY <1>1, Requests
  <2>2. <<>> \in Seq(Reading)
    OBVIOUS
  <2> QED BY <1>1, <2>1, <2>2 DEF RequestRecord
<1>4. request' \in [Request -> RequestRecord]
  BY <1>1, <1>2, <1>3
<1>5. TablesInv'
  <2>1. Len(stopEvents) \in 0 .. Len(stopEvents)
    <3>1. Len(stopEvents) \in Nat
      BY <1>1, Tables
    <3> QED BY <3>1
  <2> QED BY <1>1, <1>4, <2>1, PagesBegin, TablesStay DEF Still
<1>6. \A x \in Request : Live(x)' <=> x = q
  BY <1>2, <1>3 DEF Live, Asked
<1>7. EffectsInv'
  BY <1>1, <1>2, <1>3, <1>6 DEF EffectsInv, FreshView
<1>8. ReadingsInv'
  <2>1. \A x \in Request : Readings(request[x].asked, request[x].got)'
    BY <1>2, <1>3, NoReadings DEF Readings
  <2>2. view'.data = <<>>
    BY <1>1 DEF FreshView
  <2> QED BY <2>1, <2>2, NoReadings DEF ReadingsInv
<1> QED BY <1>5, <1>7, <1>8 DEF PagesInv

(* Choosing a route supersedes the one chosen before.                      *)
LEMMA SelectInv ==
  ASSUME PagesInv, NEW r \in Route, NEW q \in Request, Select(r, q)
  PROVE  PagesInv'
<1> DEFINE w == [IdleRequest EXCEPT !.asked = "performance", !.route = r]
<1>1. /\ PagesTypeOK /\ page = "performance" /\ view.selected \notin {r, NoRoute}
      /\ view' = [view EXCEPT !.selected = r, !.loadingPerf = TRUE]
      /\ UNCHANGED <<trips, stopEvents, page, opened>> /\ request[q] = IdleRequest
      /\ request' = [x \in Request |->
            IF x = q THEN w
            ELSE IF request[x].asked \in {"performance"}
                 THEN [request[x] EXCEPT !.cancelled = TRUE, !.got = <<>>]
            ELSE request[x]]
  BY DEF PagesInv, TablesInv, Select, Send, tableVars
<1>2. /\ w \in RequestRecord /\ w.asked = "performance" /\ w.route = r /\ ~w.cancelled
      /\ w.got = <<>>
  BY PagesBegin DEF Asked
<1> HIDE DEF w
<1>3. /\ request'[q] = w
      /\ \A x \in Request \ {q} :
           /\ request'[x] \in RequestRecord /\ request'[x].asked = request[x].asked
           /\ IF request[x].asked = "performance" THEN request'[x].cancelled /\ request'[x].got = <<>>
              ELSE request'[x] = request[x]
  <2> SUFFICES ASSUME NEW x \in Request \ {q}
               PROVE  /\ request'[x] \in RequestRecord /\ request'[x].asked = request[x].asked
                      /\ IF request[x].asked = "performance"
                         THEN request'[x].cancelled /\ request'[x].got = <<>>
                         ELSE request'[x] = request[x]
    BY <1>1
  <2>1. request[x] \in RequestRecord
    BY <1>1, Requests
  <2>2. <<>> \in Seq(Reading)
    OBVIOUS
  <2> QED BY <1>1, <2>1, <2>2 DEF RequestRecord
<1>4. request' \in [Request -> RequestRecord]
  BY <1>1, <1>2, <1>3
<1>5. /\ view' \in View /\ view'.selected = r /\ view'.loadingPerf /\ view'.loading = view.loading
      /\ view'.data = view.data /\ view.loading \in BOOLEAN /\ r # NoRoute
  BY <1>1, PagesAssumption DEF PagesTypeOK, View
<1>6. TablesInv'
  BY <1>1, <1>4, <1>5, TablesStay DEF Still, PagesTypeOK
<1>7. ~view.loading
  BY <1>1 DEF PagesInv, EffectsInv
<1>8. \A x \in Request : Live(x)' <=> x = q
  <2>1. Live(q)'
    BY <1>2, <1>3 DEF Live
  <2>2. ASSUME NEW x \in Request \ {q} PROVE ~Live(x)'
    <3>1. Live(x) => request[x].asked = "performance"
      BY <1>7 DEF PagesInv, EffectsInv
    <3> QED BY <1>3, <3>1 DEF Live
  <2> QED BY <2>1, <2>2
<1>9. EffectsInv'
  BY <1>1, <1>2, <1>3, <1>5, <1>7, <1>8 DEF EffectsInv, Page
<1>10. ReadingsInv'
  <2>1. \A x \in Request : Readings(request[x].asked, request[x].got)'
    BY <1>1, <1>2, <1>3, NoReadings, ReadingsStay DEF PagesInv, ReadingsInv, Still
  <2>2. (page \in Page => Readings(First(page), view.data))'
    BY <1>1, <1>5, ReadingsStay DEF PagesInv, ReadingsInv, Still
  <2> QED BY <1>1, <1>5, <2>1, <2>2 DEF PagesInv, ReadingsInv
<1> QED BY <1>6, <1>9, <1>10 DEF PagesInv

(* A query reads on.                                                       *)
LEMMA GotInv ==
  ASSUME PagesInv, NEW q \in Request, NEW reading \in Reading, Live(q), Got(q, reading),
         Readings(request[q].asked, Append(request[q].got, reading))
  PROVE  PagesInv'
<1>0. PICK got, w : got = Append(request[q].got, reading) /\ w = [request[q] EXCEPT !.got = got]
  OBVIOUS
<1>1. PagesTypeOK /\ UNCHANGED <<trips, stopEvents, page, view, opened>>
  BY DEF PagesInv, TablesInv, Got, tableVars
<1>2. got \in Seq(Reading) /\ request[q] \in RequestRecord
  BY <1>0, <1>1, Requests
<1>3. request' = [request EXCEPT ![q] = w]
  BY <1>0 DEF Got
<1>4. /\ w \in RequestRecord /\ w.asked = request[q].asked /\ w.route = request[q].route
      /\ w.cancelled = request[q].cancelled /\ w.got = got
  BY <1>0, <1>2 DEF RequestRecord
<1>5. /\ request' \in [Request -> RequestRecord] /\ request'[q] = w
      /\ \A p \in Request \ {q} : request'[p] = request[p]
  BY <1>1, <1>3, <1>4 DEF PagesTypeOK
<1>6. TablesInv'
  BY <1>1, <1>5, TablesStay DEF Still, PagesTypeOK
<1>7. \A p \in Request : /\ Live(p)' <=> Live(p)
                         /\ request'[p].asked = request[p].asked /\ request'[p].route = request[p].route
  BY <1>4, <1>5 DEF Live
<1>8. EffectsInv'
  BY <1>1, <1>7 DEF PagesInv, EffectsInv
<1>9. ReadingsInv'
  <2>0. \A a, b : Readings(a, b) => Readings(a, b)'
    BY <1>1, ReadingsStay DEF Still
  <2>1. Readings(w.asked, w.got)'
    BY <1>0, <1>1, <1>4, ReadingsStay DEF Still
  <2>2. \A p \in Request : Readings(request[p].asked, request[p].got)'
    <3>1. \A p \in Request \ {q} : Readings(request[p].asked, request[p].got)'
      BY <1>5, <2>0 DEF PagesInv, ReadingsInv
    <3> QED BY <1>5, <2>1, <3>1
  <2> QED BY <1>1, <2>2, ReadingsStay DEF PagesInv, ReadingsInv, Still
<1> QED BY <1>6, <1>8, <1>9 DEF PagesInv

LEMMA QueryInv ==
  ASSUME PagesInv, NEW q \in Request, Query(q)
  PROVE  PagesInv'
<1> DEFINE now == NowRead(q)
           got == request[q].got
<1>1. /\ PagesTypeOK /\ Len(trips) <= MaxTrip /\ Len(stopEvents) <= MaxEvent
      /\ Live(q) /\ Got(q, now) /\ got \in Seq(Reading) /\ Readings(request[q].asked, got)
      /\ Len(got) < Queries[request[q].asked]
  BY Requests DEF PagesInv, TablesInv, ReadingsInv, Query, Live
<1>2. Len(trips) \in 0 .. MaxTrip /\ Len(stopEvents) \in 0 .. MaxEvent
  <2>1. Len(trips) \in Nat /\ Len(stopEvents) \in Nat
    BY <1>1, Tables
  <2> QED BY <1>1, <2>1, PagesNumbers
<1>3. now \in Reading
  <2>1. {t \in DOMAIN trips : trips[t].running} \in SUBSET (1 .. MaxTrip)
    <3>1. DOMAIN trips = 1 .. Len(trips)
      BY <1>1, Tables
    <3> QED BY <1>2, <3>1
  <2> QED BY <1>2, <2>1, PagesBegin DEF NowRead, Reading, Blank
<1>4. Readings(request[q].asked, Append(got, now))
  <2>1. CASE request[q].asked = "ridership"
    <3>1. now.events = Len(stopEvents)
      BY <2>1 DEF NowRead, Blank
    <3> HIDE DEF now, got
    <3>2. /\ Len(got) \in Nat /\ DOMAIN Append(got, now) = 1 .. Len(got) + 1
          /\ DOMAIN got = 1 .. Len(got)
          /\ Append(got, now)[Len(got) + 1] = now
          /\ \A i \in 1 .. Len(got) : Append(got, now)[i] = got[i]
      BY <1>1, <1>3
    <3>3. opened \in Nat /\ opened <= Len(stopEvents) /\ Len(stopEvents) \in Nat
      BY <1>1, Tables
    <3>4. \A i \in 1 .. Len(got) : /\ opened <= got[i].events /\ got[i].events <= Len(stopEvents)
                                   /\ \A j \in 1 .. i : got[j].events <= got[i].events
      BY <1>1, <2>1, <3>2 DEF Readings
    <3>5. ASSUME NEW i \in 1 .. Len(got) + 1
          PROVE  /\ opened <= Append(got, now)[i].events
                 /\ Append(got, now)[i].events <= Len(stopEvents)
                 /\ \A j \in 1 .. i : Append(got, now)[j].events <= Append(got, now)[i].events
      <4>1. CASE i \in 1 .. Len(got)
        BY <3>2, <3>4, <4>1
      <4>2. CASE i = Len(got) + 1
        <5>1. \A j \in 1 .. i : j \in 1 .. Len(got) \/ j = Len(got) + 1
          BY <3>2, <4>2
        <5> QED BY <3>1, <3>2, <3>3, <3>4, <4>2, <5>1
      <4> QED BY <3>2, <4>1, <4>2
    <3> QED BY <2>1, <3>2, <3>5 DEF Readings
  <2>2. CASE request[q].asked = "demand" /\ got = <<>>
    <3>1. now.events = Len(stopEvents) /\ now.trips = Len(trips)
      BY <2>2 DEF NowRead, Blank
    <3> HIDE DEF now, got
    <3>2. Append(got, now)[1] = now
      BY <1>3, <2>2
    <3>3. /\ opened <= Len(stopEvents) /\ Len(stopEvents) <= Len(stopEvents)
          /\ Len(trips) <= Len(trips)
          /\ \A e \in 1 .. Len(stopEvents) : stopEvents[e].trip <= Len(trips)
      BY <1>1, Tables
    <3> QED BY <2>2, <3>1, <3>2, <3>3 DEF Readings
  <2>3. CASE request[q].asked = "demand" /\ got # <<>>
    <3> HIDE DEF now, got
    <3>1. Append(got, now)[1] = got[1]
      BY <1>1, <1>3, <2>3
    <3> QED BY <1>1, <2>3, <3>1 DEF Readings
  <2>4. CASE request[q].asked \notin {"ridership", "demand"}
    BY <2>4 DEF Readings
  <2> QED BY <2>1, <2>2, <2>3, <2>4
<1> QED BY <1>1, <1>3, <1>4, GotInv

LEMMA ModelInv ==
  ASSUME PagesInv, NEW q \in Request, NEW outcome \in {"metrics", "error"}, Model(q, outcome)
  PROVE  PagesInv'
<1>1. [Blank EXCEPT !.model = outcome] \in Reading
  BY PagesBegin DEF Blank, Reading
<1>2. Live(q) /\ request[q].asked = "health" /\ Got(q, [Blank EXCEPT !.model = outcome])
  BY DEF Model, Live
<1> QED BY <1>1, <1>2, GotInv DEF Readings

(* The request that stands is over: nothing is awaited any more.           *)
LEMMA OverInv ==
  ASSUME PagesInv, NEW q \in Request, Live(q), request' = [request EXCEPT ![q] = IdleRequest],
         UNCHANGED <<trips, stopEvents, page, opened>>, view' \in View,
         ~view'.loading, ~view'.loadingPerf,
         (page = "performance" /\ ~view'.error) => view'.perf = view'.selected,
         view'.data = view.data \/ (request[q].asked = First(page) /\ view'.data = request[q].got),
         (page = "load" /\ view'.data # view.data) => Len(view'.data) = 3
  PROVE  PagesInv'
<1>1. PagesTypeOK /\ request' \in [Request -> RequestRecord] /\ request'[q] = IdleRequest
  BY PagesBegin DEF PagesInv, TablesInv, PagesTypeOK
<1>2. \A p \in Request \ {q} : request'[p] = request[p]
  BY <1>1 DEF PagesTypeOK
<1>3. TablesInv'
  BY <1>1, TablesStay DEF Still, PagesTypeOK
<1>4. \A p \in Request : ~Live(p)'
  BY <1>1, <1>2 DEF PagesInv, EffectsInv, Live, IdleRequest
<1>5. EffectsInv'
  BY <1>4 DEF EffectsInv
<1>6. ReadingsInv'
  <2>0. \A a, b : Readings(a, b) => Readings(a, b)'
    BY ReadingsStay DEF Still
  <2>1. \A p \in Request : Readings(request[p].asked, request[p].got)'
    BY <1>1, <1>2, <2>0, NoReadings DEF PagesInv, ReadingsInv, IdleRequest
  <2>2. page \in Page => Readings(First(page), view'.data)
    BY DEF PagesInv, ReadingsInv
  <2> QED BY <2>0, <2>1, <2>2 DEF PagesInv, ReadingsInv
<1> QED BY <1>3, <1>5, <1>6 DEF PagesInv

LEMMA AnsweredInv ==
  ASSUME PagesInv, NEW q \in Request, Answered(q)
  PROVE  PagesInv'
<1>1. /\ PagesTypeOK /\ Live(q) /\ request' = [request EXCEPT ![q] = IdleRequest]
      /\ UNCHANGED <<trips, stopEvents, page, opened>> /\ view' = Shown(q)
      /\ request[q].asked # "routes" /\ Len(request[q].got) = Queries[request[q].asked]
  BY DEF PagesInv, TablesInv, Answered, tableVars, Live
<1>2. /\ view \in View /\ request[q].got \in Seq(Reading)
      /\ request[q].route \in Route \cup {NoRoute} /\ request[q].asked \in Asked \cup {"idle"}
  BY <1>1, Requests DEF PagesTypeOK
<1>3. CASE request[q].asked = "performance"
  <2>1. page = "performance" /\ request[q].route = view.selected /\ ~view.loading
    BY <1>1, <1>3, Firsts DEF PagesInv, EffectsInv
  <2>2. view' = [view EXCEPT !.perf = request[q].route, !.loadingPerf = FALSE]
    BY <1>1, <1>3 DEF Shown
  <2>3. /\ view' \in View /\ view'.perf = view'.selected /\ ~view'.loadingPerf
        /\ ~view'.loading /\ view'.data = view.data
    BY <1>2, <2>1, <2>2 DEF View
  <2> QED BY <1>1, <2>3, OverInv
<1>4. CASE request[q].asked # "performance"
  <2>1. request[q].asked = First(page) /\ page \in Page /\ ~view.loadingPerf
    BY <1>1, <1>4 DEF PagesInv, EffectsInv
  <2>2. view' = [view EXCEPT !.data = request[q].got, !.loading = FALSE]
    BY <1>1, <1>4 DEF Shown
  <2>3. /\ view' \in View /\ ~view'.loadingPerf /\ ~view'.loading /\ view'.data = request[q].got
    BY <1>2, <2>1, <2>2 DEF View
  <2>4. page # "performance"
    BY <1>1, <2>1, Firsts
  <2>5. page = "load" => Len(request[q].got) = 3
    BY <1>1, <2>1, Firsts DEF Queries, Asked
  <2> QED BY <1>1, <2>1, <2>3, <2>4, <2>5, OverInv
<1> QED BY <1>3, <1>4

LEMMA FailedInv ==
  ASSUME PagesInv, NEW q \in Request, Failed(q)
  PROVE  PagesInv'
<1>1. /\ PagesTypeOK /\ Live(q) /\ request' = [request EXCEPT ![q] = IdleRequest]
      /\ UNCHANGED <<trips, stopEvents, page, opened>> /\ view \in View
      /\ view' = IF request[q].asked = "performance"
                 THEN [view EXCEPT !.error = TRUE, !.loadingPerf = FALSE]
                 ELSE [view EXCEPT !.error = TRUE, !.loading = FALSE]
  BY DEF PagesInv, TablesInv, PagesTypeOK, Failed, tableVars, Live
<1>2. /\ request[q].asked = "performance" => ~view.loading
      /\ request[q].asked # "performance" => ~view.loadingPerf
  BY <1>1, Firsts DEF PagesInv, EffectsInv
<1>3. /\ view' \in View /\ ~view'.loading /\ ~view'.loadingPerf /\ view'.error
      /\ view'.data = view.data
  BY <1>1, <1>2 DEF View
<1> QED BY <1>1, <1>3, OverInv

(* The list of routes asks for the figures of its first.                   *)
LEMMA RoutesAnsweredInv ==
  ASSUME PagesInv, NEW q \in Request, NEW r \in Route \cup {NoRoute}, RoutesAnswered(q, r)
  PROVE  PagesInv'
<1> DEFINE w == [IdleRequest EXCEPT !.asked = "performance", !.route = r]
<1>1. /\ PagesTypeOK /\ Live(q) /\ request[q].asked = "routes"
      /\ UNCHANGED <<trips, stopEvents, page, opened>> /\ view \in View
      /\ view' = [view EXCEPT !.selected = r, !.loading = FALSE, !.loadingPerf = r # NoRoute]
      /\ request' = [request EXCEPT ![q] = IF r = NoRoute THEN IdleRequest ELSE w]
  BY DEF PagesInv, TablesInv, PagesTypeOK, RoutesAnswered, tableVars, Live
<1>2. /\ w \in RequestRecord /\ w.asked = "performance" /\ w.route = r /\ ~w.cancelled
      /\ w.got = <<>>
  BY PagesBegin DEF Asked
<1> HIDE DEF w
<1>3. page = "performance" /\ page \in Page /\ view.loading /\ view.perf = NoRoute
  BY <1>1, Firsts DEF PagesInv, EffectsInv
<1>4. /\ view' \in View /\ view'.selected = r /\ ~view'.loading /\ view'.data = view.data
      /\ view'.loadingPerf = (r # NoRoute) /\ view'.perf = NoRoute
  BY <1>1, <1>3 DEF View
<1>5. CASE r = NoRoute
  BY <1>1, <1>4, <1>5, OverInv
<1>6. CASE r # NoRoute
  <2>1. /\ request' \in [Request -> RequestRecord] /\ request'[q] = w
        /\ \A p \in Request \ {q} : request'[p] = request[p]
    BY <1>1, <1>2, <1>6 DEF PagesTypeOK
  <2>2. TablesInv'
    BY <1>1, <1>4, <2>1, TablesStay DEF Still, PagesTypeOK
  <2>3. \A p \in Request : Live(p)' <=> p = q
    BY <1>1, <1>2, <2>1 DEF PagesInv, EffectsInv, Live
  <2>4. EffectsInv'
    BY <1>1, <1>2, <1>3, <1>4, <1>6, <2>1, <2>3 DEF EffectsInv
  <2>5. ReadingsInv'
    <3>0. \A a, b : Readings(a, b) => Readings(a, b)'
      BY <1>1, ReadingsStay DEF Still
    <3>1. \A p \in Request : Readings(request[p].asked, request[p].got)'
      BY <1>2, <2>1, <3>0, NoReadings DEF PagesInv, ReadingsInv
    <3>2. page \in Page => Readings(First(page), view'.data)
      BY <1>4 DEF PagesInv, ReadingsInv
    <3> QED BY <1>1, <1>3, <3>0, <3>1, <3>2 DEF ReadingsInv
  <2> QED BY <2>2, <2>4, <2>5 DEF PagesInv
<1> QED BY <1>5, <1>6

LEMMA PagesNextInv == PagesInv /\ [PagesNext]_pagesVars => PagesInv'
<1> SUFFICES ASSUME PagesInv, [PagesNext]_pagesVars PROVE PagesInv'
  OBVIOUS
<1>1. CASE UNCHANGED pagesVars
  <2>1. PagesTypeOK /\ UNCHANGED <<trips, stopEvents, page, view, request, opened>>
    BY <1>1 DEF pagesVars, PagesInv, TablesInv
  <2>2. TablesGrow
    BY <2>1, Tables DEF TablesGrow, PagesInv, TablesInv, PagesTypeOK
  <2> QED BY <2>2, GrowInv
<1>2. ASSUME NEW r \in Route, TripStarted(r) PROVE PagesInv'
  BY <1>2, TripStartedInv
<1>3. ASSUME NEW t \in DOMAIN trips, TripEnded(t) PROVE PagesInv'
  BY <1>3, TripEndedInv
<1>4. ASSUME NEW t \in DOMAIN trips, NEW h \in Hour, NEW n \in Boarding, StopRecorded(t, h, n)
      PROVE  PagesInv'
  BY <1>4, StopRecordedInv
<1>5. ASSUME NEW q \in Request, NEW p \in Page, OpenPage(p, q) PROVE PagesInv'
  BY <1>5, OpenPageInv
<1>6. ASSUME NEW q \in Request, NEW r \in Route, Select(r, q) PROVE PagesInv'
  BY <1>6, SelectInv
<1>7. ASSUME NEW q \in Request, Requested(q) PROVE PagesInv'
  BY <1>7, QueryInv, ModelInv, AnsweredInv, IgnoredInv, RoutesAnsweredInv DEF Requested, ModelTimedOut
<1>8. ASSUME NEW q \in Request, ModelAnswered(q) \/ Failed(q) PROVE PagesInv'
  BY <1>8, ModelInv, FailedInv DEF ModelAnswered
<1> QED BY <1>1, <1>2, <1>3, <1>4, <1>5, <1>6, <1>7, <1>8 DEF PagesNext

LEMMA OwnFigures == PagesInv => PageShowsItsOwn
<1> SUFFICES ASSUME PagesInv PROVE PageShowsItsOwn
  OBVIOUS
<1> QED BY DEF PagesInv, EffectsInv, PageShowsItsOwn, Live

(***************************************************************************)
(* The figures: what the queries count in the rows.                        *)
(***************************************************************************)

board == [e \in 1 .. Len(stopEvents) |-> stopEvents[e].boarding]

LEMMA Boards ==
  ASSUME PagesTypeOK
  PROVE  \A e \in 1 .. Len(stopEvents) :
            board[e] = stopEvents[e].boarding /\ board[e] \in Nat /\ stopEvents[e].hour \in Hour
<1> QED BY Tables, PagesAssumption DEF board

LEMMA BoardingsFold ==
  ASSUME PagesTypeOK, NEW E, E \subseteq 1 .. Len(stopEvents)
  PROVE  IsFiniteSet(E) /\ Boardings(E) = TotalOf(board, E)
<1> DEFINE Eq(g) == g = [s \in SUBSET E |-> IF s = {} THEN 0
                           ELSE stopEvents[CHOOSE x \in s : TRUE].boarding + g[s \ {CHOOSE x \in s : TRUE}]]
<1>1. Boardings(E) = (CHOOSE g : Eq(g))[E]
  BY DEF Boardings, MapThenSumSet, MapThenFoldSet
<1>2. IsFiniteSet(E) /\ \A x \in E : board[x] = stopEvents[x].boarding /\ board[x] \in Int
  <2>1. Len(stopEvents) \in Nat /\ IsFiniteSet(1 .. Len(stopEvents))
    BY Tables, FS_Interval
  <2>2. IsFiniteSet(E)
    BY <2>1, FS_Subset
  <2> QED BY <2>2, Boards
<1>3. \A g : Eq(g) <=> Folds(g, board, E)
  <2> SUFFICES ASSUME NEW g PROVE Eq(g) <=> Folds(g, board, E)
    OBVIOUS
  <2> DEFINE summed == [s \in SUBSET E |-> IF s = {} THEN 0
                   ELSE stopEvents[CHOOSE x \in s : TRUE].boarding + g[s \ {CHOOSE x \in s : TRUE}]]
             folded == [s \in SUBSET E |-> IF s = {} THEN 0 ELSE board[Pick(s)] + g[s \ {Pick(s)}]]
  <2>1. \A s \in SUBSET E : s # {} => Pick(s) \in E
    BY Picked
  <2>2. \A s \in SUBSET E : s # {} => board[Pick(s)] = stopEvents[Pick(s)].boarding
    BY <1>2, <2>1
  <2>3. summed = folded
    BY <2>2 DEF Pick
  <2> QED BY <2>3 DEF Folds
<1> HIDE DEF Eq
<1>4. PICK h : Folds(h, board, E)
  BY <1>2, FoldExists
<1>5. PICK g : Eq(g) /\ Boardings(E) = g[E]
  BY <1>1, <1>3, <1>4
<1> QED BY <1>2, <1>3, <1>5, TotalIsFold

(* A sum over the hours is a total.                                        *)
Charted(n) == MapThenSumSet(LAMBDA h : ByHour(n)[h].events, Hour)
Boarded(n) == MapThenSumSet(LAMBDA h : ByHour(n)[h].boardings, Hour)
counted(n) == [h \in Hour |-> ByHour(n)[h].events]
summed(n) == [h \in Hour |-> ByHour(n)[h].boardings]

LEMMA ChartedFolds ==
  ASSUME NEW n, \A h \in Hour : ByHour(n)[h].events \in Int
  PROVE  Charted(n) = TotalOf(counted(n), Hour)
<1> DEFINE Eq(g) == g = [s \in SUBSET Hour |-> IF s = {} THEN 0
                           ELSE ByHour(n)[CHOOSE x \in s : TRUE].events + g[s \ {CHOOSE x \in s : TRUE}]]
           f == counted(n)
<1>1. Charted(n) = (CHOOSE g : Eq(g))[Hour]
  BY DEF Charted, MapThenSumSet, MapThenFoldSet
<1>2. IsFiniteSet(Hour) /\ \A x \in Hour : f[x] = ByHour(n)[x].events /\ f[x] \in Int
  BY PagesAssumption DEF counted
<1> HIDE DEF f
<1>3. \A g : Eq(g) <=> Folds(g, f, Hour)
  <2> SUFFICES ASSUME NEW g PROVE Eq(g) <=> Folds(g, f, Hour)
    OBVIOUS
  <2>1. \A s \in SUBSET Hour : s # {} => (CHOOSE x \in s : TRUE) \in Hour
    BY Picked DEF Pick
  <2> QED BY <1>2, <2>1 DEF Folds, Pick
<1> HIDE DEF Eq
<1>4. PICK h : Folds(h, f, Hour)
  BY <1>2, FoldExists
<1>5. PICK g : Eq(g) /\ Charted(n) = g[Hour]
  BY <1>1, <1>3, <1>4
<1>6. Charted(n) = TotalOf(f, Hour)
  BY <1>2, <1>3, <1>5, TotalIsFold
<1> QED BY <1>6 DEF f

LEMMA BoardedFolds ==
  ASSUME NEW n, \A h \in Hour : ByHour(n)[h].boardings \in Int
  PROVE  Boarded(n) = TotalOf(summed(n), Hour)
<1> DEFINE Eq(g) == g = [s \in SUBSET Hour |-> IF s = {} THEN 0
                           ELSE ByHour(n)[CHOOSE x \in s : TRUE].boardings + g[s \ {CHOOSE x \in s : TRUE}]]
           f == summed(n)
<1>1. Boarded(n) = (CHOOSE g : Eq(g))[Hour]
  BY DEF Boarded, MapThenSumSet, MapThenFoldSet
<1>2. IsFiniteSet(Hour) /\ \A x \in Hour : f[x] = ByHour(n)[x].boardings /\ f[x] \in Int
  BY PagesAssumption DEF summed
<1> HIDE DEF f
<1>3. \A g : Eq(g) <=> Folds(g, f, Hour)
  <2> SUFFICES ASSUME NEW g PROVE Eq(g) <=> Folds(g, f, Hour)
    OBVIOUS
  <2>1. \A s \in SUBSET Hour : s # {} => (CHOOSE x \in s : TRUE) \in Hour
    BY Picked DEF Pick
  <2> QED BY <1>2, <2>1 DEF Folds, Pick
<1> HIDE DEF Eq
<1>4. PICK h : Folds(h, f, Hour)
  BY <1>2, FoldExists
<1>5. PICK g : Eq(g) /\ Boarded(n) = g[Hour]
  BY <1>1, <1>3, <1>4
<1>6. Boarded(n) = TotalOf(f, Hour)
  BY <1>2, <1>3, <1>5, TotalIsFold
<1> QED BY <1>6 DEF f

(* The chart by hour has every event once, and everybody who boarded.      *)
LEMMA HoursAddUp ==
  ASSUME PagesTypeOK, NEW n \in Nat, n <= Len(stopEvents)
  PROVE  Charted(n) = n /\ Boarded(n) = TotalOf(board, 1 .. n)
<1> DEFINE key == [e \in 1 .. n |-> stopEvents[e].hour]
           At(h) == {e \in 1 .. n : key[e] = h}
           one == [e \in 1 .. n |-> 1]
<1>0. 1 .. n \subseteq 1 .. Len(stopEvents) /\ Len(stopEvents) \in Nat
  BY Tables
<1>1. /\ IsFiniteSet(1 .. n) /\ Cardinality(1 .. n) = n
      /\ \A e \in 1 .. n : key[e] \in Hour /\ board[e] \in Int
  <2>1. \A e \in 1 .. n : e \in 1 .. Len(stopEvents)
    BY <1>0
  <2>2. IsFiniteSet(1 .. n) /\ Cardinality(1 .. n) = n
    BY FS_Interval
  <2> QED BY <2>1, <2>2, Boards
<1>2. \A h \in Hour : /\ ByHour(n)[h].events = Cardinality(At(h))
                      /\ ByHour(n)[h].boardings = Boardings(At(h))
  <2>1. \A h : At(h) = {e \in 1 .. n : stopEvents[e].hour = h}
    OBVIOUS
  <2> HIDE DEF At
  <2> QED BY <2>1 DEF ByHour
<1>3. \A h : At(h) \subseteq 1 .. n /\ IsFiniteSet(At(h))
  BY <1>1, FS_Subset
<1> HIDE DEF At
<1>4. \A h \in Hour : /\ ByHour(n)[h].events \in Int /\ ByHour(n)[h].events = TotalOf(one, At(h))
                      /\ ByHour(n)[h].boardings = TotalOf(board, At(h))
                      /\ ByHour(n)[h].boardings \in Int
  <2> SUFFICES ASSUME NEW h \in Hour
               PROVE  /\ ByHour(n)[h].events \in Int /\ ByHour(n)[h].events = TotalOf(one, At(h))
                      /\ ByHour(n)[h].boardings = TotalOf(board, At(h))
                      /\ ByHour(n)[h].boardings \in Int
    OBVIOUS
  <2>1. TotalOf(one, At(h)) = Cardinality(At(h))
    BY <1>3, TotalOnes
  <2>2. Cardinality(At(h)) \in Int
    BY <1>3, FS_CardinalityType
  <2>3. Boardings(At(h)) = TotalOf(board, At(h))
    BY <1>0, <1>3, BoardingsFold
  <2>4. TotalOf(board, At(h)) \in Int
    BY <1>1, <1>3, TotalTake
  <2> QED BY <1>2, <2>1, <2>2, <2>3, <2>4
<1>5. Charted(n) = TotalOf(counted(n), Hour) /\ Boarded(n) = TotalOf(summed(n), Hour)
  BY <1>4, ChartedFolds, BoardedFolds
<1>6. \A h \in Hour : /\ counted(n)[h] = TotalOf(one, At(h))
                      /\ summed(n)[h] = TotalOf(board, At(h))
  BY <1>4 DEF counted, summed
<1> DEFINE E == 1 .. n
<1>7. \A h \in Hour : At(h) = GroupOf(E, key, h)
  BY DEF At, GroupOf
<1>8. /\ IsFiniteSet(E) /\ IsFiniteSet(Hour)
      /\ \A e \in E : one[e] \in Int /\ board[e] \in Int /\ key[e] \in Hour
  BY <1>1, PagesAssumption
<1> HIDE DEF E, one, key
<1>9. TotalOf(counted(n), Hour) = TotalOf(one, E)
  BY <1>6, <1>7, <1>8, TotalGrouped
<1>10. TotalOf(summed(n), Hour) = TotalOf(board, E)
  BY <1>6, <1>7, <1>8, TotalGrouped
<1>11. TotalOf(one, 1 .. n) = n
  BY <1>1, TotalOnes DEF one
<1> QED BY <1>5, <1>9, <1>10, <1>11 DEF E

LEMMA LoadAddsUp ==
  ASSUME PagesInv, view.data # <<>>, page = "load"
  PROVE  /\ opened <= Charted(view.data[1].events)
         /\ Charted(view.data[1].events) <= SampleStopEvents(view.data[3].events)
         /\ Boarded(view.data[1].events) <= ByDayType(view.data[2].events)
<1>1. PagesTypeOK /\ Len(view.data) = 3 /\ Readings("ridership", view.data)
  BY Firsts DEF PagesInv, TablesInv, ReadingsInv, Page
<1>2. PICK a, b, c : a = view.data[1].events /\ b = view.data[2].events /\ c = view.data[3].events
  OBVIOUS
<1>3. a \in Nat /\ b \in Nat /\ c \in Nat
  <2>1. view.data \in Seq(Reading)
    BY <1>1 DEF PagesTypeOK, View
  <2>2. view.data[1] \in Reading /\ view.data[2] \in Reading /\ view.data[3] \in Reading
    BY <1>1, <2>1
  <2> QED BY <1>2, <2>2, PagesNumbers DEF Reading
<1>4. opened <= a /\ a <= b /\ b <= c /\ c <= Len(stopEvents)
  <2>1. DOMAIN view.data = 1 .. 3
    <3>1. view.data \in Seq(Reading)
      BY <1>1 DEF PagesTypeOK, View
    <3> QED BY <1>1, <3>1
  <2>2. /\ opened <= view.data[1].events /\ view.data[1].events <= view.data[2].events
        /\ view.data[2].events <= view.data[3].events /\ view.data[3].events <= Len(stopEvents)
    BY <1>1, <2>1 DEF Readings
  <2> QED BY <1>2, <2>2
<1>5. Len(stopEvents) \in Nat /\ opened \in Nat
  BY <1>1, Tables
<1>6. Charted(a) = a /\ Boarded(a) = TotalOf(board, 1 .. a)
  BY <1>1, <1>3, <1>4, <1>5, HoursAddUp
<1>7. Boardings(1 .. b) = TotalOf(board, 1 .. b) /\ IsFiniteSet(1 .. b)
  <2>1. 1 .. b \subseteq 1 .. Len(stopEvents)
    BY <1>3, <1>4, <1>5
  <2> QED BY <1>1, <2>1, BoardingsFold
<1>8. TotalOf(board, 1 .. a) <= TotalOf(board, 1 .. b)
  <2>1. \A e \in 1 .. b : board[e] \in Nat
    <3>1. \A e \in 1 .. b : e \in 1 .. Len(stopEvents)
      BY <1>3, <1>4, <1>5
    <3> QED BY <1>1, <3>1, Boards
  <2>2. 1 .. a \in SUBSET (1 .. b)
    BY <1>3, <1>4
  <2> QED BY <1>7, <2>1, <2>2, TotalPart
<1>9. opened <= Charted(a) /\ Charted(a) <= c /\ Boarded(a) <= Boardings(1 .. b)
  BY <1>3, <1>4, <1>5, <1>6, <1>7, <1>8
<1> QED BY <1>2, <1>9 DEF SampleStopEvents, ByDayType

(* The join has a row for each stop event read, and names trips read.      *)
OfRoute(d, r) == {row \in Joined(d) : trips[row[1]].route = r}

LEMMA DemandAddsUp ==
  ASSUME PagesInv, view.data # <<>>, page = "demand", NEW r \in Route
  PROVE  LET d == view.data[1] IN
         /\ TripCount(d, r) <= Cardinality({t \in DOMAIN trips : trips[t].route = r})
         /\ TotalBoardings(d, r) = 0 =>
              \A e \in 1 .. opened : trips[stopEvents[e].trip].route = r => stopEvents[e].boarding = 0
         /\ TotalBoardings(d, r) \in Nat
<1> DEFINE d == view.data[1]
           T == {t \in DOMAIN trips : trips[t].route = r}
           R == OfRoute(d, r)
           E == {row[2] : row \in R} \ {NoEvent}
<1>1. PagesTypeOK /\ Readings("demand", view.data)
  BY Firsts DEF PagesInv, TablesInv, ReadingsInv, Page
<1>2. /\ d.events \in Nat /\ d.trips \in Nat /\ opened \in Nat /\ Len(stopEvents) \in Nat
      /\ Len(trips) \in Nat /\ opened <= d.events /\ d.events <= Len(stopEvents)
      /\ d.trips <= Len(trips) /\ \A e \in 1 .. d.events : stopEvents[e].trip <= d.trips
  <2>1. view.data \in Seq(Reading)
    BY <1>1 DEF PagesTypeOK, View
  <2>2. d \in Reading
    BY <2>1
  <2>3. d.events \in Nat /\ d.trips \in Nat
    BY <2>2, PagesNumbers DEF Reading
  <2>4. /\ opened <= d.events /\ d.events <= Len(stopEvents)
        /\ d.trips <= Len(trips) /\ \A e \in 1 .. d.events : stopEvents[e].trip <= d.trips
    BY <1>1 DEF Readings
  <2> QED BY <1>1, <2>3, <2>4, Tables
<1> HIDE DEF d
<1>3. /\ R \subseteq (1 .. d.trips) \X (0 .. d.events)
      /\ \A row \in R : trips[row[1]].route = r
  BY DEF OfRoute, Joined
<1>4. TripCount(d, r) = Cardinality({row[1] : row \in R})
  BY DEF TripCount, OfRoute
<1>5. TotalBoardings(d, r) = Boardings(E)
  BY DEF TotalBoardings, OfRoute
<1>6. DOMAIN trips = 1 .. Len(trips) /\ IsFiniteSet(T)
  <2>1. DOMAIN trips = 1 .. Len(trips) /\ IsFiniteSet(1 .. Len(trips))
    BY <1>1, <1>2, Tables, FS_Interval
  <2> QED BY <2>1, FS_Subset
<1>7. {row[1] : row \in R} \subseteq T
  <2> SUFFICES ASSUME NEW row \in R PROVE row[1] \in T
    OBVIOUS
  <2>1. row[1] \in 1 .. d.trips /\ trips[row[1]].route = r
    BY <1>3
  <2> QED BY <1>2, <1>6, <2>1
<1>8. TripCount(d, r) <= Cardinality(T)
  BY <1>4, <1>6, <1>7, FS_Subset
<1>9. E \subseteq 1 .. Len(stopEvents)
  <2> SUFFICES ASSUME NEW row \in R, row[2] # NoEvent PROVE row[2] \in 1 .. Len(stopEvents)
    OBVIOUS
  <2>1. row[2] \in 0 .. d.events
    BY <1>3
  <2> QED BY <1>2, <2>1 DEF NoEvent
<1>10. IsFiniteSet(E) /\ Boardings(E) = TotalOf(board, E)
  BY <1>1, <1>9, BoardingsFold
<1>11. \A e \in E : board[e] = stopEvents[e].boarding /\ board[e] \in Nat
  BY <1>1, <1>9, Boards
<1>12. TotalOf(board, E) \in Nat /\ \A e \in E : board[e] <= TotalOf(board, E)
  BY <1>10, <1>11, TotalNat
<1>13. ASSUME TotalBoardings(d, r) = 0, NEW e \in 1 .. opened, trips[stopEvents[e].trip].route = r
       PROVE  stopEvents[e].boarding = 0
  <2> DEFINE t == stopEvents[e].trip
  <2>1. e \in 1 .. d.events /\ e \in 1 .. Len(stopEvents) /\ e \in 0 .. d.events /\ e # NoEvent
    BY <1>2 DEF NoEvent
  <2>2. t \in 1 .. d.trips
    <3>1. t \in 1 .. Len(trips)
      BY <1>1, <2>1, Tables
    <3> QED BY <1>2, <2>1, <3>1
  <2>3. <<t, e>> \in R
    BY <1>13, <2>1, <2>2 DEF OfRoute, Joined
  <2>4. e \in E
    BY <2>1, <2>3
  <2>5. board[e] <= 0
    BY <1>5, <1>10, <1>12, <1>13, <2>4
  <2> QED BY <1>11, <2>4, <2>5
<1>14. TotalBoardings(d, r) \in Nat
  BY <1>5, <1>10, <1>12
<1> QED BY <1>8, <1>13, <1>14 DEF d

LEMMA PagesAddUp == PagesInv => FiguresAddUp
<1> SUFFICES ASSUME PagesInv, view.data # <<>> PROVE FiguresAddUp
  BY DEF FiguresAddUp
<1>1. page = "load" =>
        /\ opened <= Charted(view.data[1].events)
        /\ Charted(view.data[1].events) <= SampleStopEvents(view.data[3].events)
        /\ Boarded(view.data[1].events) <= ByDayType(view.data[2].events)
  BY LoadAddsUp
<1>2. ASSUME page = "demand", NEW r \in Route
      PROVE  /\ TripCount(view.data[1], r) <= Cardinality({t \in DOMAIN trips : trips[t].route = r})
             /\ SupplyStatus(view.data[1], r, RunningTrips(view.data[2], r)) = "no-active-service" =>
                  \A e \in 1 .. opened : trips[stopEvents[e].trip].route = r
                                             => stopEvents[e].boarding = 0
  <2>1. /\ TripCount(view.data[1], r) <= Cardinality({t \in DOMAIN trips : trips[t].route = r})
        /\ TotalBoardings(view.data[1], r) = 0 =>
              \A e \in 1 .. opened : trips[stopEvents[e].trip].route = r => stopEvents[e].boarding = 0
        /\ TotalBoardings(view.data[1], r) \in Nat
    BY <1>2, DemandAddsUp
  <2>2. SupplyStatus(view.data[1], r, RunningTrips(view.data[2], r)) = "no-active-service" =>
           ~(TotalBoardings(view.data[1], r) > 0)
    BY DEF SupplyStatus
  <2> QED BY <2>1, <2>2
<1>3. \A r \in Routes(view.data[1]) : r \in Route
  BY DEF Routes
<1> QED BY <1>1, <1>2, <1>3 DEF FiguresAddUp, Charted, Boarded

(***************************************************************************)
(* The tab.                                                                *)
(***************************************************************************)

TabInv == BoardInv /\ ShortInv /\ PagesInv

(* What the tab does not look at stands still.                             *)
LEMMA TabStep == [DashboardNext]_dashboardVars => [BoardNext]_boardVars /\ [PagesNext]_pagesVars
  BY DEF DashboardNext, dashboardVars

(* The inductive invariant of the tab holds of every behaviour.            *)
THEOREM TabInvariant == DashboardSpec => []TabInv
<1>1. DashboardInit => TabInv
  BY BoardInitInv, ShortInit, PagesInit_Inv DEF DashboardInit, TabInv
<1>2. TabInv /\ [DashboardNext]_dashboardVars => TabInv'
  BY TabStep, BoardNextInv, ShortNext, PagesNextInv DEF TabInv
<1> QED BY <1>1, <1>2, PTL DEF DashboardSpec

(* The variables of the tab, the tables and the requests keep their types, *)
(* and the alerts page shows rows, no more than it asked for.              *)
THEOREM DashboardTypes == DashboardSpec => []DashboardTypeOK
<1>1. TabInv => DashboardTypeOK
  BY BoardTypes DEF TabInv, PagesInv, TablesInv, DashboardTypeOK
<1> QED BY <1>1, TabInvariant, PTL

(* alerts.service.ts 13-20: a driver is told an alert was sent only if its *)
(* row is there, each alert has a row of its own, and one is lost only by  *)
(* an INSERT that failed; for any number of drivers, screens and rows.     *)
THEOREM SentAlertsAreRows == DashboardSpec => []RaisedIsRecorded
<1>1. TabInv => RaisedIsRecorded
  BY DEF TabInv, BoardInv, PostInv
<1> QED BY <1>1, TabInvariant, PTL

(* AlertsPanel.tsx 131-141: the fleet is called quiet only when it was as  *)
(* of the list, but for what is being resolved, asked for again or behind  *)
(* the limit; for any number of requests in flight and any limit.          *)
THEOREM QuietFleet == DashboardSpec => []QuietIsTrue
<1>1. TabInv => QuietIsTrue
  BY QuietBoard DEF TabInv
<1> QED BY <1>1, TabInvariant, PTL

(* RoutePerformance.tsx 71-83: the figures shown are those of the route    *)
(* selected, and what is loading has been asked for by an effect that      *)
(* still stands; for any number of routes and requests in any order.       *)
THEOREM FiguresOfTheRoute == DashboardSpec => []PageShowsItsOwn
<1>1. TabInv => PageShowsItsOwn
  BY OwnFigures DEF TabInv
<1> QED BY <1>1, TabInvariant, PTL

(* admin-analytics.service.ts 38-140: charts, samples, trips and the       *)
(* status of a route agree although each query sees a moment of its own;   *)
(* for any rows, hours and routes.                                         *)
THEOREM FiguresAgree == DashboardSpec => []FiguresAddUp
<1>1. TabInv => FiguresAddUp
  BY PagesAddUp DEF TabInv
<1> QED BY <1>1, TabInvariant, PTL

=============================================================================
