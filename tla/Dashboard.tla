------------------------------- MODULE Dashboard -------------------------------
(***************************************************************************)
(* What the page of web/static/js/app.js shows of the alerts.  A fetch     *)
(* asks for the list and the counts by requests that the database answers  *)
(* at instants of their own; fetches overlap; and alerts are pushed over   *)
(* the WebSocket meanwhile.                                                *)
(*                                                                         *)
(* An alert is its place in the order of triggered_at, and alerts are not  *)
(* stored in that order.  Every alert is firing, since nothing resolves    *)
(* one.  The counts of all and of the active alerts are two more requests  *)
(* like those for a severity, and left out.                                *)
(***************************************************************************)
EXTENDS Integers, Sequences, SequencesExt, FiniteSets

CONSTANTS
  AlertCount,   \* the alerts there will be
  Severities,   \* what GetSeverityCounts asks for, in its order
  SeverityOf,   \* the severity of each alert
  MayBeInfinite, \* the alerts whose value may be infinite
  Limit,        \* the alerts the page asks for and keeps; 100
  MaxUnread,    \* maxUnreadCount; 50
  FetchCount,   \* bound on the fetches under way at a time
  MaxPushes     \* bound on the pushed alerts that are new to the list

Alert == 1 .. AlertCount
Severity == ToSet(Severities)

ASSUME DashboardAssumption ==
  /\ {AlertCount, MaxPushes} \subseteq Nat
  /\ {Limit, MaxUnread} \subseteq Nat \ {0} /\ FetchCount \in Nat \ {0, 1}
  /\ Severities \in Seq(STRING) /\ IsInjective(Severities)
  /\ "recent" \notin Severity
  /\ SeverityOf \in [Alert -> Severity]
  /\ MayBeInfinite \subseteq Alert

VARIABLES
  stage,            \* of the page: closed, loading before a fetch has ended, then live
  infinite,         \* the alerts whose value is infinite, which JSON cannot express
  db,               \* the stored alerts
  fetches,          \* the answers each fetch under way has, the oldest first
  alerts,           \* the page's list
  severityCounts,
  unreadCount,
  readAlertIds,     \* also in localStorage, which is written with every change
  pushes            \* count for the bound

listVars == <<alerts, severityCounts, unreadCount>>
vars == <<stage, infinite, db, fetches, listVars, readAlertIds, pushes>>

Query == {"recent"} \union Severity

Unanswered == [q \in Query |-> <<>>]

\* Alerts were stored, and some of them read, before the page is opened.
Init ==
  /\ stage = "closed"
  /\ infinite \in SUBSET MayBeInfinite
  /\ db \in SUBSET Alert
  /\ fetches = <<>>
  /\ alerts = <<>>
  /\ severityCounts = [s \in Severity |-> 0]
  /\ unreadCount = 0
  /\ readAlertIds \in SUBSET db
  /\ pushes = 0

-------------------------------------------------------------------------------
(* The server *)

Store(a) ==
  /\ a \notin db
  /\ db' = db \union {a}
  /\ UNCHANGED <<stage, infinite, fetches, listVars, readAlertIds, pushes>>

Later(a) == {b \in db : b > a}

\* As many of the stored alerts as were asked for, the latest of them.
Newest == {a \in db : Cardinality(Later(a)) < Limit}

\* A faulty variant: in the order in which they were triggered.
GetOldest ==
  [n \in 1 .. Cardinality(Newest) |->
     CHOOSE a \in db : Cardinality({b \in db : b < a}) = n - 1]

\* The latest first: before the n-th come n - 1 later ones.
GetRecent ==
  [n \in 1 .. Cardinality(Newest) |-> CHOOSE a \in db : Cardinality(Later(a)) = n - 1]

CountBySeverity(s) == Cardinality({a \in db : SeverityOf[a] = s})

Had(i, q) == fetches[i][q] # <<>>

\* One query, on behalf of one request; those of the severities are one request and
\* come one after another.
Answer(i, q) ==
  /\ ~Had(i, q)
  /\ \A j, k \in DOMAIN Severities : Severities[k] = q /\ j < k => Had(i, Severities[j])
  /\ fetches' = [fetches EXCEPT ![i][q] =
       IF q = "recent" THEN <<GetRecent>> ELSE <<CountBySeverity(q)>>]
  /\ UNCHANGED <<stage, infinite, db, listVars, readAlertIds, pushes>>

-------------------------------------------------------------------------------
(* The page *)

\* slice(0, 100)
FirstOf(list) == SubSeq(list, 1, Min({Limit, Len(list)}))

Unread(a) == a \notin readAlertIds

\* Alpine calls init() and x-init calls it again: each begins a fetch, and waits for
\* it before it connects and starts an interval.
Open ==
  /\ stage = "closed"
  /\ stage' = "loading"
  /\ fetches' = <<Unanswered, Unanswered>>
  /\ UNCHANGED <<infinite, db, listVars, readAlertIds, pushes>>

\* Thirty seconds are over, or the button is pressed, which is dead while the page loads.
Begin ==
  /\ stage = "live"
  /\ Len(fetches) < FetchCount
  /\ fetches' = Append(fetches, Unanswered)
  /\ UNCHANGED <<stage, infinite, db, listVars, readAlertIds, pushes>>

Returns(i) ==
  /\ \A q \in Query : Had(i, q)
  /\ fetches' = RemoveAt(fetches, i)
  /\ stage' = "live"
  /\ UNCHANGED <<infinite, db, readAlertIds, pushes>>

\* The list has arrived, and its body is empty.
Empty(i) == ToSet(fetches[i]["recent"][1]) \intersect infinite # {}

\* A faulty variant: what was pushed is kept.
FinishMerging(i) ==
  /\ Returns(i)
  /\ ~Empty(i)
  /\ LET answer == fetches[i] IN
     /\ alerts' = SelectSeq(alerts, LAMBDA a : ~Contains(answer["recent"][1], a))
                    \o answer["recent"][1]
     /\ severityCounts' = [s \in Severity |-> answer[s][1]]
  /\ unreadCount' = Cardinality({a \in ToSet(alerts') : Unread(a)})

\* The answers replace what the page had.
Finish(i) ==
  /\ Returns(i)
  /\ ~Empty(i)
  /\ LET answer == fetches[i] IN
     /\ alerts' = answer["recent"][1]
     /\ severityCounts' = [s \in Severity |-> answer[s][1]]
  /\ unreadCount' = Cardinality({a \in ToSet(alerts') : Unread(a)})

\* One request fails, and with it all of them.  When it did so makes no difference,
\* so it is the last to be answered.
Fail(i) ==
  /\ Returns(i)
  /\ UNCHANGED listVars

\* A faulty variant: an alert that is in the list is new all the same.
AddAlways(a) ==
  /\ stage = "live"
  /\ a \in db \ infinite
  /\ pushes < MaxPushes
  /\ pushes' = pushes + 1
  /\ alerts' = FirstOf(<<a>> \o alerts)
  /\ severityCounts' = [severityCounts EXCEPT ![SeverityOf[a]] = @ + 1]
  /\ unreadCount' = IF Unread(a) /\ unreadCount < MaxUnread THEN unreadCount + 1 ELSE unreadCount
  /\ UNCHANGED <<stage, infinite, db, fetches, readAlertIds>>

\* A message of the hub: late, in any order, and once for each of the managers that
\* the two calls of init() leave behind.  An alert in the list is replaced by itself.
AddAlert(a) ==
  /\ stage = "live"
  /\ a \in db \ infinite
  /\ IF Contains(alerts, a) THEN UNCHANGED <<listVars, pushes>>
     ELSE /\ pushes < MaxPushes
          /\ pushes' = pushes + 1
          /\ alerts' = FirstOf(<<a>> \o alerts)
          /\ severityCounts' = [severityCounts EXCEPT ![SeverityOf[a]] = @ + 1]
          /\ unreadCount' =
               IF Unread(a) /\ unreadCount < MaxUnread THEN unreadCount + 1 ELSE unreadCount
  /\ UNCHANGED <<stage, infinite, db, fetches, readAlertIds>>

\* A faulty variant: of the list only what the bell shows.
MarkFirstRead ==
  /\ alerts # <<>>
  /\ readAlertIds' = readAlertIds \union {Head(alerts)}
  /\ unreadCount' = 0
  /\ UNCHANGED <<stage, infinite, db, fetches, alerts, severityCounts, pushes>>

MarkAllRead ==
  /\ stage # "closed"
  /\ readAlertIds' = readAlertIds \union ToSet(alerts)
  /\ unreadCount' = 0
  /\ UNCHANGED <<stage, infinite, db, fetches, alerts, severityCounts, pushes>>

-------------------------------------------------------------------------------
Next ==
  \/ Open \/ MarkAllRead
  \/ \E a \in Alert : Store(a) \/ AddAlert(a)
  \/ Begin
  \/ \E i \in DOMAIN fetches :
       \/ Finish(i) \/ Fail(i)
       \/ \E q \in Query : Answer(i, q)

\* The intervals run, every fetch is answered in the end, and not always in vain.
Fairness ==
  /\ WF_vars(Begin)
  /\ WF_vars(fetches # <<>> /\ (Finish(1) \/ Fail(1) \/ \E q \in Query : Answer(1, q)))
  /\ SF_vars(fetches # <<>> /\ Finish(1))

Spec == Init /\ [][Next]_vars /\ Fairness

-------------------------------------------------------------------------------
TypeOK ==
  /\ stage \in {"closed", "loading", "live"}
  /\ infinite \subseteq MayBeInfinite
  /\ db \subseteq Alert
  /\ Len(fetches) <= FetchCount
  /\ \A i \in DOMAIN fetches, q \in Query : Len(fetches[i][q]) <= 1
  /\ alerts \in Seq(Alert) /\ Len(alerts) <= Limit
  /\ severityCounts \in [Severity -> Nat]
  /\ unreadCount \in Nat
  /\ readAlertIds \subseteq db
  /\ pushes \in 0 .. MaxPushes

\* No alert is in the list twice, however often it is pushed and whichever answer,
\* older or newer than the push, arrives in between (app.js:168).
NoDuplicates == IsInjective(alerts)

\* While an unread alert is in the list the bell has a number, although it is counted
\* in three places that know different parts of the list (app.js:96, :217, :374).
BadgeNeverHides == ToSet(alerts) \ readAlertIds # {} => unreadCount > 0

\* When nothing is stored any more, the page comes to show what the database has, in
\* its order, whatever was lost, pushed late or overwritten by an older answer: unless
\* one of the newest alerts cannot be encoded (app.js:230).
CatchesUp ==
  <>[](\/ stage = "closed"
       \/ Newest \intersect infinite # {}
       \/ /\ ToSet(alerts) = Newest
          /\ \A j, k \in DOMAIN alerts : j < k => alerts[j] > alerts[k]
          /\ \A s \in Severity : severityCounts[s] = Cardinality({a \in db : SeverityOf[a] = s})
          /\ unreadCount = Cardinality(Newest \ readAlertIds))
===============================================================================
