------------------------------ MODULE Realtime ------------------------------
(***************************************************************************)
(* Live updates of one topic, from the trigger that notifies to the screen   *)
(* that refetches: the LISTEN connection of an instance (lib/realtime/hub.ts),*)
(* one event stream on it (stream.ts, client.ts) and the tab that reads it   *)
(* (PropertyRealtime.tsx).  A version stands for the data of the topic; it   *)
(* is also the id of the transaction that wrote it.                          *)
(***************************************************************************)
EXTENDS Naturals, Sequences

CONSTANTS
  MaxVersion,  \* bound: transactions
  MaxWire      \* bound: notifications on their way to the hub, events to the client

ASSUME RealtimeAssumption == MaxVersion \in Nat \ {0} /\ MaxWire \in Nat \ {0}

VARIABLES
  db,       \* version committed
  conn,     \* LISTEN connection: up, silent (dropped, not noticed), down
  inbox,    \* notifications on their way to the hub
  stream,   \* closed, asked (request sent), open (subscribed to the hub)
  pending,  \* transaction of the merged change, 0: none
  wire,     \* events on their way to the client
  status,   \* what the screens go by: connecting, live
  visible,  \* the tab is shown
  dirty,    \* changed while hidden
  timer,    \* a refetch is scheduled
  seen,     \* transactions applied
  fetch,    \* the query: where it is, version read, begun since `since`, to be repeated
  data,     \* the cached answer: version, answered since connectedAt
  blind     \* history: reconcile counted as fresh what was asked before the
            \* stream heard notifications

hubVars == <<db, conn, inbox>>
streamVars == <<stream, pending, wire>>
tabVars == <<status, visible, dirty, timer, seen>>
queryVars == <<fetch, data, blind>>
realtimeVars == <<hubVars, streamVars, tabVars, queryVars>>

Event == [ev : {"ready", "live", "degraded", "change"}, x : 0..MaxVersion]
Ev(name, x) == [ev |-> name, x |-> x]
Hears == stream = "open" /\ conn # "down"
Pending == fetch.pc \in {"asked", "answer"}

\* A query begins now; what it reads is after all that was heard before.
Begun == [pc |-> "asked", ver |-> 0, recent |-> stream # "closed", again |-> FALSE, heard |-> Hears]
Ended(how) == [pc |-> how, ver |-> 0, recent |-> FALSE, again |-> FALSE, heard |-> FALSE]

----------------------------------------------------------------------------
(* The database and the hub.                                                *)

Emit(e) == IF stream = "open" THEN Len(wire) < MaxWire /\ wire' = Append(wire, e)
                              ELSE UNCHANGED wire

\* A transaction commits: its notifications are sent, one for each set of topics
\* its tables name, to whoever listens.
Commit ==
  /\ db < MaxVersion
  /\ db' = db + 1
  /\ \E n \in 1..2 :
       /\ Len(inbox) + n <= MaxWire
       /\ inbox' = IF conn = "up" THEN inbox \o [i \in 1..n |-> db + 1] ELSE inbox
  /\ UNCHANGED <<conn, streamVars, tabVars, queryVars>>

\* The hub emits a notification: the stream merges it with those of the last 200 ms.
Notification ==
  /\ inbox # <<>> /\ inbox' = Tail(inbox)
  /\ pending' = IF stream = "open" THEN Head(inbox) ELSE pending
  /\ UNCHANGED <<db, conn, stream, wire, tabVars, queryVars>>

Silent ==    \* dropped by the network, without a reset
  /\ conn = "up"
  /\ conn' = "silent" /\ inbox' = <<>>
  /\ UNCHANGED <<db, streamVars, tabVars, queryVars>>

\* lost(): an error, the end, or a ping unanswered.
Lost ==
  /\ conn # "down"
  /\ conn' = "down" /\ inbox' = <<>>
  /\ Emit(Ev("degraded", 0))
  /\ fetch' = [fetch EXCEPT !.heard = FALSE] /\ data' = [data EXCEPT !.heard = FALSE]
  /\ UNCHANGED <<db, stream, pending, tabVars, blind>>

\* connect(): both channels are listened to before the hub is live.
Listen ==
  /\ conn = "down" /\ conn' = "up"
  /\ Emit(Ev("live", 0))
  /\ UNCHANGED <<db, inbox, stream, pending, tabVars, queryVars>>

----------------------------------------------------------------------------
(* The stream.                                                              *)

Flush ==
  /\ pending # 0 /\ Emit(Ev("change", pending))
  /\ pending' = 0
  /\ UNCHANGED <<hubVars, stream, tabVars, queryVars>>

Accept ==    \* subscribed, then told so
  /\ stream = "asked"
  /\ stream' = "open" /\ wire' = <<Ev("ready", IF conn # "down" THEN 1 ELSE 0)>> /\ pending' = 0
  /\ UNCHANGED <<hubVars, tabVars, queryVars>>

\* Expired, access changed, network error, hidden for a minute, offline: the merged
\* change and the events not read are lost.
EndStream ==
  /\ stream # "closed"
  /\ stream' = "closed" /\ pending' = 0 /\ wire' = <<>>
  /\ status' = "connecting"
  /\ UNCHANGED <<hubVars, visible, dirty, timer, seen, queryVars>>

\* connect(): connectedAt is now; a query under way began in the last second or before.
ConnectStream ==
  /\ stream = "closed" /\ stream' = "asked"
  /\ status' = "connecting"
  /\ \E b \in BOOLEAN : fetch' = [fetch EXCEPT !.recent = b /\ Pending, !.heard = FALSE]
  /\ data' = [data EXCEPT !.after = FALSE, !.heard = FALSE]
  /\ UNCHANGED <<hubVars, pending, wire, visible, dirty, timer, seen, blind>>

----------------------------------------------------------------------------
(* The tab.                                                                 *)

MutSchedule(wanted) ==    \* what changes while the tab is hidden is dropped
  timer' = (timer \/ (wanted /\ visible)) /\ UNCHANGED dirty
\* schedule(): while hidden, for later.
Schedule(wanted) ==
  IF visible THEN timer' = (timer \/ wanted) /\ UNCHANGED dirty
             ELSE dirty' = (dirty \/ wanted) /\ UNCHANGED timer

\* reconcile(since): data answered before is refetched, unless a query begun since
\* is under way.  A query under way as `since` is now began in the last second or before.
Reconcile(since, recent) ==
  LET asked == Pending /\ recent
      answered == since = "connect" /\ data.after
  IN /\ Schedule(~asked /\ ~answered)
     /\ blind' = IF asked THEN ~fetch.heard ELSE answered /\ ~data.heard

Receive ==
  /\ wire # <<>> /\ wire' = Tail(wire)
  /\ LET e == Head(wire)
     IN CASE e.ev = "ready" ->
               /\ status' = IF e.x = 1 THEN "live" ELSE "connecting"
               /\ IF e.x = 1 THEN Reconcile("connect", fetch.recent)
                             ELSE UNCHANGED <<timer, dirty, blind>>
               /\ UNCHANGED seen
          [] e.ev = "live" ->
               /\ status' = "live"
               /\ \E b \in BOOLEAN : Reconcile("now", b)
               /\ UNCHANGED seen
          [] e.ev = "degraded" ->
               status' = "connecting" /\ UNCHANGED <<timer, dirty, blind, seen>>
          [] e.ev = "change" ->
               Schedule(e.x \notin seen) /\ seen' = seen \cup {e.x} /\ UNCHANGED <<status, blind>>
  /\ UNCHANGED <<hubVars, stream, pending, visible, fetch, data>>

\* Tags invalidated while a query is under way: it is repeated when it has ended.
Invalidated == IF Pending THEN [fetch EXCEPT !.again = TRUE] ELSE Begun

Refetch ==    \* the timer fires
  /\ timer /\ timer' = FALSE
  /\ fetch' = Invalidated
  /\ blind' = (Pending /\ blind)
  /\ UNCHANGED <<hubVars, streamVars, status, visible, dirty, seen, data>>

Hide ==
  /\ visible /\ visible' = FALSE
  /\ UNCHANGED <<hubVars, streamVars, status, dirty, timer, seen, queryVars>>

Show ==
  /\ ~visible /\ visible' = TRUE
  /\ timer' = (timer \/ dirty) /\ dirty' = FALSE
  /\ UNCHANGED <<hubVars, streamVars, status, seen, queryVars>>

----------------------------------------------------------------------------
(* The query, as the client cache runs it.                                  *)

Begin ==    \* a poll, a page opened, the safety refetch
  /\ ~Pending
  /\ fetch' = Begun /\ blind' = FALSE
  /\ UNCHANGED <<hubVars, streamVars, tabVars, data>>

Read ==
  /\ fetch.pc = "asked"
  /\ fetch' = [fetch EXCEPT !.pc = "answer", !.ver = db]
  /\ UNCHANGED <<hubVars, streamVars, tabVars, data, blind>>

Arrive ==
  /\ fetch.pc = "answer"
  /\ data' = [ver |-> fetch.ver, after |-> TRUE, heard |-> fetch.heard]
  /\ fetch' = IF fetch.again THEN Begun ELSE Ended("done")
  /\ blind' = (blind /\ ~fetch.again)
  /\ UNCHANGED <<hubVars, streamVars, tabVars>>

Fail ==    \* the screen shows the error
  /\ Pending
  /\ fetch' = IF fetch.again THEN Begun ELSE Ended("failed")
  /\ blind' = (blind /\ ~fetch.again)
  /\ UNCHANGED <<hubVars, streamVars, tabVars, data>>

----------------------------------------------------------------------------

RealtimeInit ==
  /\ db = 0 /\ conn = "down" /\ inbox = <<>>
  /\ stream = "closed" /\ pending = 0 /\ wire = <<>>
  /\ status = "connecting" /\ visible = TRUE /\ dirty = FALSE /\ timer = FALSE /\ seen = {}
  /\ fetch = Ended("asked")
  /\ data = [ver |-> 0, after |-> FALSE, heard |-> FALSE]
  /\ blind = FALSE

RealtimeNext ==
  \/ Commit \/ Notification \/ Silent \/ Lost \/ Listen
  \/ Flush \/ Accept \/ EndStream \/ ConnectStream
  \/ Receive \/ Refetch \/ Hide \/ Show
  \/ Begin \/ Read \/ Arrive \/ Fail

----------------------------------------------------------------------------
(* Properties.                                                              *)

RealtimeTypeOK ==
  /\ db \in 0..MaxVersion /\ pending \in 0..MaxVersion /\ seen \subseteq 1..MaxVersion
  /\ conn \in {"up", "silent", "down"} /\ inbox \in Seq(1..MaxVersion)
  /\ stream \in {"closed", "asked", "open"} /\ status \in {"connecting", "live"}
  /\ wire \in Seq(Event) /\ Len(wire) <= MaxWire
  /\ {visible, dirty, timer, blind} \subseteq BOOLEAN
  /\ fetch \in [pc : {"asked", "answer", "done", "failed"}, ver : 0..MaxVersion,
                recent : BOOLEAN, again : BOOLEAN, heard : BOOLEAN]
  /\ data \in [ver : 0..MaxVersion, after : BOOLEAN, heard : BOOLEAN]

\* A shown tab whose topic is live, with nothing on its way to it, shows what is
\* committed: no change is lost between the trigger and the screen, whatever of the
\* connections is dropped, except what `blind` names.
Fresh ==
  (/\ visible /\ status = "live" /\ stream = "open" /\ conn = "up"
   /\ inbox = <<>> /\ pending = 0 /\ wire = <<>> /\ ~timer /\ fetch.pc = "done")
  => data.ver = db \/ blind
=============================================================================
