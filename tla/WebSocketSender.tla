--------------------------- MODULE WebSocketSender ---------------------------
(***************************************************************************)
(* ws_notification-service: a consumer of RabbitMQ writes notifications to  *)
(* the web sockets of the users who are connected, or leaves them in Redis  *)
(* for the next connection, and a loop tells notification-service what      *)
(* became of them.                                                          *)
(*                                                                          *)
(* There is one process (core/gunicorn_conf.py), whose coroutines interleave *)
(* at every await. Redis is written in background tasks, each over its own  *)
(* connection: nothing orders them.                                         *)
(***************************************************************************)
EXTENDS Integers, FiniteSets

CONSTANTS
  Event,     \* ids of the notifications in the queue
  User,
  Session,   \* web socket connections, each opened once at most
  Owner,     \* the user a notification is for
  None,      \* no connection, no notification
  MaxFaults  \* bound on crashes, broken sends, failures and expiries in Redis

ASSUME SenderAssumption ==
  /\ Owner \in [Event -> User]
  /\ None \notin Session \cup Event \cup User
  /\ MaxFaults \in Nat

\* Keys of Redis: send_event, fail_event and not_send_event of a notification.
Kind == {"sent", "fail", "unsent"}
Key  == Kind \X Event

\* A background task: it sets or deletes a key.
Op == ({"set"} \X Key) \cup ({"delete"} \X ({"unsent"} \X Event))

VARIABLES
  queue,       \* the message: "absent", "ready", "unacked", "gone"
  consumer,    \* what event_handler is at, with which notification and socket
  session,     \* the handler of a connection: "absent", "scan", "serve", "left"
  user,        \* whose token a connection was opened with
  open,        \* the connections whose transport is up
  connections, \* the dict of utils/ws_connections.py
  todo,        \* keys not_send_event a handler found and has not looked at yet
  keys,        \* the keys in Redis
  pending,     \* background tasks that have not run: how many of each
  supplier,    \* what supplier_processor is at, and the keys it has read
  shown,       \* how often a notification was written to a connection
  report,      \* what notification-service was told last
  faults

vars == <<queue, consumer, session, user, open, connections, todo, keys, pending,
          supplier, shown, report, faults>>

Waiting == [step |-> "idle", event |-> None, session |-> None]
Asleep  == [step |-> "idle", unread |-> {}, sent |-> {}, fail |-> {}]

Init ==
  /\ queue       = [e \in Event |-> "absent"]
  /\ consumer    = Waiting
  /\ session     = [s \in Session |-> "absent"]
  /\ user        = [s \in Session |-> None]
  /\ open        = {}
  /\ connections = [u \in User |-> None]
  /\ todo        = [s \in Session |-> {}]
  /\ keys        = {}
  /\ pending     = [op \in Op |-> 0]
  /\ supplier    = Asleep
  /\ shown       = [e \in Event |-> [s \in Session |-> 0]]
  /\ report      = [e \in Event |-> "NONE"]
  /\ faults      = 0

Fault == faults < MaxFaults /\ faults' = faults + 1

Start(ops) == pending' = [op \in Op |-> pending[op] + IF op \in ops THEN 1 ELSE 0]

\* notification-service publishes the notification.
Enqueue(e) ==
  /\ queue[e] = "absent"
  /\ queue' = [queue EXCEPT ![e] = "ready"]
  /\ UNCHANGED <<consumer, session, user, open, connections, todo, keys, pending, supplier, shown,
                 report, faults>>

-----------------------------------------------------------------------------
(* The consumer handles one message after the other.                        *)

Take(e) ==
  /\ consumer = Waiting /\ queue[e] = "ready"
  /\ queue' = [queue EXCEPT ![e] = "unacked"]

Write(e, s) == shown' = [shown EXCEPT ![e][s] = @ + 1]

\* The user has a connection: the message is written to it.
HandleOnline(e) ==
  /\ Take(e)
  /\ connections[Owner[e]] \in open
  /\ Write(e, connections[Owner[e]])
  /\ consumer' = [step |-> "written", event |-> e, session |-> connections[Owner[e]]]
  /\ UNCHANGED <<session, user, open, connections, todo, keys, pending, supplier, report, faults>>

ConfirmOnline ==
  /\ consumer.step = "written"
  /\ Start({<<"set", <<"sent", consumer.event>>>>})
  /\ consumer' = [consumer EXCEPT !.step = "ack"]
  /\ UNCHANGED <<queue, session, user, open, connections, todo, keys, supplier, shown, report,
                 faults>>

\* The connection is gone and its handler has not noticed: the write raises, and
\* the message is refused without a trace in Redis.
HandleBroken(e) ==
  /\ Fault /\ Take(e)
  /\ connections[Owner[e]] # None /\ connections[Owner[e]] \notin open
  /\ consumer' = [step |-> "ack", event |-> e, session |-> None]
  /\ UNCHANGED <<session, user, open, connections, todo, keys, pending, supplier, shown, report>>

\* The connection breaks while the write waits for the transport.
WriteRaises ==
  /\ Fault
  /\ consumer.step = "written" /\ consumer.session \notin open
  /\ consumer' = [consumer EXCEPT !.step = "ack"]
  /\ UNCHANGED <<queue, session, user, open, connections, todo, keys, pending, supplier, shown,
                 report>>

\* Mutation: only the failure is noted.
HandleOffline_forget(e) ==
  /\ Take(e)
  /\ connections[Owner[e]] \notin open
  /\ Start({<<"set", <<"fail", e>>>>})
  /\ consumer' = [step |-> "ack", event |-> e, session |-> None]
  /\ UNCHANGED <<session, user, open, connections, todo, keys, supplier, shown, report, faults>>

\* No connection, or one that is closed: the notification and the failure are
\* both put into Redis.
HandleOffline(e) ==
  /\ Take(e)
  /\ connections[Owner[e]] \notin open
  /\ Start({<<"set", <<"unsent", e>>>>, <<"set", <<"fail", e>>>>})
  /\ consumer' = [step |-> "ack", event |-> e, session |-> None]
  /\ UNCHANGED <<session, user, open, connections, todo, keys, supplier, shown, report, faults>>

\* ack, or nack without requeue: either way the message leaves the queue, since
\* no dead letter queue is bound to the key it would be given.
Settle ==
  /\ consumer.step = "ack"
  /\ queue' = [queue EXCEPT ![consumer.event] = "gone"]
  /\ consumer' = Waiting
  /\ UNCHANGED <<session, user, open, connections, todo, keys, pending, supplier, shown, report,
                 faults>>

-----------------------------------------------------------------------------
(* The handlers of the connections.                                         *)

Connect(s, u) ==
  /\ session[s] = "absent"
  /\ session' = [session EXCEPT ![s] = "scan"]
  /\ user' = [user EXCEPT ![s] = u]
  /\ open' = open \cup {s}
  /\ connections' = [connections EXCEPT ![u] = s]
  /\ UNCHANGED <<queue, consumer, todo, keys, pending, supplier, shown, report, faults>>

\* The client or the network ends the connection; the handler learns of it later.
Disconnect(s) ==
  /\ s \in open
  /\ open' = open \ {s}
  /\ UNCHANGED <<queue, consumer, session, user, connections, todo, keys, pending, supplier,
                 shown,
                 report, faults>>

\* The finally of the handler removes whatever the dict holds for the user.
Leave(s) ==
  /\ session' = [session EXCEPT ![s] = "left"]
  /\ open' = open \ {s}
  /\ todo' = [todo EXCEPT ![s] = {}]
  /\ connections' = [connections EXCEPT ![user[s]] = None]

\* Mutation: the keys are looked for without the user.
Scan_all(s) ==
  /\ session[s] = "scan"
  /\ session' = [session EXCEPT ![s] = "serve"]
  /\ todo' = [todo EXCEPT ![s] = {e \in Event : <<"unsent", e>> \in keys}]
  /\ UNCHANGED <<queue, consumer, user, open, connections, keys, pending, supplier, shown,
                 report, faults>>

Scan(s) ==
  /\ session[s] = "scan"
  /\ session' = [session EXCEPT ![s] = "serve"]
  /\ todo' = [todo EXCEPT ![s] =
       {e \in Event : <<"unsent", e>> \in keys /\ Owner[e] = user[s]}]
  /\ UNCHANGED <<queue, consumer, user, open, connections, keys, pending, supplier, shown,
                 report, faults>>

\* Redis does not answer: None cannot be iterated, and the handler closes.
ScanFails(s) ==
  /\ Fault /\ session[s] = "scan"
  /\ Leave(s)
  /\ UNCHANGED <<queue, consumer, user, keys, pending, supplier, shown, report>>

\* One notification that waited for the user.
Flush(s, e) ==
  /\ session[s] = "serve" /\ e \in todo[s]
  /\ <<"unsent", e>> \in keys /\ s \in open
  /\ Write(e, s)
  /\ Start({<<"set", <<"sent", e>>>>, <<"delete", <<"unsent", e>>>>})
  /\ todo' = [todo EXCEPT ![s] = @ \ {e}]
  /\ UNCHANGED <<queue, consumer, session, user, open, connections, keys, supplier, report,
                 faults>>

\* Another connection has been faster, or the key has expired.
FlushGone(s, e) ==
  /\ session[s] = "serve" /\ e \in todo[s]
  /\ <<"unsent", e>> \notin keys
  /\ todo' = [todo EXCEPT ![s] = @ \ {e}]
  /\ UNCHANGED <<queue, consumer, session, user, open, connections, keys, pending, supplier,
                 shown,
                 report, faults>>

FlushRaises(s) ==
  /\ session[s] = "serve" /\ s \notin open
  /\ \E e \in todo[s] : <<"unsent", e>> \in keys
  /\ Leave(s)
  /\ UNCHANGED <<queue, consumer, user, keys, pending, supplier, shown, report, faults>>

\* The loop over the messages of the client, which are ignored, ends.
Closed(s) ==
  /\ session[s] = "serve" /\ todo[s] = {} /\ s \notin open
  /\ Leave(s)
  /\ UNCHANGED <<queue, consumer, user, keys, pending, supplier, shown, report, faults>>

-----------------------------------------------------------------------------
(* Background tasks and Redis.                                              *)

Done(op) == pending' = [pending EXCEPT ![op] = @ - 1]

RunTask(op) ==
  /\ pending[op] > 0
  /\ Done(op)
  /\ keys' = IF op[1] = "set" THEN keys \cup {op[2]} ELSE keys \ {op[2]}
  /\ UNCHANGED <<queue, consumer, session, user, open, connections, todo, supplier, shown,
                 report, faults>>

\* Mutation: a failure is taken for the end of a task that never ran.
TaskFails_none(op) ==
  /\ Fault
  /\ Done(op)
  /\ UNCHANGED <<queue, consumer, session, user, open, connections, todo, keys, supplier, shown,
                 report>>

\* Redis does not answer; the task only logs it.
TaskFails(op) ==
  /\ Fault /\ pending[op] > 0
  /\ Done(op)
  /\ UNCHANGED <<queue, consumer, session, user, open, connections, todo, keys, supplier, shown,
                 report>>

\* cache_expire_time has passed.
Expire(k) ==
  /\ Fault /\ k \in keys
  /\ keys' = keys \ {k}
  /\ UNCHANGED <<queue, consumer, session, user, open, connections, todo, pending, supplier,
                 shown, report>>

-----------------------------------------------------------------------------
(* supplier_processor.                                                      *)

Wake ==
  /\ supplier = Asleep
  /\ \E k \in keys : k[1] \in {"sent", "fail"}
  /\ supplier' = [Asleep EXCEPT !.step = "read", !.unread = {"sent", "fail"}]
  /\ UNCHANGED <<queue, consumer, session, user, open, connections, todo, keys, pending, shown,
                 report, faults>>

Reading == supplier.step \in {"read", "partial"}

\* The two kinds of keys are read concurrently.
ReadKeys(kind) ==
  /\ Reading /\ kind \in supplier.unread
  /\ LET found == {e \in Event : <<kind, e>> \in keys}
     IN  supplier' = IF kind = "sent"
                     THEN [supplier EXCEPT !.unread = @ \ {kind}, !.sent = found]
                     ELSE [supplier EXCEPT !.unread = @ \ {kind}, !.fail = found]
  /\ UNCHANGED <<queue, consumer, session, user, open, connections, todo, keys, pending, shown,
                 report, faults>>

\* A scan that gets no answer counts as an empty one, until its keys are to be deleted;
\* without an answer to mget the round is over.
ReadFails(kind) ==
  /\ Fault
  /\ Reading /\ kind \in supplier.unread
  /\ \/ supplier' = [supplier EXCEPT !.step = "partial", !.unread = @ \ {kind}]
     \/ supplier' = Asleep
  /\ UNCHANGED <<queue, consumer, session, user, open, connections, todo, keys, pending, shown,
                 report>>

Found == supplier.sent \cup supplier.fail

NothingFound ==
  /\ Reading /\ supplier.unread = {} /\ Found = {}
  /\ supplier' = Asleep
  /\ UNCHANGED <<queue, consumer, session, user, open, connections, todo, keys, pending, shown,
                 report, faults>>

\* Mutation: whatever is in Redis counts as sent.
Told_all == [e \in Event |-> IF e \in Found THEN "SENT" ELSE report[e]]

\* A notification that is in both sets was sent.
Told ==
  [e \in Event |-> IF e \in supplier.sent THEN "SENT"
                   ELSE IF e \in supplier.fail THEN "SENDING_ERROR" ELSE report[e]]

\* The POST to notification-service, which answers. Without the keys of both kinds none is
\* deleted.
Post ==
  /\ Reading /\ supplier.unread = {} /\ Found # {}
  /\ report' = Told
  /\ supplier' = IF supplier.step = "read" THEN [supplier EXCEPT !.step = "destroy"] ELSE Asleep
  /\ UNCHANGED <<queue, consumer, session, user, open, connections, todo, keys, pending, shown,
                 faults>>

\* It fails, or only its answer is lost: the keys stay for the next round.
PostFails ==
  /\ Fault
  /\ Reading /\ supplier.unread = {} /\ Found # {}
  /\ report' \in {report, Told}
  /\ supplier' = Asleep
  /\ UNCHANGED <<queue, consumer, session, user, open, connections, todo, keys, pending, shown>>

Reported == ({"sent"} \X supplier.sent) \cup ({"fail"} \X supplier.fail)

\* Mutation: everything that is in Redis by now is dropped.
Destroy_all ==
  /\ supplier.step = "destroy"
  /\ keys' = {k \in keys : k[1] = "unsent"}
  /\ supplier' = Asleep
  /\ UNCHANGED <<queue, consumer, session, user, open, connections, todo, pending, shown, report,
                 faults>>

Destroy ==
  /\ supplier.step = "destroy"
  /\ keys' = keys \ Reported
  /\ supplier' = Asleep
  /\ UNCHANGED <<queue, consumer, session, user, open, connections, todo, pending, shown, report,
                 faults>>

DestroyFails ==
  /\ Fault
  /\ supplier.step = "destroy"
  /\ supplier' = Asleep
  /\ UNCHANGED <<queue, consumer, session, user, open, connections, todo, keys, pending, shown,
                 report>>

-----------------------------------------------------------------------------
\* The process stops and starts again: what it held in memory is gone, and the
\* broker delivers the message it had not acknowledged once more.
Restart ==
  /\ Fault
  /\ queue' = [e \in Event |-> IF queue[e] = "unacked" THEN "ready" ELSE queue[e]]
  /\ consumer' = Waiting
  /\ session' = [s \in Session |-> IF session[s] = "absent" THEN "absent" ELSE "left"]
  /\ open' = {}
  /\ connections' = [u \in User |-> None]
  /\ todo' = [s \in Session |-> {}]
  /\ pending' = [op \in Op |-> 0]
  /\ supplier' = Asleep
  /\ UNCHANGED <<user, keys, shown, report>>

Consume ==
  \/ \E e \in Event : HandleOnline(e) \/ HandleOffline(e)
  \/ ConfirmOnline \/ Settle

Serve(s) ==
  \/ Scan(s) \/ FlushRaises(s) \/ Closed(s)
  \/ \E e \in Event : Flush(s, e) \/ FlushGone(s, e)

Supply ==
  \/ Wake \/ NothingFound \/ Post \/ Destroy
  \/ \E kind \in {"sent", "fail"} : ReadKeys(kind)

Failure ==
  \/ \E e \in Event : HandleBroken(e)
  \/ \E s \in Session : ScanFails(s)
  \/ \E op \in Op : TaskFails(op)
  \/ \E k \in Key : Expire(k)
  \/ \E kind \in {"sent", "fail"} : ReadFails(kind)
  \/ WriteRaises \/ PostFails \/ DestroyFails \/ Restart

Next ==
  \/ \E e \in Event : Enqueue(e)
  \/ Consume
  \/ \E s \in Session, u \in User : Connect(s, u)
  \/ \E s \in Session : Disconnect(s) \/ Serve(s)
  \/ \E op \in Op : RunTask(op)
  \/ Supply
  \/ Failure

\* The event loop runs every coroutine on; nobody has to connect or to go.
Spec ==
  /\ Init /\ [][Next]_vars
  /\ WF_vars(Consume) /\ WF_vars(Supply)
  /\ \A s \in Session : WF_vars(Serve(s))
  /\ \A op \in Op : WF_vars(RunTask(op))

-----------------------------------------------------------------------------
(* Properties.                                                              *)

TypeOK ==
  /\ queue \in [Event -> {"absent", "ready", "unacked", "gone"}]
  /\ consumer \in [step : {"idle", "written", "ack"}, event : Event \cup {None},
                   session : Session \cup {None}]
  /\ session \in [Session -> {"absent", "scan", "serve", "left"}]
  /\ user \in [Session -> User \cup {None}]
  /\ open \subseteq Session
  /\ connections \in [User -> Session \cup {None}]
  /\ todo \in [Session -> SUBSET Event]
  /\ keys \subseteq Key
  /\ pending \in [Op -> Nat]
  /\ supplier \in [step : {"idle", "read", "partial", "destroy"}, unread : SUBSET {"sent", "fail"},
                   sent : SUBSET Event, fail : SUBSET Event]
  /\ shown \in [Event -> [Session -> Nat]]
  /\ report \in [Event -> {"NONE", "SENT", "SENDING_ERROR"}]
  /\ faults \in 0 .. MaxFaults

Shown(e)  == \E s \in Session : shown[e][s] > 0
Stored(e) == <<"unsent", e>> \in keys \/ pending[<<"set", <<"unsent", e>>>>] > 0

\* notification-service is told that a notification was sent only after it was
\* written to a connection, whatever fails in between.
SentMeansShown == \A e \in Event : report[e] = "SENT" => Shown(e)

\* A connection shows a notification of its own user only, and once; once more
\* for each failure.
ShownToOwnerOnce ==
  \A e \in Event, s \in Session :
    /\ shown[e][s] > 0 => Owner[e] = user[s]
    /\ shown[e][s] <= 1 + faults

\* Without failures a message that left the queue was shown or waits in Redis for
\* the next connection.
NothingVanishes ==
  \A e \in Event : queue[e] = "gone" /\ faults = 0 => Shown(e) \/ Stored(e)

\* Without failures every notification is reported, one way or the other.
EventuallyReported == \A e \in Event : queue[e] = "ready" ~> report[e] # "NONE" \/ faults > 0

\* Whoever has a connection is found in the dict, as the README promises. The
\* code breaks it: the handler of an older connection removes the newer one.
ActiveSessionIsKnown ==
  \A s \in Session :
    session[s] = "serve" /\ s \in open => connections[user[s]] # None

=============================================================================
