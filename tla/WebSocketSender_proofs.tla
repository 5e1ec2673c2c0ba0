------------------------ MODULE WebSocketSender_proofs ------------------------
(***************************************************************************)
(* What ws_notification-service reports as sent was shown, to its owner     *)
(* and once, and without failures nothing is lost: for every set of         *)
(* notifications, users and connections and any number of failures.         *)
(***************************************************************************)
EXTENDS WebSocketSender, TLAPS

-----------------------------------------------------------------------------
(* The inductive invariant.                                                 *)

\* The consumer is idle, or has a notification in hand.
ConsumerInv == consumer.step # "idle" => consumer.event \in Event

\* The dict holds connections of the user that its handler has not left, and a
\* handler has only notifications of its user to show.
SessionInv ==
  /\ \A s \in Session : session[s] = "absent" => user[s] = None
  /\ \A u \in User : connections[u] # None =>
       /\ session[connections[u]] \in {"scan", "serve"}
       /\ user[connections[u]] = u
  /\ \A s \in Session : \A e \in todo[s] : session[s] = "serve" /\ Owner[e] = user[s]

\* Whatever says that a notification was sent, or drops it, comes after it was shown.
Unsaid(e) ==
  /\ report[e] # "SENT" /\ e \notin supplier.sent /\ <<"sent", e>> \notin keys
  /\ pending[<<"set", <<"sent", e>>>>] = 0
  /\ pending[<<"delete", <<"unsent", e>>>>] = 0
  /\ ~ (consumer.step = "written" /\ consumer.event = e)

EvidenceInv(e) == Shown(e) \/ Unsaid(e)

OwnerInv(e, s) == shown[e][s] > 0 => Owner[e] = user[s]

\* A connection is given a notification by the consumer once, and once by its handler.
TwiceInv(e, s) ==
  shown[e][s] + (IF session[s] \in {"absent", "scan"} \/ e \in todo[s] THEN 1 ELSE 0)
              + (IF queue[e] \in {"absent", "ready"} /\ session[s] # "left" THEN 1 ELSE 0) <= 2

\* Redis or a handler has the notification for a later connection.
Kept(e) == Stored(e) \/ \E s \in Session : e \in todo[s]

\* Without failures the consumer handles a notification once, and either shows it
\* or puts it into Redis.
OnceInv(e, s) ==
  /\ queue[e] \in {"absent", "ready"} => ~ Kept(e) /\ shown[e][s] = 0
  /\ shown[e][s] > 0 =>
       shown[e][s] = 1 /\ e \notin todo[s] /\ (session[s] = "scan" => ~ Kept(e))

\* Without failures a message that leaves the queue was shown or is in Redis.
KeptInv(e) ==
  queue[e] = "gone" \/ (consumer.step = "ack" /\ consumer.event = e) => Shown(e) \/ Stored(e)

SenderInv ==
  /\ TypeOK /\ ConsumerInv /\ SessionInv
  /\ \A e \in Event : EvidenceInv(e)
  /\ \A e \in Event, s \in Session : OwnerInv(e, s) /\ TwiceInv(e, s)
  /\ faults = 0 => \A e \in Event : KeptInv(e) /\ \A s \in Session : OnceInv(e, s)

-----------------------------------------------------------------------------
(* Background tasks.                                                        *)

LEMMA OpIsTask ==
  /\ \A k \in Kind, e \in Event : <<k, e>> \in Key /\ <<"set", <<k, e>>>> \in Op
  /\ \A e \in Event : <<"delete", <<"unsent", e>>>> \in Op
BY DEF Op, Key, Kind

LEMMA TaskOfOp ==
  ASSUME NEW op \in Op
  PROVE  \/ \E k \in Kind, e \in Event : op = <<"set", <<k, e>>>>
         \/ \E e \in Event : op = <<"delete", <<"unsent", e>>>>
BY DEF Op, Key

\* A task that starts is pending once more, the others as before.
LEMMA StartEffect ==
  ASSUME TypeOK, NEW ops, Start(ops)
  PROVE  /\ pending' \in [Op -> Nat]
         /\ \A op \in Op : pending'[op] >= pending[op]
         /\ \A op \in Op \ ops : pending'[op] = pending[op]
         /\ \A op \in Op \cap ops : pending'[op] > 0
BY DEF TypeOK, Start

\* A task that has run or failed is pending no more.
LEMMA DoneEffect ==
  ASSUME TypeOK, NEW op \in Op, pending[op] > 0, Done(op)
  PROVE  /\ pending' \in [Op -> Nat]
         /\ \A o \in Op : pending'[o] <= pending[o]
         /\ \A o \in Op \ {op} : pending'[o] = pending[o]
BY DEF TypeOK, Done

\* What a task does to the keys.
LEMMA RunEffect ==
  ASSUME TypeOK, NEW op \in Op, RunTask(op)
  PROVE  /\ pending' \in [Op -> Nat] /\ keys' \subseteq Key
         /\ \A o \in Op : pending'[o] <= pending[o]
         /\ \A k \in keys' : k \in keys \/ pending[<<"set", k>>] > 0
         /\ \A e \in Event :
              Stored(e) => Stored(e)' \/ pending[<<"delete", <<"unsent", e>>>>] > 0
<1>1. /\ pending' \in [Op -> Nat]
      /\ \A o \in Op : pending'[o] <= pending[o]
      /\ \A o \in Op \ {op} : pending'[o] = pending[o]
  BY DoneEffect DEF RunTask
<1>2. CASE \E k \in Kind, e \in Event : op = <<"set", <<k, e>>>>
  <2>1. PICK k \in Kind, e \in Event : op = <<"set", <<k, e>>>>
    BY <1>2
  <2>2. keys' = keys \cup {<<k, e>>} /\ pending[<<"set", <<k, e>>>>] > 0
    BY <2>1 DEF RunTask
  <2>3. ASSUME NEW f \in Event, Stored(f) PROVE Stored(f)'
    <3>1. CASE op = <<"set", <<"unsent", f>>>>
      BY <2>1, <2>2, <3>1 DEF Stored
    <3>2. CASE op # <<"set", <<"unsent", f>>>>
      <4>1. pending'[<<"set", <<"unsent", f>>>>] = pending[<<"set", <<"unsent", f>>>>]
        BY <1>1, <3>2, OpIsTask DEF Kind
      <4> QED BY <2>2, <2>3, <4>1 DEF Stored
    <3> QED BY <3>1, <3>2
  <2>4. keys \subseteq Key /\ <<k, e>> \in Key
    BY OpIsTask DEF TypeOK
  <2>5. \A f \in keys' : f \in keys \/ pending[<<"set", f>>] > 0
    BY <2>2
  <2> QED BY <1>1, <2>2, <2>3, <2>4, <2>5
<1>3. CASE \E e \in Event : op = <<"delete", <<"unsent", e>>>>
  <2>1. PICK e \in Event : op = <<"delete", <<"unsent", e>>>>
    BY <1>3
  <2>2. keys' = keys \ {<<"unsent", e>>} /\ pending[<<"delete", <<"unsent", e>>>>] > 0
    BY <2>1 DEF RunTask
  <2>3. ASSUME NEW f \in Event, Stored(f), f # e PROVE Stored(f)'
    <3>1. pending'[<<"set", <<"unsent", f>>>>] = pending[<<"set", <<"unsent", f>>>>]
      BY <1>1, <2>1, OpIsTask DEF Kind
    <3> QED BY <2>2, <2>3, <3>1 DEF Stored
  <2> QED BY <1>1, <2>2, <2>3 DEF TypeOK
<1> QED BY <1>2, <1>3, TaskOfOp

-----------------------------------------------------------------------------
(* Types.                                                                   *)

LEMMA InitType == Init => TypeOK
BY SenderAssumption DEF Init, TypeOK, Waiting, Asleep

LEMMA FaultType ==
  ASSUME TypeOK, Fault
  PROVE  faults' \in 0 .. MaxFaults /\ faults' > 0
BY SenderAssumption DEF TypeOK, Fault

LEMMA WriteType ==
  ASSUME TypeOK, NEW e \in Event, NEW s \in Session, Write(e, s)
  PROVE  /\ shown' \in [Event -> [Session -> Nat]]
         /\ shown'[e][s] = shown[e][s] + 1
         /\ \A f \in Event, t \in Session : <<f, t>> # <<e, s>> => shown'[f][t] = shown[f][t]
<1>1. [shown[e] EXCEPT ![s] = @ + 1] \in [Session -> Nat]
  BY DEF TypeOK
<1> QED BY <1>1 DEF TypeOK, Write

LEMMA LeaveType ==
  ASSUME TypeOK, NEW s \in Session, Leave(s)
  PROVE  /\ session' \in [Session -> {"absent", "scan", "serve", "left"}]
         /\ open' \subseteq Session
         /\ todo' \in [Session -> SUBSET Event]
         /\ connections' \in [User -> Session \cup {None}]
BY DEF TypeOK, Leave

LEMMA ConsumeType == TypeOK /\ ConsumerInv /\ Consume => TypeOK'
<1> SUFFICES ASSUME TypeOK, ConsumerInv, Consume PROVE TypeOK'
  OBVIOUS
<1>1. ASSUME NEW e \in Event, HandleOnline(e) PROVE TypeOK'
  <2>1. Owner[e] \in User /\ connections[Owner[e]] \in Session
    BY <1>1, SenderAssumption DEF TypeOK, HandleOnline
  <2>2. shown' \in [Event -> [Session -> Nat]]
    BY <1>1, <2>1, WriteType DEF HandleOnline
  <2>3. queue' \in [Event -> {"absent", "ready", "unacked", "gone"}]
    BY <1>1 DEF TypeOK, HandleOnline, Take
  <2>4. consumer' \in [step : {"idle", "written", "ack"}, event : Event \cup {None},
                       session : Session \cup {None}]
    BY <1>1, <2>1 DEF HandleOnline
  <2> QED BY <1>1, <2>2, <2>3, <2>4 DEF TypeOK, HandleOnline
<1>2. ASSUME NEW e \in Event, HandleOffline(e) PROVE TypeOK'
  <2>1. pending' \in [Op -> Nat]
    BY <1>2, StartEffect DEF HandleOffline
  <2>2. consumer' \in [step : {"idle", "written", "ack"}, event : Event \cup {None},
                       session : Session \cup {None}]
    BY <1>2 DEF HandleOffline
  <2> QED BY <1>2, <2>1, <2>2 DEF TypeOK, HandleOffline, Take
<1>3. CASE ConfirmOnline
  <2>1. pending' \in [Op -> Nat]
    BY <1>3, StartEffect DEF ConfirmOnline
  <2> QED BY <1>3, <2>1 DEF TypeOK, ConfirmOnline
<1>4. CASE Settle
  BY <1>4 DEF TypeOK, ConsumerInv, Settle, Waiting
<1> QED BY <1>1, <1>2, <1>3, <1>4 DEF Consume

LEMMA ServeType ==
  ASSUME TypeOK, NEW s \in Session, Serve(s)
  PROVE  TypeOK'
<1>1. CASE Scan(s)
  BY <1>1 DEF TypeOK, Scan
<1>2. CASE FlushRaises(s) \/ Closed(s)
  BY <1>2, LeaveType DEF TypeOK, FlushRaises, Closed
<1>3. ASSUME NEW e \in Event, Flush(s, e) PROVE TypeOK'
  <2>1. pending' \in [Op -> Nat] /\ shown' \in [Event -> [Session -> Nat]]
    BY <1>3, StartEffect, WriteType DEF Flush
  <2>2. todo' \in [Session -> SUBSET Event]
    BY <1>3 DEF TypeOK, Flush
  <2> QED BY <1>3, <2>1, <2>2 DEF TypeOK, Flush
<1>4. ASSUME NEW e \in Event, FlushGone(s, e) PROVE TypeOK'
  BY <1>4 DEF TypeOK, FlushGone
<1> QED BY <1>1, <1>2, <1>3, <1>4 DEF Serve

LEMMA SupplyType == TypeOK /\ Supply => TypeOK'
<1> SUFFICES ASSUME TypeOK, Supply PROVE TypeOK'
  OBVIOUS
<1>1. CASE Wake \/ NothingFound
  <2>1. supplier' \in [step : {"idle", "read", "destroy"}, unread : SUBSET {"sent", "fail"},
                       sent : SUBSET Event, fail : SUBSET Event]
    <3>1. CASE Wake
      <4>1. supplier' = [step |-> "read", unread |-> {"sent", "fail"}, sent |-> {}, fail |-> {}]
        BY <3>1 DEF Wake, Asleep
      <4> QED BY <4>1
    <3>2. CASE NothingFound
      BY <3>2 DEF NothingFound, Asleep
    <3> QED BY <1>1, <3>1, <3>2
  <2> QED BY <1>1, <2>1 DEF TypeOK, Wake, NothingFound
<1>2. ASSUME NEW kind \in {"sent", "fail"}, ReadKeys(kind) PROVE TypeOK'
  BY <1>2 DEF TypeOK, ReadKeys, Reading
<1>3. CASE Post
  BY <1>3 DEF TypeOK, Post, Told, Reading, Asleep
<1>4. CASE Destroy
  BY <1>4 DEF TypeOK, Destroy, Asleep
<1> QED BY <1>1, <1>2, <1>3, <1>4 DEF Supply

\* A read that fails leaves no more than what was read.
LEMMA ReadFailsEffect ==
  ASSUME TypeOK, NEW kind \in {"sent", "fail"}, ReadFails(kind)
  PROVE  /\ supplier' \in [step : {"idle", "read", "partial", "destroy"},
                           unread : SUBSET {"sent", "fail"},
                           sent : SUBSET Event, fail : SUBSET Event]
         /\ supplier'.sent \in {{}, supplier.sent}
<1>1. CASE supplier' = Asleep
  <2>1. Asleep.sent = {}
    BY DEF Asleep
  <2>2. Asleep \in [step : {"idle", "read", "partial", "destroy"},
                    unread : SUBSET {"sent", "fail"},
                    sent : SUBSET Event, fail : SUBSET Event]
    BY DEF Asleep
  <2> QED BY <1>1, <2>1, <2>2
<1>2. CASE supplier' = [supplier EXCEPT !.step = "partial", !.unread = @ \ {kind}]
  BY <1>2 DEF TypeOK
<1> QED BY <1>1, <1>2 DEF ReadFails

LEMMA FailureType == TypeOK /\ Failure => TypeOK'
<1> SUFFICES ASSUME TypeOK, Failure PROVE TypeOK'
  OBVIOUS
<1>1. ASSUME NEW e \in Event, HandleBroken(e) PROVE TypeOK'
  BY <1>1, FaultType DEF TypeOK, HandleBroken, Take
<1>2. ASSUME NEW s \in Session, ScanFails(s) PROVE TypeOK'
  BY <1>2, FaultType, LeaveType DEF TypeOK, ScanFails
<1>3. ASSUME NEW op \in Op, TaskFails(op) PROVE TypeOK'
  BY <1>3, FaultType, DoneEffect DEF TypeOK, TaskFails
<1>4. ASSUME NEW k \in Key, Expire(k) PROVE TypeOK'
  BY <1>4, FaultType DEF TypeOK, Expire
<1>5. CASE WriteRaises
  BY <1>5, FaultType DEF TypeOK, WriteRaises
<1>6. CASE PostFails
  BY <1>6, FaultType DEF TypeOK, PostFails, Told, Asleep
<1>7. CASE DestroyFails
  BY <1>7, FaultType DEF TypeOK, DestroyFails, Asleep
<1>8. CASE Restart
  BY <1>8, FaultType DEF TypeOK, Restart, Waiting, Asleep
<1>9. ASSUME NEW kind \in {"sent", "fail"}, ReadFails(kind) PROVE TypeOK'
  <2>1. supplier' \in [step : {"idle", "read", "partial", "destroy"},
                       unread : SUBSET {"sent", "fail"},
                       sent : SUBSET Event, fail : SUBSET Event]
    BY <1>9, ReadFailsEffect
  <2>2. faults' \in 0 .. MaxFaults
    BY <1>9, FaultType DEF ReadFails
  <2> QED BY <1>9, <2>1, <2>2 DEF TypeOK, ReadFails
<1> QED BY <1>1, <1>2, <1>3, <1>4, <1>5, <1>6, <1>7, <1>8, <1>9 DEF Failure

LEMMA TypeStep == TypeOK /\ ConsumerInv /\ [Next]_vars => TypeOK'
<1> SUFFICES ASSUME TypeOK, ConsumerInv, [Next]_vars PROVE TypeOK'
  OBVIOUS
<1>1. ASSUME NEW e \in Event, Enqueue(e) PROVE TypeOK'
  BY <1>1 DEF TypeOK, Enqueue
<1>2. ASSUME NEW s \in Session, NEW u \in User, Connect(s, u) PROVE TypeOK'
  BY <1>2 DEF TypeOK, Connect
<1>3. ASSUME NEW s \in Session, Disconnect(s) PROVE TypeOK'
  BY <1>3 DEF TypeOK, Disconnect
<1>4. ASSUME NEW op \in Op, RunTask(op) PROVE TypeOK'
  BY <1>4, RunEffect DEF TypeOK, RunTask
<1>5. CASE UNCHANGED vars
  BY <1>5 DEF TypeOK, vars
<1> QED
  BY <1>1, <1>2, <1>3, <1>4, <1>5, ConsumeType, ServeType, SupplyType, FailureType DEF Next

-----------------------------------------------------------------------------
(* The consumer and the connections.                                        *)

LEMMA ConsumerStep == TypeOK /\ ConsumerInv /\ [Next]_vars => ConsumerInv'
<1> SUFFICES ASSUME TypeOK, ConsumerInv, [Next]_vars PROVE ConsumerInv'
  OBVIOUS
<1> USE DEF ConsumerInv
<1>1. CASE Consume
  <2>1. CASE \E e \in Event : HandleOnline(e) \/ HandleOffline(e)
    BY <2>1 DEF HandleOnline, HandleOffline
  <2>2. CASE ConfirmOnline
    BY <2>2 DEF ConfirmOnline, TypeOK
  <2>3. CASE Settle
    BY <2>3 DEF Settle, Waiting
  <2> QED BY <1>1, <2>1, <2>2, <2>3 DEF Consume
<1>2. CASE Failure
  BY <1>2 DEF Failure, HandleBroken, ScanFails, TaskFails, Expire, WriteRaises, ReadFails,
              PostFails,
              DestroyFails, Restart, Waiting, TypeOK
<1>3. ASSUME NEW s \in Session, Serve(s) PROVE ConsumerInv'
  BY <1>3 DEF Serve, Scan, FlushRaises, Closed, Flush, FlushGone
<1>4. CASE Supply
  BY <1>4 DEF Supply, Wake, NothingFound, Post, Destroy, ReadKeys
<1>5. CASE UNCHANGED vars
  BY <1>5 DEF vars
<1> QED BY <1>1, <1>2, <1>3, <1>4, <1>5 DEF Next, Enqueue, Connect, Disconnect, RunTask

\* A handler that leaves takes the entry of its user with it.
LEMMA LeaveKeeps ==
  ASSUME TypeOK, SessionInv, NEW s \in Session, session[s] # "absent", Leave(s),
         user' = user
  PROVE  SessionInv'
<1>1. \A t \in Session : session'[t] = "absent" => user'[t] = None
  BY DEF TypeOK, SessionInv, Leave
<1>2. ASSUME NEW u \in User, connections'[u] # None
      PROVE  session'[connections'[u]] \in {"scan", "serve"} /\ user'[connections'[u]] = u
  <2>1. u # user[s] /\ connections'[u] = connections[u]
    BY <1>2 DEF TypeOK, Leave
  <2>2. connections[u] # s /\ connections[u] \in Session
    BY <1>2, <2>1 DEF TypeOK, SessionInv
  <2> QED BY <1>2, <2>1, <2>2 DEF TypeOK, SessionInv, Leave
<1>3. \A t \in Session : \A e \in todo'[t] : session'[t] = "serve" /\ Owner[e] = user'[t]
  BY DEF TypeOK, SessionInv, Leave
<1> QED BY <1>1, <1>2, <1>3 DEF SessionInv

LEMMA SessionStep == TypeOK /\ SessionInv /\ [Next]_vars => SessionInv'
<1> SUFFICES ASSUME TypeOK, SessionInv, [Next]_vars PROVE SessionInv'
  OBVIOUS
<1>1. ASSUME UNCHANGED <<session, user, connections, todo>> PROVE SessionInv'
  BY <1>1 DEF SessionInv
<1>2. ASSUME NEW s \in Session, NEW u \in User, Connect(s, u) PROVE SessionInv'
  <2>1. \A v \in User : connections[v] # s
    BY <1>2, SenderAssumption DEF TypeOK, SessionInv, Connect
  <2>2. \A t \in Session : session'[t] = "absent" => user'[t] = None
    BY <1>2 DEF TypeOK, SessionInv, Connect
  <2>3. ASSUME NEW v \in User, connections'[v] # None
        PROVE  session'[connections'[v]] \in {"scan", "serve"} /\ user'[connections'[v]] = v
    <3>1. CASE v = u
      BY <1>2, <3>1 DEF TypeOK, Connect
    <3>2. CASE v # u
      <4>1. connections'[v] = connections[v] /\ connections[v] \in Session \ {s}
        BY <1>2, <2>1, <2>3, <3>2 DEF TypeOK, Connect
      <4> QED BY <1>2, <2>3, <4>1 DEF TypeOK, SessionInv, Connect
    <3> QED BY <3>1, <3>2
  <2>4. \A t \in Session : \A e \in todo'[t] : session'[t] = "serve" /\ Owner[e] = user'[t]
    BY <1>2 DEF TypeOK, SessionInv, Connect
  <2> QED BY <2>2, <2>3, <2>4 DEF SessionInv
<1>3. ASSUME NEW s \in Session, Serve(s) PROVE SessionInv'
  <2>1. CASE Scan(s)
    <3>1. \A t \in Session : session'[t] = "absent" => user'[t] = None
      BY <2>1 DEF TypeOK, SessionInv, Scan
    <3>2. \A u \in User : connections'[u] # None =>
            session'[connections'[u]] \in {"scan", "serve"} /\ user'[connections'[u]] = u
      BY <2>1 DEF TypeOK, SessionInv, Scan
    <3>3. \A t \in Session : \A e \in todo'[t] : session'[t] = "serve" /\ Owner[e] = user'[t]
      BY <2>1 DEF TypeOK, SessionInv, Scan
    <3> QED BY <3>1, <3>2, <3>3 DEF SessionInv
  <2>2. CASE FlushRaises(s) \/ Closed(s)
    BY <2>2, LeaveKeeps DEF FlushRaises, Closed
  <2>3. CASE \E e \in Event : Flush(s, e) \/ FlushGone(s, e)
    <3>1. UNCHANGED <<session, user, connections>>
          /\ \A t \in Session : todo'[t] \subseteq todo[t]
      BY <2>3 DEF TypeOK, Flush, FlushGone
    <3> QED BY <3>1 DEF SessionInv
  <2> QED BY <1>3, <2>1, <2>2, <2>3 DEF Serve
<1>4. CASE Failure
  <2>1. CASE \E s \in Session : ScanFails(s)
    BY <2>1, LeaveKeeps DEF ScanFails
  <2>2. CASE Restart
    BY <2>2 DEF TypeOK, SessionInv, Restart
  <2> QED BY <1>1, <1>4, <2>1, <2>2
          DEF Failure, HandleBroken, TaskFails, Expire, WriteRaises, ReadFails, PostFails,
              DestroyFails
<1>5. CASE Consume \/ Supply \/ UNCHANGED vars
  BY <1>1, <1>5 DEF Consume, HandleOnline, HandleOffline, ConfirmOnline, Settle,
                    Supply, Wake, NothingFound, Post, Destroy, ReadKeys, vars
<1> QED BY <1>1, <1>2, <1>3, <1>4, <1>5 DEF Next, Enqueue, Disconnect, RunTask

-----------------------------------------------------------------------------
(* What was shown.                                                          *)

\* Only the consumer and the handlers write to a connection.
LEMMA ShownRests ==
  ASSUME [Next]_vars,
         ~ \E e \in Event : HandleOnline(e),
         ~ \E s \in Session, e \in Event : Flush(s, e)
  PROVE  shown' = shown
<1>1. CASE Consume
  BY <1>1 DEF Consume, HandleOffline, ConfirmOnline, Settle
<1>2. ASSUME NEW s \in Session, Disconnect(s) \/ Serve(s) PROVE shown' = shown
  BY <1>2 DEF Disconnect, Serve, Scan, FlushRaises, Closed, FlushGone
<1>3. CASE Supply
  BY <1>3 DEF Supply, Wake, NothingFound, Post, Destroy, ReadKeys
<1>4. CASE Failure
  BY <1>4 DEF Failure, HandleBroken, ScanFails, TaskFails, Expire, WriteRaises, ReadFails,
              PostFails,
              DestroyFails, Restart
<1>5. CASE UNCHANGED vars
  BY <1>5 DEF vars
<1> QED BY <1>1, <1>2, <1>3, <1>4, <1>5 DEF Next, Enqueue, Connect, RunTask

\* The consumer writes to the connection of the owner, and a handler what it has to show.
LEMMA OnlineShows ==
  ASSUME TypeOK, SessionInv, NEW e \in Event, HandleOnline(e)
  PROVE  \E s \in Session :
           /\ connections[Owner[e]] = s /\ session[s] \in {"scan", "serve"}
           /\ Owner[e] = user[s]
           /\ Write(e, s)
<1>1. Owner[e] \in User /\ connections[Owner[e]] \in Session
  BY SenderAssumption DEF TypeOK, HandleOnline
<1> QED BY <1>1, SenderAssumption DEF SessionInv, HandleOnline

LEMMA ShownGrows ==
  ASSUME TypeOK, SessionInv, [Next]_vars
  PROVE  \A e \in Event, s \in Session : shown'[e][s] >= shown[e][s]
<1>1. \A e \in Event, s \in Session : shown[e][s] \in Nat
  BY DEF TypeOK
<1>2. ASSUME NEW e \in Event, NEW s \in Session, Write(e, s)
      PROVE  \A f \in Event, t \in Session : shown'[f][t] >= shown[f][t]
  BY <1>1, <1>2, WriteType
<1>3. CASE \E e \in Event : HandleOnline(e)
  BY <1>2, <1>3, OnlineShows
<1>4. CASE \E s \in Session, e \in Event : Flush(s, e)
  BY <1>2, <1>4 DEF Flush
<1> QED BY <1>1, <1>3, <1>4, ShownRests

LEMMA ShownStays ==
  ASSUME TypeOK, ConsumerInv, SessionInv, [Next]_vars, NEW e \in Event, Shown(e)
  PROVE  Shown(e)'
<1>1. \A s \in Session : /\ shown[e][s] \in Nat /\ shown'[e][s] \in Nat
                         /\ shown'[e][s] >= shown[e][s]
  BY ShownGrows, TypeStep DEF TypeOK
<1>2. PICK s \in Session : shown[e][s] > 0
  BY DEF Shown
<1>3. shown'[e][s] > 0
  BY <1>1, <1>2
<1> QED BY <1>3 DEF Shown

LEMMA EvidenceStep ==
  ASSUME TypeOK, SessionInv, ConsumerInv, [Next]_vars, NEW e \in Event, EvidenceInv(e)
  PROVE  EvidenceInv(e)'
<1>1. CASE Shown(e)
  BY <1>1, ShownStays DEF EvidenceInv
<1>2. CASE Unsaid(e)
  <2> DEFINE set == <<"set", <<"sent", e>>>>
             del == <<"delete", <<"unsent", e>>>>
  <2>1. set \in Op /\ del \in Op
    BY OpIsTask DEF Kind
  <2>2. pending \in [Op -> Nat] /\ pending[set] = 0 /\ pending[del] = 0
    BY <1>2 DEF TypeOK, Unsaid
  <2>3. ASSUME NEW f \in Event, HandleOnline(f) PROVE EvidenceInv(e)'
    <3>1. CASE f = e
      <4>1. PICK s \in Session : Write(e, s)
        BY <2>3, <3>1, OnlineShows
      <4>2. shown'[e][s] > 0
        BY <4>1, WriteType DEF TypeOK
      <4> QED BY <4>2 DEF EvidenceInv, Shown
    <3>2. CASE f # e
      BY <1>2, <2>3, <3>2 DEF EvidenceInv, Unsaid, HandleOnline
    <3> QED BY <3>1, <3>2
  <2>4. ASSUME NEW f \in Event, HandleOffline(f) PROVE EvidenceInv(e)'
    <3>1. pending'[set] = 0 /\ pending'[del] = 0
      BY <2>1, <2>2, <2>4, StartEffect DEF HandleOffline
    <3> QED BY <1>2, <2>4, <3>1 DEF EvidenceInv, Unsaid, HandleOffline
  <2>5. CASE ConfirmOnline
    <3>1. consumer.event # e
      BY <1>2, <2>5 DEF Unsaid, ConfirmOnline
    <3>2. pending'[set] = 0 /\ pending'[del] = 0
      BY <2>1, <2>2, <2>5, <3>1, StartEffect DEF ConfirmOnline
    <3>3. consumer'.step = "ack"
      BY <2>5 DEF TypeOK, ConfirmOnline
    <3> QED BY <1>2, <2>5, <3>2, <3>3 DEF EvidenceInv, Unsaid, ConfirmOnline
  <2>6. CASE Settle
    BY <1>2, <2>6 DEF EvidenceInv, Unsaid, Settle, Waiting
  <2>7. ASSUME NEW s \in Session, NEW f \in Event, Flush(s, f) PROVE EvidenceInv(e)'
    <3>1. CASE f = e
      <4>1. shown'[e][s] > 0
        BY <2>7, <3>1, WriteType DEF TypeOK, Flush
      <4> QED BY <4>1 DEF EvidenceInv, Shown
    <3>2. CASE f # e
      <4>1. pending'[set] = 0 /\ pending'[del] = 0
        BY <2>1, <2>2, <2>7, <3>2, StartEffect DEF Flush
      <4> QED BY <1>2, <2>7, <4>1 DEF EvidenceInv, Unsaid, Flush
    <3> QED BY <3>1, <3>2
  <2>8. ASSUME NEW op \in Op, RunTask(op) PROVE EvidenceInv(e)'
    <3>1. pending'[set] = 0 /\ pending'[del] = 0
      BY <2>1, <2>2, <2>8, RunEffect
    <3>2. <<"sent", e>> \notin keys'
      BY <1>2, <2>2, <2>8, RunEffect DEF Unsaid
    <3> QED BY <1>2, <2>8, <3>1, <3>2 DEF EvidenceInv, Unsaid, RunTask
  <2>9. ASSUME NEW op \in Op, TaskFails(op) PROVE EvidenceInv(e)'
    <3>1. pending'[set] = 0 /\ pending'[del] = 0
      BY <2>1, <2>2, <2>9, DoneEffect DEF TaskFails
    <3> QED BY <1>2, <2>9, <3>1 DEF EvidenceInv, Unsaid, TaskFails
  <2>10. CASE Supply
    <3>1. CASE Wake \/ NothingFound \/ Destroy
      <4>1. supplier'.sent = {}
        <5>1. CASE Wake
          BY <5>1 DEF Wake, Asleep
        <5>2. CASE NothingFound \/ Destroy
          BY <5>2 DEF NothingFound, Destroy, Asleep
        <5> QED BY <3>1, <5>1, <5>2
      <4>2. keys' \subseteq keys /\ UNCHANGED <<report, pending, consumer, shown>>
        BY <3>1 DEF Wake, NothingFound, Destroy
      <4> QED BY <1>2, <4>1, <4>2 DEF EvidenceInv, Unsaid
    <3>2. ASSUME NEW kind \in {"sent", "fail"}, ReadKeys(kind) PROVE EvidenceInv(e)'
      BY <1>2, <3>2 DEF TypeOK, EvidenceInv, Unsaid, ReadKeys, Reading
    <3>3. CASE Post
      BY <1>2, <3>3 DEF TypeOK, EvidenceInv, Unsaid, Post, Told, Asleep
    <3> QED BY <2>10, <3>1, <3>2, <3>3 DEF Supply
  <2>11. ASSUME NEW s \in Session, Disconnect(s) \/ Scan(s) \/ FlushRaises(s) \/ Closed(s)
                                   \/ ScanFails(s)
         PROVE EvidenceInv(e)'
    BY <1>2, <2>11 DEF EvidenceInv, Unsaid, Disconnect, Scan, FlushRaises, Closed, ScanFails
  <2>12. CASE UNCHANGED <<report, supplier, keys, pending, consumer>>
    BY <1>2, <2>12 DEF EvidenceInv, Unsaid
  <2>13. CASE \E f \in Event : HandleBroken(f)
    BY <1>2, <2>13 DEF EvidenceInv, Unsaid, HandleBroken
  <2>14. CASE WriteRaises
    BY <1>2, <2>14 DEF EvidenceInv, Unsaid, WriteRaises, TypeOK
  <2>15. CASE PostFails \/ DestroyFails
    BY <1>2, <2>15 DEF EvidenceInv, Unsaid, PostFails, DestroyFails, Told, Asleep, TypeOK
  <2>16. CASE Restart \/ \E k \in Key : Expire(k)
    BY <1>2, <2>1, <2>16 DEF EvidenceInv, Unsaid, Restart, Expire, Waiting, Asleep
  <2>17. ASSUME NEW kind \in {"sent", "fail"}, ReadFails(kind) PROVE EvidenceInv(e)'
    <3>1. supplier'.sent \in {{}, supplier.sent}
      BY <2>17, ReadFailsEffect
    <3>2. UNCHANGED <<report, keys, pending, consumer>>
      BY <2>17 DEF ReadFails
    <3> QED BY <1>2, <3>1, <3>2 DEF EvidenceInv, Unsaid
  <2> QED
    BY <2>3, <2>4, <2>5, <2>6, <2>7, <2>8, <2>9, <2>10, <2>11, <2>12, <2>13, <2>14, <2>15, <2>16,
       <2>17
       DEF Next, Consume, Serve, Failure, Enqueue, Connect, FlushGone, vars
<1> QED BY <1>1, <1>2 DEF EvidenceInv

-----------------------------------------------------------------------------
(* To whom, and how often.                                                  *)

LEMMA OwnerStep ==
  ASSUME TypeOK, SessionInv, [Next]_vars, NEW e \in Event, NEW s \in Session, OwnerInv(e, s)
  PROVE  OwnerInv(e, s)'
<1> USE DEF OwnerInv
<1>1. ASSUME user'[s] # user[s] PROVE session[s] = "absent" /\ shown' = shown
  <2>1. \E u \in User : Connect(s, u)
    <3>1. ~ UNCHANGED user
      BY <1>1
    <3>2. \E t \in Session, u \in User : Connect(t, u)
      BY <3>1 DEF Next, Consume, HandleOnline, HandleOffline, ConfirmOnline, Settle, Enqueue,
                  Disconnect, Serve, Scan, FlushRaises, Closed, Flush, FlushGone, RunTask,
                  Supply, Wake, NothingFound, Post, Destroy, ReadKeys, Failure, HandleBroken,
                  ScanFails, TaskFails, Expire, WriteRaises, ReadFails, PostFails,
                  DestroyFails, Restart, vars
    <3>3. PICK t \in Session, u \in User : Connect(t, u)
      BY <3>2
    <3>4. user' = [user EXCEPT ![t] = u]
      BY <3>3 DEF Connect
    <3>5. t = s
      BY <1>1, <3>4 DEF TypeOK
    <3> QED BY <3>3, <3>5
  <2> QED BY <2>1 DEF Connect
<1>2. CASE user'[s] # user[s]
  <2>1. user[s] = None /\ Owner[e] \in User /\ None \notin User
    BY <1>1, <1>2, SenderAssumption DEF SessionInv
  <2> QED BY <1>1, <1>2, <2>1
<1>3. CASE user'[s] = user[s] /\ shown'[e][s] = shown[e][s]
  BY <1>3
<1>4. ASSUME NEW f \in Event, NEW t \in Session, Write(f, t), Owner[f] = user[t],
             user' = user
      PROVE  OwnerInv(e, s)'
  <2>1. CASE <<f, t>> = <<e, s>>
    BY <1>4, <2>1
  <2>2. CASE <<f, t>> # <<e, s>>
    BY <1>3, <1>4, <2>2, WriteType
  <2> QED BY <2>1, <2>2
<1>5. CASE \E f \in Event : HandleOnline(f)
  BY <1>4, <1>5, OnlineShows DEF HandleOnline
<1>6. CASE \E t \in Session, f \in Event : Flush(t, f)
  BY <1>4, <1>6 DEF Flush, SessionInv
<1> QED BY <1>2, <1>3, <1>5, <1>6, ShownRests

\* Showing a notification uses up one of its two ways to a connection.
LEMMA TwiceStep ==
  ASSUME TypeOK, ConsumerInv, SessionInv, SessionInv', [Next]_vars,
         NEW e \in Event, NEW s \in Session, OwnerInv(e, s), OwnerInv(e, s)', TwiceInv(e, s)
  PROVE  TwiceInv(e, s)'
<1> DEFINE mayFlush == session[s] \in {"absent", "scan"} \/ e \in todo[s]
           mayTake  == queue[e] \in {"absent", "ready"} /\ session[s] # "left"
<1>1. shown[e][s] \in Nat /\ shown'[e][s] \in Nat
  BY TypeStep DEF TypeOK
<1>2. ASSUME shown'[e][s] = shown[e][s], mayFlush' => mayFlush, mayTake' => mayTake
      PROVE  TwiceInv(e, s)'
  BY <1>1, <1>2 DEF TwiceInv
<1>3. ASSUME NEW f \in Event, HandleOnline(f) PROVE TwiceInv(e, s)'
  <2>1. PICK t \in Session : session[t] \in {"scan", "serve"} /\ Write(f, t)
    BY <1>3, OnlineShows
  <2>2. queue[f] = "ready" /\ queue' = [queue EXCEPT ![f] = "unacked"]
        /\ UNCHANGED <<session, todo>>
    BY <1>3 DEF HandleOnline, Take
  <2>3. CASE <<f, t>> = <<e, s>>
    <3>1. shown'[e][s] = shown[e][s] + 1 /\ queue'[e] = "unacked"
      BY <2>1, <2>2, <2>3, WriteType DEF TypeOK
    <3>2. mayTake /\ ~ mayTake' /\ (mayFlush' => mayFlush)
      BY <2>1, <2>2, <2>3, <3>1
    <3> QED BY <1>1, <3>1, <3>2 DEF TwiceInv
  <2>4. CASE <<f, t>> # <<e, s>>
    BY <1>2, <2>1, <2>2, <2>4, WriteType DEF TypeOK
  <2> QED BY <2>3, <2>4
<1>4. ASSUME NEW t \in Session, NEW f \in Event, Flush(t, f) PROVE TwiceInv(e, s)'
  <2>1. /\ session[t] = "serve" /\ f \in todo[t] /\ Write(f, t)
        /\ todo' = [todo EXCEPT ![t] = @ \ {f}]
        /\ UNCHANGED <<queue, session>>
    BY <1>4 DEF Flush
  <2>2. CASE <<f, t>> = <<e, s>>
    <3>1. shown'[e][s] = shown[e][s] + 1 /\ e \notin todo'[s]
      BY <2>1, <2>2, WriteType DEF TypeOK
    <3>2. mayFlush /\ ~ mayFlush' /\ (mayTake' => mayTake)
      BY <2>1, <2>2, <3>1
    <3> QED BY <1>1, <3>1, <3>2 DEF TwiceInv
  <2>3. CASE <<f, t>> # <<e, s>>
    BY <1>2, <2>1, <2>3, WriteType DEF TypeOK
  <2> QED BY <2>2, <2>3
<1>5. ASSUME UNCHANGED <<shown, queue, session, todo>> PROVE TwiceInv(e, s)'
  BY <1>2, <1>5
<1>6. ASSUME NEW f \in Event, Enqueue(f) \/ HandleOffline(f) \/ HandleBroken(f)
      PROVE  TwiceInv(e, s)'
  <2>1. /\ UNCHANGED <<shown, session, todo>>
        /\ queue[f] \in {"absent", "ready"}
        /\ \E q \in {"ready", "unacked"} : queue' = [queue EXCEPT ![f] = q]
    BY <1>6 DEF Enqueue, HandleOffline, HandleBroken, Take
  <2>2. mayTake' => mayTake
    BY <2>1 DEF TypeOK
  <2> QED BY <1>2, <2>1, <2>2
<1>7. CASE Settle
  BY <1>2, <1>7 DEF TypeOK, ConsumerInv, Settle
<1>8. ASSUME NEW t \in Session, NEW u \in User, Connect(t, u) PROVE TwiceInv(e, s)'
  BY <1>2, <1>8 DEF TypeOK, Connect
<1>9. ASSUME NEW t \in Session, Leave(t), UNCHANGED <<shown, queue>>
      PROVE  TwiceInv(e, s)'
  BY <1>2, <1>9 DEF TypeOK, Leave
<1>10. ASSUME NEW t \in Session, Scan(t) \/ \E f \in Event : FlushGone(t, f)
       PROVE  TwiceInv(e, s)'
  <2>1. CASE Scan(t)
    BY <1>2, <2>1 DEF TypeOK, Scan
  <2>2. CASE \E f \in Event : FlushGone(t, f)
    BY <1>2, <2>2 DEF TypeOK, FlushGone
  <2> QED BY <1>10, <2>1, <2>2
<1>11. CASE Restart
  <2>1. CASE session[s] = "absent"
    <3>1. shown[e][s] = 0
      <4>1. Owner[e] # user[s]
        BY <2>1, SenderAssumption DEF SessionInv
      <4> QED BY <1>1, <4>1 DEF OwnerInv
    <3> QED BY <1>1, <1>11, <3>1 DEF TwiceInv, Restart
  <2>2. CASE session[s] # "absent"
    BY <1>2, <1>11, <2>2 DEF Restart
  <2> QED BY <2>1, <2>2
<1> QED
  BY <1>3, <1>4, <1>5, <1>6, <1>7, <1>8, <1>9, <1>10, <1>11
     DEF Next, Consume, Serve, Supply, Failure, ConfirmOnline, Disconnect, ScanFails,
         FlushRaises,
         Closed, RunTask, TaskFails, Expire, WriteRaises, ReadFails, PostFails, DestroyFails,
         Wake, NothingFound, Post, Destroy, ReadKeys, vars

-----------------------------------------------------------------------------
(* Without failures.                                                        *)

\* Every failure is counted.
LEMMA FailureCounts ==
  ASSUME TypeOK, Failure
  PROVE  faults' > 0
BY FaultType DEF Failure, HandleBroken, ScanFails, TaskFails, Expire, WriteRaises, ReadFails,
                 PostFails,
                 DestroyFails, Restart

\* Only the consumer puts a notification where a later connection finds it.
LEMMA KeptStep ==
  ASSUME TypeOK, [Next]_vars, faults' = 0, NEW e \in Event, ~ Kept(e), ~ HandleOffline(e)
  PROVE  ~ Kept(e)'
<1> DEFINE set == <<"set", <<"unsent", e>>>>
<1>1. /\ set \in Op /\ pending \in [Op -> Nat] /\ pending[set] = 0
      /\ <<"unsent", e>> \notin keys /\ \A s \in Session : e \notin todo[s]
  BY OpIsTask DEF TypeOK, Kept, Stored, Kind
<1>2. ~ Failure
  BY FailureCounts
<1>3. ASSUME pending'[set] = 0, <<"unsent", e>> \notin keys', \A s \in Session : e \notin todo'[s]
      PROVE  ~ Kept(e)'
  BY <1>3 DEF Kept, Stored
<1>4. ASSUME UNCHANGED <<pending, todo>>, <<"unsent", e>> \notin keys' PROVE ~ Kept(e)'
  BY <1>1, <1>3, <1>4
<1>5. ASSUME NEW f \in Event, HandleOffline(f) PROVE ~ Kept(e)'
  <2>1. f # e
    BY <1>5
  <2>2. pending'[set] = 0
    BY <1>1, <1>5, <2>1, StartEffect DEF HandleOffline
  <2> QED BY <1>1, <1>3, <1>5, <2>2 DEF HandleOffline
<1>6. CASE ConfirmOnline
  <2>1. pending'[set] = 0
    BY <1>1, <1>6, StartEffect DEF ConfirmOnline
  <2> QED BY <1>1, <1>3, <1>6, <2>1 DEF ConfirmOnline
<1>7. ASSUME NEW s \in Session, NEW f \in Event, Flush(s, f) PROVE ~ Kept(e)'
  <2>1. pending'[set] = 0
    BY <1>1, <1>7, StartEffect DEF Flush
  <2>2. \A t \in Session : e \notin todo'[t]
    BY <1>1, <1>7 DEF TypeOK, Flush
  <2> QED BY <1>1, <1>3, <1>7, <2>1, <2>2 DEF Flush
<1>8. ASSUME NEW op \in Op, RunTask(op) PROVE ~ Kept(e)'
  <2>1. pending'[set] = 0 /\ <<"unsent", e>> \notin keys'
    BY <1>1, <1>8, RunEffect
  <2> QED BY <1>1, <1>3, <1>8, <2>1 DEF RunTask
<1>9. ASSUME NEW s \in Session, Scan(s) \/ \E f \in Event : FlushGone(s, f) PROVE ~ Kept(e)'
  <2>1. \A t \in Session : e \notin todo'[t]
    <3>1. CASE Scan(s)
      BY <1>1, <3>1 DEF TypeOK, Scan
    <3>2. CASE \E f \in Event : FlushGone(s, f)
      BY <1>1, <3>2 DEF TypeOK, FlushGone
    <3> QED BY <1>9, <3>1, <3>2
  <2> QED BY <1>1, <1>3, <1>9, <2>1 DEF Scan, FlushGone
<1>10. ASSUME NEW s \in Session, Leave(s), UNCHANGED <<pending, keys>> PROVE ~ Kept(e)'
  <2>1. \A t \in Session : e \notin todo'[t]
    BY <1>1, <1>10 DEF TypeOK, Leave
  <2> QED BY <1>1, <1>3, <1>10, <2>1
<1>11. CASE Supply \/ UNCHANGED vars
  BY <1>1, <1>4, <1>11 DEF Supply, Wake, NothingFound, Post, Destroy, ReadKeys, vars
<1> QED
  BY <1>1, <1>2, <1>4, <1>5, <1>6, <1>7, <1>8, <1>9, <1>10, <1>11
     DEF Next, Consume, HandleOnline, Settle, Enqueue, Connect, Disconnect, Serve, FlushRaises,
         Closed

\* How a notification and a connection move: the consumer takes it once, a handler looks
\* for the keys once, and a connection is opened once.
Moves(e, s) ==
  /\ queue'[e] \in {"absent", "ready"} =>
       queue[e] \in {"absent", "ready"} /\ ~ HandleOnline(e) /\ ~ HandleOffline(e)
  /\ e \in todo'[s] => e \in todo[s] \/ session[s] = "scan"
  /\ session'[s] = "scan" => session[s] \in {"absent", "scan"}

LEMMA QuietStep ==
  ASSUME TypeOK, [Next]_vars, ~ Failure, NEW e \in Event, NEW s \in Session
  PROVE  Moves(e, s)
<1>1. ASSUME HandleOnline(e) \/ HandleOffline(e) PROVE queue'[e] = "unacked"
  BY <1>1 DEF TypeOK, HandleOnline, HandleOffline, Take
<1>2. ASSUME UNCHANGED <<queue, todo, session>> PROVE Moves(e, s)
  BY <1>1, <1>2 DEF Moves
<1>3. ASSUME NEW f \in Event, Enqueue(f) PROVE Moves(e, s)
  BY <1>1, <1>3 DEF TypeOK, Moves, Enqueue
<1>4. ASSUME NEW f \in Event, HandleOnline(f) \/ HandleOffline(f) PROVE Moves(e, s)
  <2>1. queue' = [queue EXCEPT ![f] = "unacked"] /\ UNCHANGED <<todo, session>>
    BY <1>4 DEF HandleOnline, HandleOffline, Take
  <2> QED BY <1>1, <2>1 DEF TypeOK, Moves
<1>5. CASE Settle
  BY <1>1, <1>5 DEF TypeOK, Moves, Settle
<1>6. ASSUME NEW t \in Session, Leave(t), UNCHANGED queue PROVE Moves(e, s)
  BY <1>1, <1>6 DEF TypeOK, Moves, Leave
<1>7. ASSUME NEW t \in Session, NEW u \in User, Connect(t, u) PROVE Moves(e, s)
  BY <1>1, <1>7 DEF TypeOK, Moves, Connect
<1>8. ASSUME NEW t \in Session, Scan(t) PROVE Moves(e, s)
  BY <1>1, <1>8 DEF TypeOK, Moves, Scan
<1>9. ASSUME NEW t \in Session, NEW f \in Event, Flush(t, f) \/ FlushGone(t, f) PROVE Moves(e, s)
  <2>1. todo' = [todo EXCEPT ![t] = @ \ {f}] /\ UNCHANGED <<queue, session>>
    BY <1>9 DEF Flush, FlushGone
  <2> QED BY <1>1, <2>1 DEF TypeOK, Moves
<1>10. CASE Supply \/ UNCHANGED vars
  BY <1>2, <1>10 DEF Supply, Wake, NothingFound, Post, Destroy, ReadKeys, vars
<1>11. CASE Consume
  BY <1>2, <1>4, <1>5, <1>11 DEF Consume, ConfirmOnline
<1>12. ASSUME NEW t \in Session, Disconnect(t) \/ Serve(t) PROVE Moves(e, s)
  BY <1>2, <1>6, <1>8, <1>9, <1>12 DEF Disconnect, Serve, FlushRaises, Closed
<1> QED
  BY <1>2, <1>3, <1>7, <1>10, <1>11, <1>12 DEF Next, RunTask

LEMMA OnceStep ==
  ASSUME TypeOK, ConsumerInv, SessionInv, [Next]_vars, faults' = 0,
         NEW e \in Event, NEW s \in Session, OwnerInv(e, s), OnceInv(e, s)
  PROVE  OnceInv(e, s)'
<1>1. ~ Failure
  BY FailureCounts
<1>2. shown[e][s] \in Nat /\ shown'[e][s] \in Nat
  BY TypeStep DEF TypeOK
<1>3. CASE shown'[e][s] = shown[e][s]
  <2>1. ASSUME queue'[e] \in {"absent", "ready"} PROVE ~ Kept(e)' /\ shown'[e][s] = 0
    BY <1>1, <1>3, <2>1, KeptStep, QuietStep DEF OnceInv, Moves
  <2>2. ASSUME shown[e][s] > 0
        PROVE  e \notin todo'[s] /\ (session'[s] = "scan" => ~ Kept(e)')
    <3>1. session[s] = "scan" => ~ Kept(e)
      BY <2>2 DEF OnceInv
    <3>2. session[s] # "absent"
      BY <2>2, SenderAssumption DEF OwnerInv, SessionInv
    <3>3. ~ HandleOffline(e)
      BY <1>2, <2>2 DEF OnceInv, HandleOffline, Take
    <3>4. session[s] = "scan" => ~ Kept(e)'
      BY <3>1, <3>3, KeptStep
    <3>5. e \in todo'[s] => Kept(e)'
      BY DEF Kept
    <3> QED BY <1>1, <2>2, <3>2, <3>4, <3>5, QuietStep DEF OnceInv, Moves
  <2> QED BY <1>3, <2>1, <2>2 DEF OnceInv
<1>4. ASSUME shown'[e][s] # shown[e][s], HandleOnline(e) PROVE OnceInv(e, s)'
  <2>1. /\ queue[e] = "ready" /\ queue'[e] = "unacked" /\ ~ HandleOffline(e)
        /\ UNCHANGED <<todo, session>>
    BY <1>4 DEF TypeOK, HandleOnline, HandleOffline, Take
  <2>2. ~ Kept(e) /\ shown[e][s] = 0
    BY <2>1 DEF OnceInv
  <2>3. ~ Kept(e)'
    BY <2>1, <2>2, KeptStep
  <2>4. shown'[e][s] = 1
    <3>1. PICK t \in Session : Write(e, t)
      BY <1>4, OnlineShows
    <3> QED BY <1>4, <2>2, <3>1, WriteType
  <2> QED BY <2>1, <2>2, <2>3, <2>4 DEF OnceInv, Kept
<1>5. ASSUME shown'[e][s] # shown[e][s], Flush(s, e) PROVE OnceInv(e, s)'
  <2>1. e \in todo[s] /\ session'[s] = "serve" /\ UNCHANGED queue
    BY <1>5 DEF Flush
  <2>2. Kept(e) /\ shown[e][s] = 0 /\ queue[e] \notin {"absent", "ready"}
    BY <1>2, <2>1 DEF Kept, OnceInv
  <2>3. shown'[e][s] = 1 /\ e \notin todo'[s]
    BY <1>5, <2>2, WriteType DEF TypeOK, Flush
  <2> QED BY <2>1, <2>2, <2>3 DEF OnceInv
<1>6. ASSUME shown'[e][s] # shown[e][s] PROVE HandleOnline(e) \/ Flush(s, e)
  <2>1. ASSUME NEW f \in Event, NEW t \in Session, Write(f, t) PROVE f = e /\ t = s
    BY <1>6, <2>1, WriteType
  <2>2. ASSUME NEW f \in Event, HandleOnline(f) PROVE f = e
    BY <2>1, <2>2, OnlineShows
  <2>3. ASSUME NEW t \in Session, NEW f \in Event, Flush(t, f) PROVE f = e /\ t = s
    BY <2>1, <2>3 DEF Flush
  <2> QED BY <1>6, <2>2, <2>3, ShownRests
<1> QED BY <1>3, <1>4, <1>5, <1>6

\* What is in Redis for a later connection stays there until it is shown.
LEMMA StoredStays ==
  ASSUME TypeOK, [Next]_vars, ~ Failure, NEW e \in Event, Stored(e), EvidenceInv(e)
  PROVE  Stored(e)' \/ Shown(e)
<1> DEFINE set == <<"set", <<"unsent", e>>>>
<1>1. set \in Op /\ pending \in [Op -> Nat]
  BY OpIsTask DEF TypeOK, Kind
<1>2. ASSUME NEW ops, Start(ops), keys' = keys PROVE Stored(e)'
  <2>1. pending[set] \in Nat /\ pending'[set] \in Nat /\ pending'[set] >= pending[set]
    BY <1>1, <1>2, StartEffect
  <2>2. pending[set] > 0 => pending'[set] > 0
    BY <2>1
  <2> QED BY <1>2, <2>2 DEF Stored
<1>3. ASSUME NEW op \in Op, RunTask(op) PROVE Stored(e)' \/ Shown(e)
  BY <1>3, RunEffect DEF EvidenceInv, Unsaid
<1>4. CASE Destroy
  <2>1. <<"unsent", e>> \notin Reported
    BY DEF Reported
  <2> QED BY <1>4, <2>1 DEF Stored, Destroy
<1>5. ASSUME UNCHANGED <<pending, keys>> PROVE Stored(e)'
  BY <1>5 DEF Stored
<1> QED
  BY <1>2, <1>3, <1>4, <1>5
     DEF Next, Consume, HandleOnline, HandleOffline, ConfirmOnline, Settle, Enqueue, Connect,
         Disconnect, Serve, Scan, FlushRaises, Closed, Flush, FlushGone, Supply, Wake,
         NothingFound, Post, ReadKeys, vars

LEMMA KeptInvStep ==
  ASSUME TypeOK, ConsumerInv, SessionInv, [Next]_vars, faults' = 0,
         NEW e \in Event, EvidenceInv(e), KeptInv(e)
  PROVE  KeptInv(e)'
<1> DEFINE left == queue[e] = "gone" \/ (consumer.step = "ack" /\ consumer.event = e)
<1>1. ~ Failure
  BY FailureCounts
<1>2. ASSUME left PROVE KeptInv(e)'
  BY <1>1, <1>2, StoredStays, ShownStays DEF KeptInv
<1>3. ASSUME Shown(e) PROVE KeptInv(e)'
  BY <1>3, ShownStays DEF KeptInv
<1>4. ASSUME ~ left' PROVE KeptInv(e)'
  BY <1>4 DEF KeptInv
<1>5. ASSUME NEW f \in Event, HandleOnline(f) \/ Enqueue(f) PROVE KeptInv(e)'
  <2>1. CASE HandleOnline(f)
    BY <1>2, <1>4, <2>1 DEF TypeOK, HandleOnline, Take
  <2>2. CASE Enqueue(f)
    BY <1>2, <1>4, <2>2 DEF TypeOK, Enqueue
  <2> QED BY <1>5, <2>1, <2>2
<1>6. ASSUME NEW f \in Event, HandleOffline(f) PROVE KeptInv(e)'
  <2>1. CASE f = e
    <3>1. pending'[<<"set", <<"unsent", e>>>>] > 0
      BY <1>6, <2>1, OpIsTask, StartEffect DEF HandleOffline, Kind
    <3> QED BY <3>1 DEF KeptInv, Stored
  <2>2. CASE f # e
    BY <1>2, <1>4, <1>6, <2>2 DEF TypeOK, HandleOffline, Take
  <2> QED BY <2>1, <2>2
<1>7. CASE ConfirmOnline
  <2>1. CASE consumer.event = e
    BY <1>3, <1>7, <2>1 DEF EvidenceInv, Unsaid, ConfirmOnline
  <2>2. CASE consumer.event # e
    BY <1>2, <1>4, <1>7, <2>2 DEF TypeOK, ConfirmOnline
  <2> QED BY <2>1, <2>2
<1>8. CASE Settle
  BY <1>2, <1>4, <1>8 DEF TypeOK, Settle, Waiting
<1>9. ASSUME UNCHANGED <<queue, consumer>> PROVE KeptInv(e)'
  BY <1>2, <1>4, <1>9
<1> QED
  BY <1>1, <1>5, <1>6, <1>7, <1>8, <1>9
     DEF Next, Consume, Connect, Disconnect, Serve, Scan, FlushRaises, Closed, Flush, FlushGone,
         RunTask, Supply, Wake, NothingFound, Post, Destroy, ReadKeys, vars

-----------------------------------------------------------------------------
(* The theorems.                                                            *)

LEMMA SenderInvInit == Init => SenderInv
<1> SUFFICES ASSUME Init PROVE SenderInv
  OBVIOUS
<1>1. ConsumerInv /\ SessionInv
  BY DEF Init, ConsumerInv, SessionInv, Waiting
<1>2. ASSUME NEW e \in Event PROVE EvidenceInv(e) /\ KeptInv(e) /\ ~ Kept(e)
  <2>1. /\ pending[<<"set", <<"sent", e>>>>] = 0
        /\ pending[<<"set", <<"unsent", e>>>>] = 0
        /\ pending[<<"delete", <<"unsent", e>>>>] = 0
    BY OpIsTask DEF Init, Kind
  <2> QED BY <2>1 DEF Init, EvidenceInv, Unsaid, KeptInv, Kept, Stored, Waiting, Asleep
<1>3. ASSUME NEW e \in Event, NEW s \in Session
      PROVE  OwnerInv(e, s) /\ TwiceInv(e, s) /\ OnceInv(e, s)
  <2>1. shown[e][s] = 0 /\ todo[s] = {} /\ ~ Kept(e)
    BY <1>2 DEF Init
  <2> QED BY <2>1 DEF OwnerInv, TwiceInv, OnceInv
<1> QED BY <1>1, <1>2, <1>3, InitType DEF SenderInv

LEMMA SenderInvStep == SenderInv /\ [Next]_vars => SenderInv'
<1> SUFFICES ASSUME SenderInv, [Next]_vars PROVE SenderInv'
  OBVIOUS
<1>1. TypeOK /\ ConsumerInv /\ SessionInv
  BY DEF SenderInv
<1>2. TypeOK' /\ ConsumerInv' /\ SessionInv'
  BY <1>1, TypeStep, ConsumerStep, SessionStep
<1>3. \A e \in Event : EvidenceInv(e)'
  BY <1>1, EvidenceStep DEF SenderInv
<1>4. ASSUME NEW e \in Event, NEW s \in Session PROVE OwnerInv(e, s)' /\ TwiceInv(e, s)'
  <2>1. OwnerInv(e, s) /\ TwiceInv(e, s)
    BY DEF SenderInv
  <2>2. OwnerInv(e, s)'
    BY <1>1, <2>1, OwnerStep
  <2> QED BY <1>1, <1>2, <2>1, <2>2, TwiceStep
<1>5. ASSUME faults' = 0
      PROVE  \A e \in Event : KeptInv(e)' /\ \A s \in Session : OnceInv(e, s)'
  <2>1. faults = 0
    <3>1. ~ Failure
      BY <1>1, <1>5, FailureCounts
    <3> QED BY <1>5, <3>1 DEF Next, Consume, HandleOnline, HandleOffline, ConfirmOnline, Settle,
                Enqueue, Connect, Disconnect, Serve, Scan, FlushRaises, Closed, Flush, FlushGone,
                RunTask, Supply, Wake, NothingFound, Post, Destroy, ReadKeys, vars
  <2> QED BY <1>1, <1>5, <2>1, KeptInvStep, OnceStep DEF SenderInv
<1> QED BY <1>2, <1>3, <1>4, <1>5 DEF SenderInv

LEMMA SenderInvHolds == Spec => []SenderInv
BY SenderInvInit, SenderInvStep, PTL DEF Spec

\* The variables keep their types.
THEOREM SenderTypeCorrect == Spec => []TypeOK
<1>1. SenderInv => TypeOK
  BY DEF SenderInv
<1> QED BY <1>1, SenderInvHolds, PTL

\* What notification-service is told to be sent was written to a connection, however
\* background tasks, reports and failures meet.
THEOREM SenderSentMeansShown == Spec => []SentMeansShown
<1>1. SenderInv => SentMeansShown
  BY DEF SenderInv, EvidenceInv, Unsaid, SentMeansShown
<1> QED BY <1>1, SenderInvHolds, PTL

\* A notification is written to connections of its owner only, and to each of them once,
\* or once more for each failure.
THEOREM SenderShownToOwnerOnce == Spec => []ShownToOwnerOnce
<1>1. ASSUME SenderInv, NEW e \in Event, NEW s \in Session
      PROVE  (shown[e][s] > 0 => Owner[e] = user[s]) /\ shown[e][s] <= 1 + faults
  <2>1. shown[e][s] \in Nat /\ faults \in Nat
    BY <1>1 DEF SenderInv, TypeOK
  <2>2. OwnerInv(e, s) /\ TwiceInv(e, s) /\ (faults = 0 => OnceInv(e, s))
    BY <1>1 DEF SenderInv
  <2>3. shown[e][s] <= 2
    BY <2>1, <2>2 DEF TwiceInv
  <2> QED BY <2>1, <2>2, <2>3 DEF OwnerInv, OnceInv
<1>2. SenderInv => ShownToOwnerOnce
  BY <1>1 DEF ShownToOwnerOnce
<1> QED BY <1>2, SenderInvHolds, PTL

\* While nothing fails, a message that has left the queue was shown, or waits in Redis for
\* the next connection.
THEOREM SenderNothingVanishes == Spec => []NothingVanishes
<1>1. SenderInv => NothingVanishes
  BY DEF SenderInv, KeptInv, NothingVanishes
<1> QED BY <1>1, SenderInvHolds, PTL

=============================================================================
