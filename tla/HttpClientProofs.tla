-------------------------- MODULE HttpClientProofs --------------------------
(***************************************************************************)
(* post_sync for any URLs and any number of calls.  EventLoop says how the *)
(* queue, the operation, the timer and the locals of sync_do_with_deadline *)
(* go together, whatever was cancelled and in whichever order handlers     *)
(* were queued; Unread, that an answer is outstanding only on the          *)
(* connection of the call under way.                                       *)
(***************************************************************************)
EXTENDS HttpClient, SequenceTheorems, TLAPS

Queues == {<< >>, <<"op">>, <<"timer">>, <<"op", "timer">>, <<"timer", "op">>}
HasOp(r)    == r \in {<<"op">>, <<"op", "timer">>, <<"timer", "op">>}
HasTimer(r) == r \in {<<"timer">>, <<"op", "timer">>, <<"timer", "op">>}

Stages == {"resolve", "connect", "handshake", "write", "read"}

\* Handlers are queued for what has ended, and only for that.
Queued(o, t, r) ==
  /\ o \in {"none", "waiting", "ok", "error"} /\ t \in {"none", "waiting", "queued"}
  /\ r \in Queues
  /\ o \in {"ok", "error"} <=> HasOp(r)
  /\ t = "queued" <=> HasTimer(r)

EventLoop ==
  /\ stage \in Stages \union {"idle"}
  /\ Queued(op, timer, ready)
  /\ f_result \in Results
  /\ timer_expired \in BOOLEAN /\ timer_cancelled \in BOOLEAN /\ cancelled \in BOOLEAN
  /\ stage = "idle" => op = "none" /\ timer = "none" /\ f_result = "none" /\ ~timer_expired
  \* With a result nothing is left to wait for but the timer's handler.
  /\ timer_cancelled <=> f_result # "none"
  /\ f_result # "none" => op = "none" /\ timer # "waiting"
  \* The timer's handler has run when the call is timed out, and only then
  \* can an operation have ended without a result.
  /\ timer_expired => timer = "none"
  /\ cancelled /\ stage # "idle" => timer_expired
  /\ stage # "idle" /\ op = "none" => timer_expired \/ f_result # "none"
-----------------------------------------------------------------------------
\* A second element appended to a queue of one.
LEMMA AppendSecond ==
  ASSUME NEW a, NEW b
  PROVE  Append(<<a>>, b) = <<a, b>>
<1>1. <<a>> \in Seq({a, b}) /\ <<a, b>> \in Seq({a, b})
  OBVIOUS
<1>2. /\ Len(<<a>>) = 1 /\ <<a>>[1] = a
      /\ Len(<<a, b>>) = 2 /\ <<a, b>>[1] = a /\ <<a, b>>[2] = b
  OBVIOUS
<1>3. /\ Append(<<a>>, b) \in Seq({a, b}) /\ Len(Append(<<a>>, b)) = 2
      /\ Append(<<a>>, b)[1] = a /\ Append(<<a>>, b)[2] = b
  BY <1>1, <1>2, AppendProperties
<1>4. \A i \in 1..2 : Append(<<a>>, b)[i] = <<a, b>>[i]
  BY <1>2, <1>3
<1>5. Len(Append(<<a>>, b)) = Len(<<a, b>>)
  BY <1>2, <1>3
<1>6. \A i \in 1..Len(Append(<<a>>, b)) : Append(<<a>>, b)[i] = <<a, b>>[i]
  BY <1>3, <1>4
<1> QED
  BY <1>1, <1>3, <1>5, <1>6, SeqEqual, Zenon

\* The queues are told apart.
LEMMA QueuesDiffer ==
  /\ ~HasOp(<< >>) /\ ~HasTimer(<< >>)
  /\ HasOp(<<"op">>) /\ ~HasTimer(<<"op">>)
  /\ ~HasOp(<<"timer">>) /\ HasTimer(<<"timer">>)
  /\ HasOp(<<"op", "timer">>) /\ HasTimer(<<"op", "timer">>)
  /\ HasOp(<<"timer", "op">>) /\ HasTimer(<<"timer", "op">>)
BY DEF HasOp, HasTimer

\* A handler is queued.
LEMMA Queue ==
  ASSUME NEW r \in Queues
  PROVE  /\ ~HasOp(r) => /\ Append(r, "op") \in Queues /\ HasOp(Append(r, "op"))
                         /\ HasTimer(Append(r, "op")) <=> HasTimer(r)
         /\ ~HasTimer(r) => /\ Append(r, "timer") \in Queues /\ HasTimer(Append(r, "timer"))
                            /\ HasOp(Append(r, "timer")) <=> HasOp(r)
<1>1. /\ Append(<< >>, "op") = <<"op">> /\ Append(<< >>, "timer") = <<"timer">>
      /\ Append(<<"op">>, "timer") = <<"op", "timer">>
      /\ Append(<<"timer">>, "op") = <<"timer", "op">>
  BY AppendSecond
<1>2. CASE r = << >>
  BY <1>1, <1>2, QueuesDiffer DEF Queues
<1>3. CASE r = <<"op">>
  BY <1>1, <1>3, QueuesDiffer DEF Queues
<1>4. CASE r = <<"timer">>
  BY <1>1, <1>4, QueuesDiffer DEF Queues
<1>5. CASE r \in {<<"op", "timer">>, <<"timer", "op">>}
  BY <1>5 DEF HasOp, HasTimer
<1> QED
  BY <1>2, <1>3, <1>4, <1>5 DEF Queues

\* A handler is taken from the queue.
LEMMA Dequeue ==
  ASSUME NEW r \in Queues, r # << >>
  PROVE  /\ Tail(r) \in Queues
         /\ Head(r) = "op" => /\ HasOp(r) /\ ~HasOp(Tail(r))
                              /\ HasTimer(Tail(r)) <=> HasTimer(r)
         /\ Head(r) = "timer" => /\ HasTimer(r) /\ ~HasTimer(Tail(r))
                                 /\ HasOp(Tail(r)) <=> HasOp(r)
<1>1. /\ Tail(<<"op">>) = << >> /\ Tail(<<"timer">>) = << >>
      /\ Tail(<<"op", "timer">>) = <<"timer">> /\ Tail(<<"timer", "op">>) = <<"op">>
      /\ Head(<<"op">>) = "op" /\ Head(<<"timer">>) = "timer"
      /\ Head(<<"op", "timer">>) = "op" /\ Head(<<"timer", "op">>) = "timer"
  OBVIOUS
<1>2. CASE r = <<"op">>
  BY <1>1, <1>2, QueuesDiffer DEF Queues
<1>3. CASE r = <<"timer">>
  BY <1>1, <1>3, QueuesDiffer DEF Queues
<1>4. CASE r = <<"op", "timer">>
  BY <1>1, <1>4, QueuesDiffer DEF Queues
<1>5. CASE r = <<"timer", "op">>
  BY <1>1, <1>5, QueuesDiffer DEF Queues
<1> QED
  BY <1>2, <1>3, <1>4, <1>5 DEF Queues

\* The empty queue holds neither an operation nor the timer, and only it does.
LEMMA EmptyQueue ==
  /\ << >> \in Queues /\ ~HasOp(<< >>) /\ ~HasTimer(<< >>)
  /\ \A r \in Queues : ~HasOp(r) /\ ~HasTimer(r) => r = << >>
BY DEF Queues, HasOp, HasTimer
-----------------------------------------------------------------------------
(***************************************************************************)
(* The body of the loop, after whichever handler: a result cancels the     *)
(* timer, an expiry without a result cancels the operation.                *)
(***************************************************************************)
LEMMA BodyKeeps ==
  ASSUME NEW fr \in Results, NEW e \in BOOLEAN, NEW s \in Stages, NEW o, NEW t, NEW r,
         Queued(o, t, r),
         timer_cancelled \in BOOLEAN, timer_cancelled => fr # "none",
         cancelled \in BOOLEAN, cancelled => e,
         fr # "none" => o = "none", timer_cancelled => t # "waiting",
         e => t = "none",
         fr = "none" /\ o = "none" => e,
         LoopBody(fr, e, s, o, t, r)
  PROVE  EventLoop'
<1> USE DEF LoopBody, Queued
<1>1. CASE fr # "none" /\ t = "waiting"
  <2>1. /\ Append(r, "timer") \in Queues /\ HasTimer(Append(r, "timer"))
        /\ HasOp(Append(r, "timer")) <=> HasOp(r)
    BY <1>1, Queue
  <2>2. /\ f_result' = fr /\ timer_expired' = e /\ stage' = s /\ timer_cancelled' = TRUE
        /\ timer' = "queued" /\ ready' = Append(r, "timer") /\ op' = o /\ UNCHANGED cancelled
    BY <1>1
  <2> QED
    BY <1>1, <2>1, <2>2 DEF EventLoop, Stages, Results
<1>2. CASE fr # "none" /\ t # "waiting"
  BY <1>2 DEF EventLoop, Stages, Results
<1>3. CASE fr = "none" /\ ~e
  BY <1>3 DEF EventLoop, Stages, Results
<1>4. CASE fr = "none" /\ e /\ s \in {"resolve", "connect"}
  BY <1>4 DEF EventLoop, Cancel, Stages, Results
<1>5. CASE fr = "none" /\ e /\ s \notin {"resolve", "connect"} /\ o = "waiting"
  <2>1. /\ Append(r, "op") \in Queues /\ HasOp(Append(r, "op"))
        /\ HasTimer(Append(r, "op")) <=> HasTimer(r)
    BY <1>5, Queue
  <2>2. /\ f_result' = fr /\ timer_expired' = e /\ stage' = s /\ UNCHANGED timer_cancelled
        /\ timer' = t /\ ready' = Append(r, "op") /\ op' = "error" /\ UNCHANGED cancelled
    BY <1>5 DEF Cancel
  <2> QED
    BY <1>5, <2>1, <2>2 DEF EventLoop, Stages, Results
<1>6. CASE fr = "none" /\ e /\ s \notin {"resolve", "connect"} /\ o # "waiting"
  BY <1>6 DEF EventLoop, Cancel, Stages, Results
<1> QED
  BY <1>1, <1>2, <1>3, <1>4, <1>5, <1>6

\* An operation begun with its timer leaves a queue the loop can empty.
LEMMA BeginKeeps ==
  ASSUME NEW s \in Stages, Begin(s)
  PROVE  EventLoop'
BY EmptyQueue DEF Begin, EventLoop, Queued, Stages, Results

\* post_sync returns to its caller with nothing left in the event loop.
LEMMA ReturnKeeps ==
  ASSUME EventLoop, LoopOver \/ stage = "idle", NEW result, Return(result)
  PROVE  EventLoop'
BY EmptyQueue DEF Return, LoopOver, EventLoop, Queued, Stages, Results

\* The client starts with an empty event loop.
LEMMA EventLoopInit == Init => EventLoop
BY EmptyQueue DEF Init, EventLoop, Queued, Stages, Results

\* Every step of the client keeps the event loop sound.
LEMMA EventLoopNext == EventLoop /\ [Next]_vars => EventLoop'
<1> SUFFICES ASSUME EventLoop, [Next]_vars PROVE EventLoop'
  OBVIOUS
<1>1. CASE RunTimer
  <2>1. /\ ready \in Queues /\ ready # << >> /\ Head(ready) = "timer"
        /\ LoopBody(f_result, timer_expired \/ ~timer_cancelled, stage, op, "none", Tail(ready))
    BY <1>1 DEF RunTimer, EventLoop, Queued
  <2>2. timer = "queued" /\ stage \in Stages
    BY <2>1, Dequeue DEF EventLoop, Queued
  <2>3. Queued(op, "none", Tail(ready))
    BY <2>1, Dequeue DEF EventLoop, Queued
  <2> QED
    BY <2>1, <2>2, <2>3, BodyKeeps DEF EventLoop
<1>2. ASSUME ready # << >>, Head(ready) = "op"
      PROVE  /\ op \in {"ok", "error"} /\ stage \in Stages /\ f_result = "none" /\ ~timer_cancelled
             /\ \A o \in {"none", "waiting"} : Queued(o, timer, Tail(ready))
  BY <1>2, Dequeue DEF EventLoop, Queued
<1>3. CASE RunResolve
  <2>1. ready # << >> /\ Head(ready) = "op" /\ stage = "resolve"
    BY <1>3 DEF RunResolve
  <2>2. CASE op = "error"
    <3>1. LoopBody("error", timer_expired, stage, "none", timer, Tail(ready))
      BY <1>3, <2>2 DEF RunResolve
    <3> QED
      BY <1>2, <2>1, <3>1, BodyKeeps DEF EventLoop, Results
  <2>3. CASE op = "ok" /\ ~cancelled
    <3>1. LoopBody("none", timer_expired, "connect", "waiting", timer, Tail(ready))
      BY <1>3, <2>3 DEF RunResolve
    <3> QED
      BY <1>2, <2>1, <2>3, <3>1, BodyKeeps DEF EventLoop, Results, Stages
  <2>4. CASE op = "ok" /\ cancelled
    <3>1. LoopBody("none", timer_expired, stage, "none", timer, Tail(ready))
      BY <1>3, <2>4 DEF RunResolve
    <3> QED
      BY <1>2, <2>1, <2>4, <3>1, BodyKeeps DEF EventLoop, Results
  <2> QED
    BY <1>2, <2>1, <2>2, <2>3, <2>4 DEF EventLoop
<1>4. CASE RunLast
  <2>1. /\ ready # << >> /\ Head(ready) = "op"
        /\ LoopBody(op, timer_expired, stage, "none", timer, Tail(ready))
    BY <1>4 DEF RunLast
  <2> QED
    BY <1>2, <2>1, BodyKeeps DEF EventLoop, Results
<1>5. CASE RunPartial
  <2>1. /\ ready # << >> /\ Head(ready) = "op"
        /\ \/ LoopBody("none", timer_expired, stage, "waiting", timer, Tail(ready))
           \/ \E o \in {"ok", "error"} :
                LoopBody("none", timer_expired, stage, o, timer, Append(Tail(ready), "op"))
    BY <1>5 DEF RunPartial
  <2>2. CASE LoopBody("none", timer_expired, stage, "waiting", timer, Tail(ready))
    BY <1>2, <2>1, <2>2, BodyKeeps DEF EventLoop, Results
  <2>3. ASSUME NEW o \in {"ok", "error"},
               LoopBody("none", timer_expired, stage, o, timer, Append(Tail(ready), "op"))
        PROVE  EventLoop'
    <3>1. Queued(o, timer, Append(Tail(ready), "op"))
      <4>1. Tail(ready) \in Queues /\ ~HasOp(Tail(ready)) /\ (timer = "queued" <=> HasTimer(Tail(ready)))
        BY <2>1, Dequeue DEF EventLoop, Queued
      <4> QED
        BY <4>1, Queue DEF EventLoop, Queued
    <3> QED
      BY <1>2, <2>1, <2>3, <3>1, BodyKeeps DEF EventLoop, Results
  <2> QED
    BY <2>1, <2>2, <2>3
<1>6. ASSUME NEW u \in Urls, Post(u) PROVE EventLoop'
  <2>1. \/ Begin("write") \/ Begin("resolve") \/ Return("throw")
    BY <1>6, Zenon DEF Post, GetConnection
  <2> QED
    BY <1>6, <2>1, BeginKeeps, ReturnKeeps DEF Post, Stages
<1>7. ASSUME NEW u \in Urls, PostNoSocket(u) PROVE EventLoop'
  BY <1>7, ReturnKeeps DEF PostNoSocket
<1>8. CASE Connected
  <2>1. LoopOver /\ (Begin("handshake") \/ Begin("write") \/ Return("throw"))
    BY <1>8 DEF Connected
  <2> QED
    BY <2>1, BeginKeeps, ReturnKeeps DEF Stages
<1>9. CASE Written
  <2>1. LoopOver /\ (Begin("read") \/ Return("throw"))
    BY <1>9 DEF Written
  <2> QED
    BY <2>1, BeginKeeps, ReturnKeeps DEF Stages
<1>10. CASE ReadDone
  <2>1. LoopOver /\ (Return("ok") \/ Return("throw"))
    BY <1>10 DEF ReadDone
  <2> QED
    BY <2>1, ReturnKeeps
<1>11. CASE TimerExpires
  BY <1>11, Queue DEF TimerExpires, EventLoop, Queued
<1>12. CASE Completes
  BY <1>12, Queue DEF Completes, EventLoop, Queued
<1>13. CASE DeadlinePasses \/ UNCHANGED vars
  BY <1>13 DEF DeadlinePasses, vars, loop, EventLoop, Queued
<1> QED
  BY <1>1, <1>3, <1>4, <1>5, <1>6, <1>7, <1>8, <1>9, <1>10, <1>11, <1>12, <1>13
  DEF Next, Client

\* At every moment of every post the queue holds what its stage and result allow
\* (http_client.cpp, sync_do_with_deadline).
THEOREM EventLoopSound == Spec => []EventLoop
BY EventLoopInit, EventLoopNext, PTL DEF Spec

(***************************************************************************)
(* A loop that is over has a result or an expiry, and a call that is over  *)
(* has nothing under way or queued.                                        *)
(***************************************************************************)
THEOREM LoopAlwaysEmpties == Spec => []LoopLeavesNothing
<1>1. EventLoop => LoopLeavesNothing
  BY EmptyQueue DEF EventLoop, Queued, LoopLeavesNothing, LoopOver
<1> QED
  BY <1>1, EventLoopSound, PTL

(***************************************************************************)
(* A timer's handler that runs after the result does not make a timeout of *)
(* it.                                                                     *)
(***************************************************************************)
THEOREM ResultAlwaysStands == Spec => ResultStands
<1> DEFINE Stands == f_result # "none" /\ f_result' = f_result /\ ~timer_expired => ~timer_expired'
<1>1. ASSUME EventLoop, Next PROVE Stands
  <2>1. CASE RunTimer
    BY <1>1, <2>1 DEF RunTimer, LoopBody, EventLoop
  <2>2. CASE RunResolve \/ RunLast \/ RunPartial
    BY <2>2 DEF RunResolve, RunLast, RunPartial, LoopBody
  <2>3. ASSUME NEW u \in Urls, Post(u) PROVE Stands
    BY <2>3, Zenon DEF Post, GetConnection, Begin, Return
  <2>4. ASSUME NEW u \in Urls, PostNoSocket(u) PROVE Stands
    BY <2>4 DEF PostNoSocket, Return
  <2>5. CASE Connected \/ Written \/ ReadDone
    BY <2>5 DEF Connected, Written, ReadDone, Begin, Return
  <2>6. CASE TimerExpires \/ Completes \/ DeadlinePasses
    BY <2>6 DEF TimerExpires, Completes, DeadlinePasses, loop
  <2> QED
    BY <1>1, <2>1, <2>2, <2>3, <2>4, <2>5, <2>6 DEF Next, Client
<1>2. EventLoop /\ [Next]_vars => [Stands]_vars
  BY <1>1
<1> QED
  BY <1>2, EventLoopSound, PTL DEF Spec, ResultStands
-----------------------------------------------------------------------------
\* The connection of the call under way, from the write on.
Busy(k) == k = key /\ stage \in {"write", "read"}

(***************************************************************************)
(* Which answers are outstanding: none but on the busy connection, where   *)
(* it is the present request's, from the end of the write to that of the   *)
(* read.                                                                   *)
(***************************************************************************)
Unread ==
  /\ \A k \in DOMAIN conns : /\ "unread" \in DOMAIN conns[k]
                             /\ ~Busy(k) => conns[k].unread = << >>
  /\ stage \in {"write", "read"} => key \in DOMAIN conns
  /\ stage = "write" =>
       CASE f_result = "none" -> conns[key].unread = << >>
         [] f_result = "ok" -> conns[key].unread = <<calls>>
         [] OTHER -> conns[key].unread \in {<< >>, <<calls>>}
  /\ stage = "read" =>
       CASE f_result = "none" -> conns[key].unread = <<calls>>
         [] f_result = "ok" -> conns[key].unread = << >>
         [] OTHER -> conns[key].unread \in {<< >>, <<calls>>}
  /\ AnswersItsRequest

\* No connection is cached at the start, so nothing is unread.
LEMMA UnreadInit == Init => Unread
BY DEF Init, Unread, AnswersItsRequest

\* Steps that neither begin an operation on a connection nor end one.
LEMMA UnreadSame ==
  ASSUME Unread, UNCHANGED <<conns, calls, dest, last>>,
         \/ stage' = stage /\ f_result' = f_result
         \/ stage \notin {"write", "read"} /\ stage' \notin {"write", "read"}
  PROVE  Unread'
BY DEF Unread, Busy, key, url_to_host_key, AnswersItsRequest

\* A return on which the connection is as it should be, or dropped.
LEMMA UnreadReturn ==
  ASSUME Unread, NEW result, Return(result),
         \/ conns' = conns /\ \A k \in DOMAIN conns : conns[k].unread = << >>
         \/ conns' = Erased(key)
  PROVE  Unread'
<1>1. stage' = "idle" /\ last'.request = calls'
      /\ last'.answer = IF last.request = calls' THEN last.answer ELSE 0
  BY DEF Return
<1>2. \A k \in DOMAIN conns' : /\ k \in DOMAIN conns /\ conns'[k] = conns[k]
                               /\ conns[k].unread = << >>
  BY DEF Erased, Unread, Busy
<1> QED
  BY <1>1, <1>2 DEF Unread, AnswersItsRequest, Busy

\* A write begins on a connection with nothing outstanding, kept or new.
LEMMA UnreadBegin ==
  ASSUME Unread, stage \notin {"write", "read"}, Begin("write"), UNCHANGED last,
         \/ conns' = conns /\ key' \in DOMAIN conns
         \/ conns' = Put(key', NewConnection')
  PROVE  Unread'
<1>1. \A k \in DOMAIN conns : "unread" \in DOMAIN conns[k] /\ conns[k].unread = << >>
  BY DEF Unread, Busy
<1>2. "unread" \in DOMAIN NewConnection' /\ (NewConnection').unread = << >>
  BY DEF NewConnection
<1> DEFINE host_key == key'
           con == NewConnection'
<1>3. \/ conns' = conns /\ host_key \in DOMAIN conns
      \/ conns' = Put(host_key, con)
  OBVIOUS
<1>4. "unread" \in DOMAIN con /\ con.unread = << >>
  BY <1>2
<1> HIDE DEF host_key, con
<1>5. /\ host_key \in DOMAIN conns'
      /\ \A k \in DOMAIN conns' : "unread" \in DOMAIN conns'[k] /\ conns'[k].unread = << >>
  BY <1>1, <1>3, <1>4 DEF Put
<1> QED
  BY <1>5 DEF host_key, Begin, Unread, AnswersItsRequest

\* Every step keeps on each cached connection no answer but that of the current call.
LEMMA UnreadNext == EventLoop /\ Unread /\ [Next]_vars => Unread'
<1> SUFFICES ASSUME EventLoop, Unread, [Next]_vars PROVE Unread'
  OBVIOUS
<1>1. CASE RunTimer \/ RunResolve \/ RunPartial
  <2>1. ready # << >> /\ Head(ready) = "op" => f_result = "none"
    BY Dequeue DEF EventLoop, Queued
  <2>2. UNCHANGED <<conns, calls, dest, last>>
    BY <1>1 DEF RunTimer, RunResolve, RunPartial, call
  <2>3. CASE RunTimer \/ RunPartial
    <3>1. stage' = stage /\ f_result' = f_result
      BY <2>1, <2>3 DEF RunTimer, RunPartial, LoopBody
    <3> QED
      BY <2>2, <3>1, UnreadSame
  <2>4. CASE RunResolve
    <3>1. stage = "resolve" /\ stage' \in {"resolve", "connect"}
      BY <2>4 DEF RunResolve, LoopBody
    <3> QED
      BY <2>2, <3>1, UnreadSame
  <2> QED
    BY <1>1, <2>3, <2>4
<1>2. CASE RunLast
  <2>1. /\ op \in {"ok", "error"} /\ f_result = "none" /\ f_result' = op
        /\ stage' = stage /\ stage # "idle" /\ UNCHANGED <<calls, dest, key>>
    BY <1>2, Dequeue DEF RunLast, LoopBody, EventLoop, Queued, call, key, url_to_host_key
  <2>2. CASE stage \notin {"write", "read"} \/ (stage = "read" /\ op = "error")
    <3>1. UNCHANGED <<conns, last>>
      BY <1>2, <2>1, <2>2 DEF RunLast
    <3>2. CASE stage \notin {"write", "read"}
      BY <2>1, <3>1, <3>2, UnreadSame
    <3>3. CASE stage = "read" /\ op = "error"
      BY <2>1, <3>1, <3>3 DEF Unread, Busy, AnswersItsRequest
    <3> QED
      BY <2>2, <3>2, <3>3
  <2>3. CASE stage = "write"
    <3>1. conns[key].unread = << >> /\ key \in DOMAIN conns /\ "unread" \in DOMAIN conns[key]
      BY <2>1, <2>3 DEF Unread
    <3>2. CASE op = "error" /\ UNCHANGED <<conns, last>>
      BY <2>1, <2>3, <3>2 DEF Unread, Busy, AnswersItsRequest
    <3>3. CASE /\ conns' = Put(key, [conns[key] EXCEPT !.unread = Append(@, calls)])
               /\ UNCHANGED last
      <4> DEFINE row == [conns[key] EXCEPT !.unread = Append(@, calls)]
      <4>1. "unread" \in DOMAIN row /\ row.unread = <<calls>>
        BY <3>1
      <4>2. conns' = Put(key, row)
        BY <3>3
      <4> HIDE DEF row
      <4>3. /\ DOMAIN conns' = DOMAIN conns /\ conns'[key] = row
            /\ \A k \in DOMAIN conns : k # key => conns'[k] = conns[k]
        BY <3>1, <4>2 DEF Put
      <4> QED
        BY <2>1, <2>3, <3>1, <3>3, <4>1, <4>3 DEF Unread, Busy, AnswersItsRequest
    <3> QED
      BY <1>2, <2>3, <3>2, <3>3 DEF RunLast
  <2>4. CASE stage = "read" /\ op = "ok"
    <3>1. /\ conns[key].unread = <<calls>> /\ key \in DOMAIN conns
          /\ "unread" \in DOMAIN conns[key]
      BY <2>1, <2>4 DEF Unread
    <3>2. /\ conns' = Put(key, [conns[key] EXCEPT !.unread = Tail(@)])
          /\ last' = [request |-> calls, result |-> "none", answer |-> Head(conns[key].unread)]
      BY <1>2, <2>4 DEF RunLast
    <3>3. AnswersItsRequest'
      BY <3>1, <3>2 DEF AnswersItsRequest
    <3> DEFINE row == [conns[key] EXCEPT !.unread = Tail(@)]
    <3>4. "unread" \in DOMAIN row /\ row.unread = << >>
      BY <3>1
    <3>5. conns' = Put(key, row)
      BY <3>2
    <3> HIDE DEF row
    <3>6. /\ DOMAIN conns' = DOMAIN conns /\ conns'[key] = row
          /\ \A k \in DOMAIN conns : k # key => conns'[k] = conns[k]
      BY <3>1, <3>5 DEF Put
    <3> QED
      BY <2>1, <2>4, <3>1, <3>3, <3>4, <3>6 DEF Unread, Busy
  <2> QED
    BY <2>1, <2>2, <2>3, <2>4
<1>3. ASSUME NEW u \in Urls, Post(u) PROVE Unread'
  <2>1. stage = "idle"
    BY <1>3 DEF Post
  <2>2. \/ Begin("write") /\ UNCHANGED last /\ conns' = conns /\ key' \in DOMAIN conns
        \/ Begin("write") /\ UNCHANGED last /\ conns' = Put(key', NewConnection')
        \/ Begin("resolve") /\ UNCHANGED <<conns, last>>
        \/ Return("throw") /\ UNCHANGED conns
    BY <1>3, Zenon DEF Post, GetConnection
  <2>3. CASE Begin("resolve") /\ UNCHANGED <<conns, last>>
    BY <2>1, <2>3 DEF Begin, Unread, Busy, AnswersItsRequest
  <2>4. CASE Return("throw") /\ UNCHANGED conns
    <3>1. \A k \in DOMAIN conns : conns[k].unread = << >>
      BY <2>1 DEF Unread, Busy
    <3> QED
      BY <2>4, <3>1, UnreadReturn
  <2> QED
    BY <2>1, <2>2, <2>3, <2>4, UnreadBegin
<1>4. ASSUME NEW u \in Urls, PostNoSocket(u) PROVE Unread'
  <2>1. \A k \in DOMAIN conns : conns[k].unread = << >>
    BY <1>4 DEF PostNoSocket, Unread, Busy
  <2> QED
    BY <1>4, <2>1, UnreadReturn DEF PostNoSocket
<1>5. CASE Connected
  <2>1. stage \in {"resolve", "connect", "handshake"} /\ UNCHANGED <<calls, dest>>
    BY <1>5 DEF Connected, call
  <2>2. \/ Return("throw") /\ UNCHANGED conns
        \/ Begin("handshake") /\ UNCHANGED <<conns, last>>
        \/ Begin("write") /\ conns' = Put(key, NewConnection) /\ UNCHANGED last
    BY <1>5 DEF Connected
  <2>3. \A k \in DOMAIN conns : conns[k].unread = << >>
    BY <2>1 DEF Unread, Busy
  <2>4. CASE Return("throw") /\ UNCHANGED conns
    BY <2>3, <2>4, UnreadReturn
  <2>5. CASE Begin("handshake") /\ UNCHANGED <<conns, last>>
    BY <2>1, <2>5, UnreadSame DEF Begin
  <2>6. CASE Begin("write") /\ conns' = Put(key, NewConnection) /\ UNCHANGED last
    <3>1. key' = key /\ NewConnection' = NewConnection
      BY <2>1 DEF key, url_to_host_key, NewConnection, Endpoint
    <3> QED
      BY <2>1, <2>6, <3>1, UnreadBegin
  <2> QED
    BY <2>2, <2>4, <2>5, <2>6
<1>6. CASE Written
  <2>1. CASE Return("throw") /\ conns' = Erased(key)
    BY <2>1, UnreadReturn
  <2>2. CASE error_code = "ok" /\ Begin("read") /\ UNCHANGED <<conns, last>>
    <3>1. f_result = "ok" /\ stage = "write" /\ UNCHANGED <<calls, dest, key>>
      BY <1>6, <2>2 DEF error_code, Written, call, key, url_to_host_key
    <3> QED
      BY <2>2, <3>1 DEF Begin, Unread, Busy, AnswersItsRequest
  <2> QED
    BY <1>6, <2>1, <2>2 DEF Written
<1>7. CASE ReadDone
  <2>1. CASE conns' = Erased(key)
    BY <1>7, <2>1, UnreadReturn DEF ReadDone
  <2>2. CASE error_code = "ok" /\ conns' = conns
    <3>1. f_result = "ok" /\ stage = "read"
      BY <1>7, <2>2 DEF error_code, ReadDone
    <3>2. \A k \in DOMAIN conns : conns[k].unread = << >>
      BY <3>1 DEF Unread, Busy
    <3> QED
      BY <1>7, <2>2, <3>2, UnreadReturn DEF ReadDone
  <2> QED
    BY <1>7, <2>1, <2>2 DEF ReadDone
<1>8. CASE TimerExpires \/ Completes \/ DeadlinePasses \/ UNCHANGED vars
  <2>1. UNCHANGED <<conns, calls, dest, last, stage, f_result>>
    BY <1>8 DEF TimerExpires, Completes, DeadlinePasses, vars, call, loop
  <2> QED
    BY <2>1, UnreadSame
<1> QED
  BY <1>1, <1>2, <1>3, <1>4, <1>5, <1>6, <1>7, <1>8 DEF Next, Client

(***************************************************************************)
(* What a call works on is the answer to its own request, however many     *)
(* calls before it were given up on the same connection.                   *)
(***************************************************************************)
THEOREM AlwaysAnswersItsRequest == Spec => []AnswersItsRequest
<1>1. Spec => []Unread
  BY UnreadInit, UnreadNext, EventLoopSound, PTL DEF Spec
<1>2. Unread => AnswersItsRequest
  BY DEF Unread
<1> QED
  BY <1>1, <1>2, PTL
-----------------------------------------------------------------------------
\* The rest of the type invariant.
Typed ==
  /\ calls \in 0..MaxCalls /\ bounded \in BOOLEAN /\ passed \in BOOLEAN
  /\ stage # "idle" => calls # 0
  /\ \A h \in DOMAIN unixUrls : unixUrls[h] \in Sockets[h]
  /\ last \in [request : 0..calls, result : {"none", "ok", "throw"}, answer : 0..calls]

\* A return records an answer no later than the calls made.
LEMMA TypedReturn ==
  ASSUME calls \in Nat, calls' \in Nat, calls' >= calls, NEW result \in {"ok", "throw"},
         last \in [request : 0..calls, result : {"none", "ok", "throw"}, answer : 0..calls],
         Return(result)
  PROVE  last' \in [request : 0..calls', result : {"none", "ok", "throw"}, answer : 0..calls']
<1>1. last.answer \in 0..calls'
  OBVIOUS
<1>2. last' = [request |-> calls', result |-> result,
               answer |-> IF last.request = calls' THEN last.answer ELSE 0]
  BY DEF Return
<1> QED
  BY <1>1, <1>2

\* Every step keeps the variables of the client within their types.
LEMMA TypedNext == EventLoop /\ Unread /\ Typed /\ [Next]_vars => Typed'
<1> SUFFICES ASSUME EventLoop, Unread, Typed, [Next]_vars PROVE Typed'
  OBVIOUS
<1>0. MaxCalls \in Nat /\ calls \in Nat
  BY HttpConsts DEF Typed
\* The steps that take nothing new.
<1>1. ASSUME UNCHANGED <<calls, bounded, unixUrls>>, passed' \in BOOLEAN,
             stage # "idle" \/ stage' = stage,
             last' \in [request : 0..calls, result : {"none", "ok", "throw"}, answer : 0..calls]
      PROVE  Typed'
  BY <1>1 DEF Typed
<1>2. CASE \/ RunTimer \/ RunResolve \/ RunPartial \/ TimerExpires \/ Completes
           \/ DeadlinePasses \/ UNCHANGED vars
  <2>1. /\ UNCHANGED <<calls, bounded, unixUrls, last>> /\ passed' \in BOOLEAN
        /\ stage # "idle" \/ stage' = stage
    BY <1>2, Dequeue
    DEF RunTimer, RunResolve, RunPartial, LoopBody, TimerExpires, Completes, DeadlinePasses,
        vars, call, EventLoop, Queued, Typed
  <2> QED
    BY <1>1, <2>1 DEF Typed
<1>3. CASE RunLast
  <2>1. UNCHANGED <<calls, bounded, unixUrls, passed>> /\ stage' = stage
    BY <1>3 DEF RunLast, LoopBody, call
  <2>2. CASE stage = "read" /\ op = "ok"
    <3>1. conns[key].unread = <<calls>>
      BY <1>3, <2>2, Dequeue DEF RunLast, Unread, EventLoop, Queued
    <3>2. last' = [request |-> calls, result |-> "none", answer |-> Head(conns[key].unread)]
      BY <1>3, <2>2 DEF RunLast
    <3>3. Head(conns[key].unread) = calls
      BY <3>1
    <3> QED
      BY <1>0, <1>1, <2>1, <3>2, <3>3 DEF Typed
  <2>3. CASE ~(stage = "read" /\ op = "ok")
    <3>1. UNCHANGED last
      BY <1>3, <2>3 DEF RunLast
    <3> QED
      BY <1>1, <2>1, <3>1 DEF Typed
  <2> QED
    BY <2>2, <2>3
<1>4. ASSUME NEW u \in Urls, Post(u) PROVE Typed'
  <2>1. calls' = calls + 1 /\ calls' \in 0..MaxCalls /\ bounded' \in BOOLEAN /\ passed' = FALSE
    BY <1>0, <1>4 DEF Post, Typed
  <2>2. \A h \in DOMAIN unixUrls' : unixUrls'[h] \in Sockets[h]
    BY <1>4 DEF Post, GetUnixUrl, Typed
  <2>3. UNCHANGED last \/ Return("throw")
    BY <1>4, Zenon DEF Post, GetConnection
  <2>4. last' \in [request : 0..calls', result : {"none", "ok", "throw"}, answer : 0..calls']
    <3>1. CASE UNCHANGED last
      BY <1>0, <2>1, <3>1 DEF Typed
    <3>2. CASE Return("throw")
      BY <1>0, <2>1, <3>2, TypedReturn DEF Typed
    <3> QED
      BY <2>3, <3>1, <3>2
  <2>5. calls' # 0
    BY <1>0, <2>1
  <2> QED
    BY <2>1, <2>2, <2>4, <2>5 DEF Typed
<1>5. ASSUME NEW u \in Urls, PostNoSocket(u) PROVE Typed'
  <2>1. /\ calls' = calls + 1 /\ calls' \in 0..MaxCalls /\ UNCHANGED <<bounded, passed, unixUrls>>
        /\ Return("throw")
    BY <1>0, <1>5 DEF PostNoSocket, Typed
  <2>3. calls' # 0
    BY <1>0, <2>1
  <2>2. last' \in [request : 0..calls', result : {"none", "ok", "throw"}, answer : 0..calls']
    BY <1>0, <2>1, TypedReturn DEF Typed
  <2> QED
    BY <2>1, <2>2, <2>3 DEF Typed
<1>6. CASE Connected \/ Written \/ ReadDone
  <2>1. /\ UNCHANGED <<calls, bounded, unixUrls, passed>> /\ stage # "idle"
        /\ UNCHANGED last \/ \E result \in {"ok", "throw"} : Return(result)
    BY <1>6 DEF Connected, Written, ReadDone, LoopOver, call
  <2>2. last' \in [request : 0..calls, result : {"none", "ok", "throw"}, answer : 0..calls]
    <3>1. CASE UNCHANGED last
      BY <3>1 DEF Typed
    <3>2. ASSUME NEW result \in {"ok", "throw"}, Return(result)
          PROVE  last' \in [request : 0..calls', result : {"none", "ok", "throw"}, answer : 0..calls']
      BY <1>0, <2>1, <3>2, TypedReturn DEF Typed
    <3> QED
      BY <2>1, <3>1, <3>2
  <2> QED
    BY <1>1, <2>1, <2>2 DEF Typed
<1> QED
  BY <1>2, <1>3, <1>4, <1>5, <1>6 DEF Next, Client

\* Connections, the loop's queue and what calls return are as they should be.
THEOREM TypeCorrect == Spec => []TypeOK
<1>1. Init => Typed
  <2> SUFFICES ASSUME Init PROVE Typed
    OBVIOUS
  <2>1. calls = 0 /\ 0 \in 0..MaxCalls
    BY HttpConsts DEF Init
  <2>2. DOMAIN unixUrls = {}
    BY DEF Init
  <2>3. last \in [request : 0..0, result : {"none", "ok", "throw"}, answer : 0..0]
    BY DEF Init
  <2> QED
    BY <2>1, <2>2, <2>3 DEF Init, Typed
<1>2. Spec => []Unread
  BY UnreadInit, UnreadNext, EventLoopSound, PTL DEF Spec
<1>3. EventLoop /\ Unread /\ Typed => TypeOK
  <2> SUFFICES ASSUME EventLoop, Unread, Typed PROVE TypeOK
    OBVIOUS
  <2>1. ASSUME NEW k \in DOMAIN conns, NEW n \in DOMAIN conns[k].unread
        PROVE  conns[k].unread[n] \in 1..calls
    <3>1. conns[k].unread = << >> \/ (Busy(k) /\ conns[k].unread = <<calls>>)
      BY DEF Unread, Busy, EventLoop, Results
    <3>2. conns[k].unread = <<calls>> /\ calls # 0 /\ calls \in Nat
      BY <2>1, <3>1, HttpConsts DEF Typed, Busy
    <3> QED
      BY <2>1, <3>2
  <2> QED
    BY <2>1 DEF TypeOK, EventLoop, Queued, Queues, Unread, Typed, Stages, Results
<1> QED
  BY <1>1, <1>2, <1>3, TypedNext, EventLoopSound, PTL DEF Spec
-----------------------------------------------------------------------------
\* The URLs requests are made for: a unix URL is split first.
Dests == Urls \union UNION {{Split(u, s) : s \in Sockets[u.host]} : u \in Urls}

\* URLs under one host key stand for one endpoint.  An https URL without a port
\* and one with port 80 of the same host break this (url_to_host_key).
KeysTellApart ==
  \A d, e \in Dests : url_to_host_key(d) = url_to_host_key(e) => Endpoint(d) = Endpoint(e)

Routed ==
  /\ dest \in Dests
  /\ \A h \in DOMAIN unixUrls : unixUrls[h] \in Sockets[h]
  /\ \A d \in Dests : LET k == url_to_host_key(d)
                      IN  k \in DOMAIN conns => /\ "to" \in DOMAIN conns[k]
                                                /\ conns[k].to = Endpoint(d)

\* Steps that send no new connection anywhere.
LEMMA RoutedSame ==
  ASSUME Routed, UNCHANGED <<dest, unixUrls>>,
         \A k \in DOMAIN conns' : k \in DOMAIN conns /\ conns'[k] = conns[k]
  PROVE  Routed'
BY DEF Routed

\* A new connection, under the key of the present request.
LEMMA RoutedPut ==
  ASSUME Routed, KeysTellApart, dest' \in Dests,
         \A h \in DOMAIN unixUrls' : unixUrls'[h] \in Sockets[h],
         conns' = Put(key', NewConnection')
  PROVE  Routed'
<1> DEFINE k == key'
           con == NewConnection'
<1>1. conns' = Put(k, con) /\ "to" \in DOMAIN con /\ con.to = Endpoint(dest')
  BY DEF NewConnection, Endpoint
<1>2. k = url_to_host_key(dest')
  BY DEF key, url_to_host_key
<1> HIDE DEF k, con
<1>3. DOMAIN conns' = DOMAIN conns \union {k}
  BY <1>1 DEF Put
<1>4. \A j \in DOMAIN conns' : conns'[j] = IF j = k THEN con ELSE conns[j]
  BY <1>1 DEF Put
<1> QED
  BY <1>1, <1>2, <1>3, <1>4 DEF Routed, KeysTellApart

\* Where keys tell hosts apart, every step keeps each cached connection at its host.
LEMMA RoutedNext ==
  ASSUME KeysTellApart
  PROVE  EventLoop /\ Unread /\ Routed /\ [Next]_vars => Routed'
<1> SUFFICES ASSUME EventLoop, Unread, Routed, [Next]_vars PROVE Routed'
  OBVIOUS
<1>1. CASE RunLast
  <2>1. UNCHANGED <<dest, unixUrls, key>> /\ stage # "idle"
    BY <1>1, Dequeue DEF RunLast, call, key, url_to_host_key, EventLoop, Queued
  <2>2. CASE UNCHANGED conns
    BY <2>1, <2>2, RoutedSame
  <2>3. CASE /\ stage \in {"write", "read"}
             /\ \E s : conns' = Put(key, [conns[key] EXCEPT !.unread = s])
    <3>1. key \in DOMAIN conns
      BY <2>3 DEF Unread
    <3>2. PICK s : conns' = Put(key, [conns[key] EXCEPT !.unread = s])
      BY <2>3
    <3>3. /\ DOMAIN conns' = DOMAIN conns
          /\ \A k \in DOMAIN conns : k # key => conns'[k] = conns[k]
          /\ conns'[key] = [conns[key] EXCEPT !.unread = s]
      BY <3>1, <3>2 DEF Put
    <3>4. ASSUME "to" \in DOMAIN conns[key]
          PROVE  "to" \in DOMAIN conns'[key] /\ conns'[key].to = conns[key].to
      BY <3>3, <3>4
    <3> QED
      BY <2>1, <3>3, <3>4 DEF Routed
  <2> QED
    BY <1>1, <2>2, <2>3 DEF RunLast
<1>2. ASSUME NEW u \in Urls, Post(u) PROVE Routed'
  <2>1. dest' \in Dests /\ \A h \in DOMAIN unixUrls' : unixUrls'[h] \in Sockets[h]
    <3>1. CASE u.proto # "unix"
      BY <1>2, <3>1 DEF Post, Dests, Routed
    <3>2. CASE u.proto = "unix" /\ u.host \in DOMAIN unixUrls
      BY <1>2, <3>2 DEF Post, GetUnixUrl, Dests, Routed
    <3>3. CASE u.proto = "unix" /\ u.host \notin DOMAIN unixUrls
      BY <1>2, <3>3 DEF Post, GetUnixUrl, Dests, Routed
    <3> QED
      BY <3>1, <3>2, <3>3
  <2>2. UNCHANGED conns \/ conns' = Put(key', NewConnection')
    BY <1>2, Zenon DEF Post, GetConnection
  <2>3. CASE UNCHANGED conns
    BY <2>1, <2>3 DEF Routed
  <2> QED
    BY <2>1, <2>2, <2>3, RoutedPut
<1>3. CASE Connected
  <2>1. UNCHANGED <<dest, unixUrls>> /\ (UNCHANGED conns \/ conns' = Put(key, NewConnection))
    BY <1>3 DEF Connected, call
  <2>2. key' = key /\ NewConnection' = NewConnection
    BY <2>1 DEF key, url_to_host_key, NewConnection, Endpoint
  <2>3. CASE UNCHANGED conns
    BY <2>1, <2>3, RoutedSame
  <2>4. CASE conns' = Put(key', NewConnection')
    BY <2>1, <2>4, RoutedPut DEF Routed
  <2> QED
    BY <2>1, <2>2, <2>3, <2>4
<1>4. CASE Written \/ ReadDone
  <2>1. UNCHANGED <<dest, unixUrls>> /\ (UNCHANGED conns \/ conns' = Erased(key))
    BY <1>4 DEF Written, ReadDone, call
  <2> QED
    BY <2>1, RoutedSame DEF Erased
<1>5. CASE \/ RunTimer \/ RunResolve \/ RunPartial \/ TimerExpires \/ Completes
           \/ DeadlinePasses \/ UNCHANGED vars \/ \E u \in Urls : PostNoSocket(u)
  <2>1. UNCHANGED <<conns, dest, unixUrls>>
    BY <1>5 DEF RunTimer, RunResolve, RunPartial, TimerExpires, Completes, DeadlinePasses,
                vars, call, PostNoSocket
  <2> QED
    BY <2>1, RoutedSame
<1> QED
  BY <1>1, <1>2, <1>3, <1>4, <1>5 DEF Next, Client

(***************************************************************************)
(* Where host keys tell the URLs apart, every request goes out on a        *)
(* connection made to what its URL stands for.  The condition is needed:   *)
(* url_to_host_key takes 80 for the missing port of an https URL.          *)
(***************************************************************************)
THEOREM ReachesTheUrlWhereKeysTellApart ==
  ASSUME KeysTellApart
  PROVE  Spec => []ReachesTheUrl
<1>1. Init => Routed
  BY DEF Init, Routed, Dests
<1>2. EventLoop /\ Unread /\ Routed /\ [Next]_vars => Routed'
  BY RoutedNext
<1>3. Unread /\ Routed => ReachesTheUrl
  BY DEF Unread, Routed, ReachesTheUrl, key
<1>4. Spec => []Unread
  BY UnreadInit, UnreadNext, EventLoopSound, PTL DEF Spec
<1> QED
  BY <1>1, <1>2, <1>3, <1>4, EventLoopSound, PTL DEF Spec
=============================================================================
