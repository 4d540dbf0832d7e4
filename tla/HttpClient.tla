----------------------------- MODULE HttpClient -----------------------------
(***************************************************************************)
(* fc's http_client: post_sync sends one request over a connection it      *)
(* keeps for the next call, and gives up at a deadline.  Each blocking     *)
(* operation is an asynchronous one run to its end by an event loop        *)
(* (sync_do_with_deadline), next to a timer whose handler may be queued    *)
(* before or after the operation's.  An operation on a connection is made  *)
(* of several system calls; the handler of one that is not the last starts *)
(* the next.                                                               *)
(*                                                                         *)
(* Of a connection the model keeps where it leads and the requests on it   *)
(* whose answers have not been read: a server answers in order, whenever   *)
(* it likes.                                                               *)
(***************************************************************************)
EXTENDS Integers, Sequences

CONSTANTS Urls,      \* what callers pass: [proto, host, port]
          NoPort,    \* a URL without a port
          Sockets,   \* host of a unix URL -> the sockets its path may lead to
          MaxCalls   \* bound on the calls of post_sync

ASSUME HttpConsts ==
  /\ \A u \in Urls : /\ u.proto \in {"http", "https", "unix"}
                     /\ u.port \in Nat \union {NoPort}
                     /\ u.proto = "unix" => u.host \in DOMAIN Sockets
  /\ MaxCalls \in Nat

VARIABLES conns,     \* _connections: host_key -> connection
          unixUrls,  \* _unix_url_paths: full url -> socket
          calls,     \* calls of post_sync made; the last one is the request
          dest,      \* its URL
          bounded,   \* it has a deadline that comes
          passed,    \* which has come
          stage,     \* the operation in the event loop, or "idle"
          op,        \* what the loop waits for: "waiting", its queued
                     \* result "ok" or "error", or "none"
          timer,     \* its timer: "waiting", "queued" or "none"
          ready,     \* the queue of handlers
          timer_expired, timer_cancelled, f_result, \* locals of the loop
          cancelled, \* local of sync_connect_with_timeout
          last       \* what the last call returned (for the properties)

call == <<calls, dest, bounded>>
loop == <<timer, ready, timer_expired, timer_cancelled, f_result, cancelled>>
vars == <<conns, unixUrls, call, passed, stage, op, loop, last>>

default_proto_ports == [http |-> 80, https |-> 443]

\* Mutant: the port is not part of the key.
url_to_host_key_any(u) == <<u.proto, u.host, 80>>

url_to_host_key(u) == <<u.proto, u.host, IF u.port = NoPort THEN 80 ELSE u.port>>

\* Where a new connection for u goes: create_raw_connection passes "80" and
\* create_ssl_connection "443" when there is no port; a unix URL has none.
Endpoint(u) == <<u.proto, u.host,
                 IF u.port # NoPort \/ u.proto = "unix" THEN u.port
                 ELSE default_proto_ports[u.proto]>>

key == url_to_host_key(dest)
NewConnection == [to |-> Endpoint(dest), unread |-> << >>]
Put(k, c) == [j \in DOMAIN conns \union {k} |-> IF j = k THEN c ELSE conns[j]]
Erased(k) == [j \in DOMAIN conns \ {k} |-> conns[j]]

Init ==
  /\ conns = [k \in {} |-> << >>] /\ unixUrls = [u \in {} |-> << >>]
  /\ calls = 0 /\ dest \in Urls /\ bounded = FALSE /\ passed = FALSE
  /\ stage = "idle" /\ op = "none" /\ timer = "none" /\ ready = << >>
  /\ timer_expired = FALSE /\ timer_cancelled = FALSE /\ f_result = "none"
  /\ cancelled = FALSE
  /\ last = [request |-> 0, result |-> "none", answer |-> 0]

-----------------------------------------------------------------------------
(* sync_do_with_deadline.                                                  *)

\* The timer is set, the operation started.
Begin(s) ==
  /\ stage' = s /\ op' = "waiting" /\ timer' = "waiting" /\ ready' = << >>
  /\ timer_expired' = FALSE /\ timer_cancelled' = FALSE /\ f_result' = "none"
  /\ cancelled' = FALSE

\* cf(): for a connection, cancel what it waits for; while connecting, cancel
\* the resolver, which a lookup under way does not notice and a connect neither.
Cancel(s, o, r) ==
  IF s \in {"resolve", "connect"}
  THEN cancelled' = TRUE /\ op' = o /\ ready' = r
  ELSE /\ op' = IF o = "waiting" THEN "error" ELSE o
       /\ ready' = IF o = "waiting" THEN Append(r, "op") ELSE r
       /\ UNCHANGED cancelled

\* Mutant: cf() is called once, by the timer's expiry.
LoopBodyOnce(fr, e, s, o, t, r) ==
  /\ f_result' = fr /\ timer_expired' = e /\ stage' = s
  /\ IF fr # "none"
     THEN /\ timer_cancelled' = TRUE
          /\ timer' = IF t = "waiting" THEN "queued" ELSE t
          /\ ready' = IF t = "waiting" THEN Append(r, "timer") ELSE r
          /\ op' = o /\ UNCHANGED cancelled
     ELSE /\ timer' = t /\ UNCHANGED timer_cancelled
          /\ IF e /\ ~timer_expired THEN Cancel(s, o, r)
             ELSE op' = o /\ ready' = r /\ UNCHANGED cancelled

\* The loop's body once run_one has run a handler that left the result fr, the
\* expiry e, the stage s, the operation o and the timer t; r is still queued.
LoopBody(fr, e, s, o, t, r) ==
  /\ f_result' = fr /\ timer_expired' = e /\ stage' = s
  /\ IF fr # "none"
     THEN /\ timer_cancelled' = TRUE
          /\ timer' = IF t = "waiting" THEN "queued" ELSE t
          /\ ready' = IF t = "waiting" THEN Append(r, "timer") ELSE r
          /\ op' = o /\ UNCHANGED cancelled
     ELSE /\ timer' = t /\ UNCHANGED timer_cancelled
          /\ IF e THEN Cancel(s, o, r) ELSE op' = o /\ ready' = r /\ UNCHANGED cancelled

\* Mutant: the handler does not look whether the timer was cancelled.
RunTimerAlways ==
  /\ ready # << >> /\ Head(ready) = "timer"
  /\ LoopBody(f_result, TRUE, stage, op, "none", Tail(ready))
  /\ UNCHANGED <<conns, unixUrls, call, passed, last>>

RunTimer ==
  /\ ready # << >> /\ Head(ready) = "timer"
  /\ LoopBody(f_result, timer_expired \/ ~timer_cancelled, stage, op, "none", Tail(ready))
  /\ UNCHANGED <<conns, unixUrls, call, passed, last>>

\* The handlers of the operations.  The resolver's starts the connect unless
\* cancelled is set, and then leaves no result.
RunResolve ==
  /\ ready # << >> /\ Head(ready) = "op" /\ stage = "resolve"
  /\ CASE op = "error" -> LoopBody("error", timer_expired, stage, "none", timer, Tail(ready))
       [] op = "ok" /\ ~cancelled ->
            LoopBody("none", timer_expired, "connect", "waiting", timer, Tail(ready))
       [] OTHER -> LoopBody("none", timer_expired, stage, "none", timer, Tail(ready))
  /\ UNCHANGED <<conns, unixUrls, call, passed, last>>

\* The last handler of an operation, with its result.
RunLast ==
  /\ ready # << >> /\ Head(ready) = "op" /\ stage # "resolve"
  /\ LoopBody(op, timer_expired, stage, "none", timer, Tail(ready))
  /\ CASE stage = "write" ->  \* one that failed may have sent the whole request
            \/ conns' = Put(key, [conns[key] EXCEPT !.unread = Append(@, calls)]) /\ UNCHANGED last
            \/ op = "error" /\ UNCHANGED <<conns, last>>
       [] stage = "read" /\ op = "ok" ->
            /\ last' = [request |-> calls, result |-> "none", answer |-> Head(conns[key].unread)]
            /\ conns' = Put(key, [conns[key] EXCEPT !.unread = Tail(@)])
       [] OTHER -> UNCHANGED <<conns, last>>
  /\ UNCHANGED <<unixUrls, call, passed>>

\* One that is not the last: it makes the next system call, which waits, or is
\* over at once, and then a cancellation ends nothing.  async_connect, whose
\* attempts the system ends, is one operation here.
RunPartial ==
  /\ ready # << >> /\ Head(ready) = "op" /\ stage \notin {"resolve", "connect"} /\ op = "ok"
  /\ \/ LoopBody("none", timer_expired, stage, "waiting", timer, Tail(ready))
     \/ \E o \in {"ok", "error"} :
          LoopBody("none", timer_expired, stage, o, timer, Append(Tail(ready), "op"))
  /\ UNCHANGED <<conns, unixUrls, call, passed, last>>

\* Mutant: the loop is left as soon as there is a result.
LoopOverEarly == stage # "idle" /\ (f_result # "none" \/ (timer_expired /\ op = "none"))

\* run_one returns 0: no operation is under way and no handler is queued.
LoopOver == stage # "idle" /\ op = "none" /\ timer = "none" /\ ready = << >>
error_code == IF timer_expired THEN "timed_out" ELSE f_result

-----------------------------------------------------------------------------
(* post_sync.                                                              *)

Return(result) ==
  /\ last' = [request |-> calls', result |-> result,
              answer |-> IF last.request = calls' THEN last.answer ELSE 0]
  /\ stage' = "idle"
  /\ timer_expired' = FALSE /\ timer_cancelled' = FALSE /\ f_result' = "none"
  /\ UNCHANGED <<op, timer, ready, cancelled>>

\* get_connection.  is_open() asks about the socket, which nothing but its
\* destruction closes: a cached connection is always used.  A unix socket is
\* connected at once, without the event loop.
GetConnection ==
  IF key' \in DOMAIN conns THEN Begin("write") /\ UNCHANGED <<conns, last>>
  ELSE CASE dest'.proto # "unix" -> Begin("resolve") /\ UNCHANGED <<conns, last>>
         [] OTHER -> \/ conns' = Put(key', NewConnection') /\ Begin("write") /\ UNCHANGED last
                     \/ Return("throw") /\ UNCHANGED conns

\* get_unix_url: the split of a URL found once is kept.
Split(u, s) == [u EXCEPT !.host = s, !.port = NoPort]
GetUnixUrl(u) ==
  IF u.host \in DOMAIN unixUrls
  THEN dest' = Split(u, unixUrls[u.host]) /\ UNCHANGED unixUrls
  ELSE \E s \in Sockets[u.host] :
         /\ dest' = Split(u, s)
         /\ unixUrls' = [h \in DOMAIN unixUrls \union {u.host} |->
                           IF h = u.host THEN s ELSE unixUrls[h]]

Post(u) ==
  /\ stage = "idle" /\ calls < MaxCalls
  /\ calls' = calls + 1 /\ bounded' \in BOOLEAN /\ passed' = FALSE
  /\ IF u.proto = "unix" THEN GetUnixUrl(u) ELSE dest' = u /\ UNCHANGED unixUrls
  /\ GetConnection

\* No part of the path of a unix URL is a socket.
PostNoSocket(u) ==
  /\ stage = "idle" /\ calls < MaxCalls
  /\ u.proto = "unix" /\ u.host \notin DOMAIN unixUrls
  /\ calls' = calls + 1 /\ UNCHANGED <<conns, unixUrls, dest, bounded, passed>>
  /\ Return("throw")

\* Mutant: the connection is used without having been put in the map.
ConnectedUnkept ==
  /\ LoopOver /\ stage \in {"resolve", "connect", "handshake"}
  /\ UNCHANGED <<unixUrls, call, passed>>
  /\ IF error_code # "ok" THEN Return("throw") /\ UNCHANGED conns
     ELSE Begin("write") /\ UNCHANGED <<conns, last>>

Connected ==
  /\ LoopOver /\ stage \in {"resolve", "connect", "handshake"}
  /\ UNCHANGED <<unixUrls, call, passed>>
  /\ IF error_code # "ok" THEN Return("throw") /\ UNCHANGED conns
     ELSE IF dest.proto = "https" /\ stage # "handshake"
          THEN Begin("handshake") /\ UNCHANGED <<conns, last>>
          ELSE Begin("write") /\ conns' = Put(key, NewConnection) /\ UNCHANGED last

\* The eraser drops the connection on every way out but the last one below.
Written ==
  /\ LoopOver /\ stage = "write"
  /\ UNCHANGED <<unixUrls, call, passed>>
  /\ IF error_code # "ok" THEN Return("throw") /\ conns' = Erased(key)
     ELSE Begin("read") /\ UNCHANGED <<conns, last>>

\* Mutant: a connection whose answer did not come in time is kept.
ReadDoneKeeps ==
  /\ LoopOver /\ stage = "read"
  /\ UNCHANGED <<unixUrls, call, passed>>
  /\ IF error_code # "ok"
     THEN Return("throw") /\ conns' = IF error_code = "timed_out" THEN conns ELSE Erased(key)
     ELSE \E keep_alive \in BOOLEAN, result \in {"ok", "throw"} :
            /\ conns' = IF keep_alive THEN conns ELSE Erased(key)
            /\ Return(result)

\* A response of status 500 or 404, or whose body is not JSON, throws, but
\* its connection is kept when it says so.
ReadDone ==
  /\ LoopOver /\ stage = "read"
  /\ UNCHANGED <<unixUrls, call, passed>>
  /\ IF error_code # "ok" THEN Return("throw") /\ conns' = Erased(key)
     ELSE \E keep_alive \in BOOLEAN, result \in {"ok", "throw"} :
            /\ conns' = IF keep_alive THEN conns ELSE Erased(key)
            /\ Return(result)

-----------------------------------------------------------------------------
(* The world: time, the resolver, the peers.                               *)

DeadlinePasses ==
  /\ stage # "idle" /\ bounded /\ ~passed
  /\ passed' = TRUE
  /\ UNCHANGED <<conns, unixUrls, call, stage, op, loop, last>>

TimerExpires ==
  /\ timer = "waiting" /\ passed
  /\ timer' = "queued" /\ ready' = Append(ready, "timer")
  /\ UNCHANGED <<conns, unixUrls, call, passed, stage, op, timer_expired, timer_cancelled,
                 f_result, cancelled, last>>

Completes ==
  /\ op = "waiting"
  /\ op' \in {"ok", "error"} /\ ready' = Append(ready, "op")
  /\ UNCHANGED <<conns, unixUrls, call, passed, stage, timer, timer_expired, timer_cancelled,
                 f_result, cancelled, last>>

Client == RunTimer \/ RunResolve \/ RunLast \/ RunPartial \/ Connected \/ Written \/ ReadDone
Next == \/ \E u \in Urls : Post(u) \/ PostNoSocket(u)
        \/ Client \/ DeadlinePasses \/ TimerExpires \/ Completes

(***************************************************************************)
(* The caller's thread runs, time passes, the timer of the io_context      *)
(* goes off, and the operating system ends a lookup and a connect by its   *)
(* own time limits.  A handshake, a write or a read is not system calls    *)
(* that all succeed without end: a request is finite and Beast's parser    *)
(* limits a response.  Whether a peer answers at all is not assumed.       *)
(***************************************************************************)
Fairness == /\ WF_vars(Client) /\ WF_vars(DeadlinePasses) /\ WF_vars(TimerExpires)
            /\ WF_vars(stage \in {"resolve", "connect"} /\ Completes)
            /\ SF_vars(RunLast)
Spec == Init /\ [][Next]_vars /\ Fairness
-----------------------------------------------------------------------------
Results == {"none", "ok", "error"}
TypeOK ==
  /\ \A k \in DOMAIN conns : \A n \in DOMAIN conns[k].unread : conns[k].unread[n] \in 1..calls
  /\ \A h \in DOMAIN unixUrls : unixUrls[h] \in Sockets[h]
  /\ calls \in 0..MaxCalls /\ bounded \in BOOLEAN /\ passed \in BOOLEAN
  /\ stage \in {"idle", "resolve", "connect", "handshake", "write", "read"}
  /\ stage \in {"write", "read"} => key \in DOMAIN conns
  /\ op \in Results \union {"waiting"} /\ timer \in {"waiting", "queued", "none"}
  /\ ready \in {<< >>, <<"op">>, <<"timer">>, <<"op", "timer">>, <<"timer", "op">>}
  /\ timer_expired \in BOOLEAN /\ timer_cancelled \in BOOLEAN /\ cancelled \in BOOLEAN
  /\ f_result \in Results
  /\ last \in [request : 0..calls, result : {"none", "ok", "throw"}, answer : 0..calls]

(***************************************************************************)
(* The response a call works on, to return it or to throw what it says, is *)
(* the answer to its own request: never the late answer to one that timed  *)
(* out or failed on the same connection, because no such connection is     *)
(* kept (post_sync's eraser).                                              *)
(***************************************************************************)
AnswersItsRequest == last.answer # 0 => last.answer = last.request

(***************************************************************************)
(* A request goes out on a connection made to the host and port its URL    *)
(* stands for, be it new or found under the host key (url_to_host_key,     *)
(* create_connection).                                                     *)
(***************************************************************************)
ReachesTheUrl == stage \in {"write", "read"} => conns[key].to = Endpoint(dest)

(***************************************************************************)
(* When the event loop is over the operation has a result or the timer     *)
(* expired, so that sync_do_with_deadline never reads an empty f_result;   *)
(* and when a call is over nothing is under way or queued that refers to   *)
(* its locals or to a connection it dropped.                               *)
(***************************************************************************)
LoopLeavesNothing ==
  /\ LoopOver => timer_expired \/ f_result # "none"
  /\ stage = "idle" => op = "none" /\ timer = "none" /\ ready = << >>

(***************************************************************************)
(* A result that the loop has seen before the timer's handler stands: the  *)
(* handler, which runs all the same and may have been queued before the    *)
(* timer was cancelled, does not turn it into a timeout                    *)
(* (sync_do_with_deadline, timer_cancelled).                               *)
(***************************************************************************)
ResultStands ==
  [][f_result # "none" /\ f_result' = f_result /\ ~timer_expired => ~timer_expired']_vars

(***************************************************************************)
(* A call whose deadline comes returns, although peers may fall silent at  *)
(* any point and each operation is many system calls of which a            *)
(* cancellation ends only the one under way (post_sync,                    *)
(* sync_do_with_deadline).                                                 *)
(***************************************************************************)
PostReturns == stage # "idle" /\ bounded ~> stage = "idle"
=============================================================================
