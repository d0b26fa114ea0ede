----------------------------- MODULE Coordinator -----------------------------
(***************************************************************************)
(* The reference coordinator (coordinator.cpp) with the worker processes   *)
(* of one backend and its control clients: the accept thread, one serve()  *)
(* thread per connection, the main thread in stop(), the link of the       *)
(* backend, and handoff(), which a control session executes inside         *)
(* router_->dispatch() while the result arrives in the worker's session.   *)
(*                                                                         *)
(* Worker w is the incarnation with boot w and registration generation w,  *)
(* and has one connection in its life; links_ and the router's registry    *)
(* hold the one backend all workers incarnate.  A connection is a reliable *)
(* queue of frames each way that loses what is in flight when an end       *)
(* closes (module Transport).  close() returns at once on Windows; on      *)
(* POSIX it waits for the other end to close.                              *)
(***************************************************************************)
EXTENDS Naturals, Sequences, FiniteSets

CONSTANTS Workers,        \* boots of the backend's incarnations
          Clients,        \* control connections
          Options,        \* builds and CoordinatorOptions to explore
          MaxRequests     \* requests a control client makes

ASSUME WorkersAssumption == Workers \subseteq Nat \ {0}
ASSUME ClientsAssumption == Clients \cap (Workers \cup {0}) = {}
ASSUME OptionsAssumption ==
    Options \subseteq [max_session_threads : Nat, max_backend_incarnations : Nat,
                      save_on_shutdown : BOOLEAN, posix : BOOLEAN]
ASSUME BoundsAssumption == MaxRequests \in Nat

Conns == Workers \cup Clients

VARIABLES
    options,              \* build and options of this coordinator
    listening,            \* listener_ accepts connections
    stopping,             \* stopping_
    main,                 \* where the main thread is
    closing,              \* the link that stop() closes, 0 if none
    sessions,             \* sessions_: threads started, never reaped before stop()
    server,               \* the coordinator's end of a connection
    peer,                 \* the other end
    up,                   \* frames on the way to the coordinator
    down,                 \* frames on the way to the peer
    serve,                \* where the serve() thread of a connection is
    link,                 \* link[w]: the BackendLink of connection w
    links,                \* links_: the backend's entry, 0 if none
    resolved,             \* connections whose serve() found its link
    call,                 \* handoff(): target, link and dispatch id of a session
    router,               \* registered boot, fenced boots, decision of a client
    worker,               \* where a worker process is
    executed,             \* executed[w]: dispatch ids worker w executed
    asked                 \* requests a client has made

net == <<server, peer, up, down>>
mains == <<options, listening, stopping, main, closing, sessions>>
vars == <<mains, net, serve, link, links, resolved, call, router, worker, executed, asked>>

Frame(type, arg) == [type |-> type, arg |-> arg]
NoCall == [target |-> 0, link |-> 0, id |-> 0, handed |-> FALSE]

Init ==
    /\ options \in Options
    /\ listening = TRUE
    /\ stopping = FALSE
    /\ main = "run"
    /\ closing = 0
    /\ sessions = {}
    /\ server = [c \in Conns |-> "none"]
    /\ peer = [c \in Conns |-> IF c \in Clients THEN "open" ELSE "none"]
    /\ up = [c \in Conns |-> <<>>]
    /\ down = [c \in Conns |-> <<>>]
    /\ serve = [c \in Conns |-> "none"]
    /\ link = [w \in Workers |-> [closed |-> FALSE, results |-> {}]]
    /\ links = 0
    /\ resolved = {}
    /\ call = [c \in Clients |-> NoCall]
    /\ router = [boot |-> 0, fenced |-> {}, decision |-> [c \in Clients |-> 0], next |-> 1]
    /\ worker = [w \in Workers |-> "off"]
    /\ executed = [w \in Workers |-> <<>>]
    /\ asked = [c \in Clients |-> 0]

-----------------------------------------------------------------------------
(* Connections, as the two ends see them.                                  *)

ServerGone(c) == \/ server[c] = "closed"
                 \/ server[c] = "none" /\ ~listening

\* FramedConnection::send at the coordinator.  The loss of the peer is noticed late:
\* until then a frame is accepted and lost.  A control client only waits for its
\* response and reads it when it arrives.
SendAccepted(c) == server[c] = "open"
SendRefused(c) == server[c] # "open" \/ peer[c] = "closed"
SendDown(c, f) ==
    down' = IF c \in Workers /\ peer[c] = "open" THEN [down EXCEPT ![c] = Append(@, f)] ELSE down

\* A peer that sends to a coordinator that is gone loses the frame.
SendUp(c, f) == up' = IF ServerGone(c) THEN up ELSE [up EXCEPT ![c] = Append(@, f)]

\* The end of the peer closes: the process exits, is killed or says goodbye.
Leave(c) ==
    /\ peer' = [peer EXCEPT ![c] = "closed"]
    /\ \E n \in 0..Len(up[c]) : up' = [up EXCEPT ![c] = SubSeq(@, 1, n)]
    /\ down' = [down EXCEPT ![c] = <<>>]

\* FramedConnection::close() joins the thread of the connection.  The Windows loop ends
\* at the stop event; the POSIX loop never looks at stop_requested and ends when the
\* other end does.
CloseReturns(c) == ~options.posix \/ peer[c] # "open"

\* accept_loop() closes a connection it refuses while it holds mutex_.
MutexFree == \A c \in Conns : server[c] # "refused"

-----------------------------------------------------------------------------
(* accept_loop() and stop().                                               *)

\* Mutant: max_session_threads is not looked at.
accept_loop_unlimited ==
    /\ ~stopping \/ main = "join_accept"
    /\ MutexFree
    /\ \E c \in Conns :
          /\ peer[c] # "none"
          /\ server[c] = "none"
          /\ server' = [server EXCEPT ![c] = "open"]
          /\ serve' = [serve EXCEPT ![c] = "receive"]
          /\ sessions' = sessions \cup {c}
    /\ UNCHANGED <<options, listening, stopping, main, closing, peer, up, down, link, links,
                   resolved, call, router, worker, executed, asked>>

\* The accept thread.  stop() joins it, so a connection that accept() returned just
\* before may still become a session while the main thread waits.
accept_loop ==
    /\ ~stopping \/ main = "join_accept"
    /\ MutexFree
    /\ \E c \in Conns :
          /\ peer[c] # "none"
          /\ server[c] = "none"
          /\ IF Cardinality(sessions) >= options.max_session_threads
             THEN /\ server' = [server EXCEPT ![c] = IF CloseReturns(c)
                                                     THEN "closed" ELSE "refused"]
                  /\ UNCHANGED <<serve, sessions>>
             ELSE /\ server' = [server EXCEPT ![c] = "open"]
                  /\ serve' = [serve EXCEPT ![c] = "receive"]
                  /\ sessions' = sessions \cup {c}
    /\ UNCHANGED <<options, listening, stopping, main, closing, peer, up, down, link, links,
                   resolved, call, router, worker, executed, asked>>

\* The close() of a refused connection returns at last and gives mutex_ back.
accept_refused ==
    /\ \E c \in Conns :
          /\ server[c] = "refused"
          /\ CloseReturns(c)
          /\ server' = [server EXCEPT ![c] = "closed"]
    /\ UNCHANGED <<mains, peer, up, down, serve, link, links, resolved, call, router, worker,
                   executed, asked>>

\* quit on standard input: stop() returns at once if anyone set stopping_ before,
\* and main() returns after it.
stop_begin ==
    /\ main = "run"
    /\ IF stopping
       THEN /\ main' = "returned"
            /\ UNCHANGED <<stopping, listening>>
       ELSE /\ stopping' = TRUE
            /\ listening' = FALSE
            /\ main' = "join_accept"
    /\ UNCHANGED <<options, closing, sessions, net, serve, link, links,
                   resolved, call, router, worker, executed, asked>>

\* stop() has closed the connection of w, and closes its link.
LinkClosed(w) ==
    /\ server' = [c \in Conns |-> IF c = w THEN "closed" ELSE server[c]]
    /\ link' = [v \in Workers |-> IF v = w THEN [link[v] EXCEPT !.closed = TRUE] ELSE link[v]]
    /\ main' = "join_sessions"
    /\ closing' = 0

\* The accept thread is joined, and the link that links_ holds at that moment is closed,
\* at once if close() does not wait.
stop_links ==
    /\ main = "join_accept"
    /\ MutexFree
    /\ IF links # 0 /\ ~CloseReturns(links)
       THEN /\ main' = "close_links"
            /\ closing' = links
            /\ UNCHANGED <<server, link>>
       ELSE LinkClosed(links)
    /\ UNCHANGED <<options, listening, stopping, sessions, peer, up, down, serve, links,
                   resolved, call, router, worker, executed, asked>>

stop_close ==
    /\ main = "close_links"
    /\ CloseReturns(closing)
    /\ LinkClosed(closing)
    /\ UNCHANGED <<options, listening, stopping, sessions, peer, up, down, serve, links,
                   resolved, call, router, worker, executed, asked>>

\* router_->shutdown(): with save_on_shutdown it holds the router's lock and exports the
\* state, which takes the lock again.
AfterShutdown == IF options.save_on_shutdown THEN "stuck" ELSE "ended"

\* Mutant: the session threads are not joined.
stop_end_without_join ==
    /\ main = "join_sessions"
    /\ main' = AfterShutdown
    /\ UNCHANGED <<options, listening, stopping, closing, sessions, net,
                   serve, link, links, resolved, call, router, worker, executed, asked>>

\* The sessions are joined and the router is shut down.
stop_end ==
    /\ main = "join_sessions"
    /\ \A c \in sessions : serve[c] = "ended"
    /\ main' = AfterShutdown
    /\ UNCHANGED <<options, listening, stopping, closing, sessions, net,
                   serve, link, links, resolved, call, router, worker, executed, asked>>

-----------------------------------------------------------------------------
(* serve(): one thread per connection.                                     *)

\* connection->close() after the loop, where it does not wait; only a thread that found
\* its link goes on to the clean-up of the link.
SessionEnds(c) ==
    /\ server' = [server EXCEPT ![c] = "closed"]
    /\ serve' = [serve EXCEPT ![c] = IF c \in resolved THEN "close_link" ELSE "ended"]

HasFrame(c, type) ==
    /\ serve[c] = "receive"
    /\ server[c] = "open"
    /\ up[c] # <<>>
    /\ Head(up[c]).type = type

Consume(c) == up' = [up EXCEPT ![c] = Tail(@)]

\* Where a thread goes on after a frame.  One without a link searches links_, under
\* mutex_.  Only registration puts a link there, so that the search is a step of its own
\* only where it may wait for mutex_.
AfterFrame(c) == IF options.posix /\ c \notin resolved THEN "resolve_link" ELSE "receive"

\* reply(), reply_status() and the way back to receive(); a send that fails leaves the
\* loop.
Reply(c, f) ==
    \/ /\ SendAccepted(c)
       /\ SendDown(c, f)
       /\ serve' = [serve EXCEPT ![c] = AfterFrame(c)]
       /\ UNCHANGED server
    \/ /\ SendRefused(c)
       /\ SessionEnds(c)
       /\ UNCHANGED down

\* Mutant: receive() does not notice that its own end was closed.
receive_fails_with_peer(c) ==
    /\ serve[c] = "receive"
    /\ up[c] = <<>> /\ peer[c] = "closed"
    /\ SessionEnds(c)
    /\ UNCHANGED <<mains, peer, up, down, link, links, resolved, call, router, worker,
                   executed, asked>>

receive_fails(c) ==
    /\ serve[c] = "receive"
    /\ server[c] = "closed" \/ (up[c] = <<>> /\ peer[c] = "closed")
    /\ SessionEnds(c)
    /\ UNCHANGED <<mains, peer, up, down, link, links, resolved, call, router, worker,
                   executed, asked>>

\* stop() has requested the end of this connection: receive() fails as soon as no frame is
\* decoded, although the other end may still be open.
receive_stops(c) ==
    /\ serve[c] = "receive"
    /\ server[c] = "open"
    /\ main = "close_links" /\ closing = c
    /\ serve' = [serve EXCEPT ![c] = "close"]
    /\ UNCHANGED <<mains, net, link, links, resolved, call, router, worker, executed, asked>>

\* The thread waits in close() like stop() does.
close_connection(c) ==
    /\ serve[c] = "close"
    /\ CloseReturns(c)
    /\ SessionEnds(c)
    /\ UNCHANGED <<mains, peer, up, down, link, links, resolved, call, router, worker,
                   executed, asked>>

\* router_->register_backend: a fenced boot and a registration generation that does
\* not advance are refused.
register_backend(w) == w \notin router.fenced /\ w > router.boot

handle_register(w) ==
    /\ HasFrame(w, "BACKEND_REGISTER")
    /\ Consume(w)
    /\ IF register_backend(w)
       THEN /\ router' = [router EXCEPT !.boot = w]
            /\ serve' = [serve EXCEPT ![w] = "insert_link"]
            /\ UNCHANGED <<server, down>>
       ELSE /\ Reply(w, Frame("BACKEND_REGISTER_ACK", 0))
            /\ UNCHANGED router
    /\ UNCHANGED <<mains, peer, link, links, resolved, call, worker, executed, asked>>

\* links_[backend_id] = link, under mutex_ and after the router's lock was released.
insert_link(w) ==
    /\ serve[w] = "insert_link"
    /\ MutexFree
    /\ links' = w
    /\ serve' = [serve EXCEPT ![w] = "acknowledge"]
    /\ UNCHANGED <<mains, net, link, resolved, call, router, worker, executed, asked>>

\* The acknowledgement; a send that fails leaves the loop before the link is looked up.
acknowledge(w) ==
    /\ serve[w] = "acknowledge"
    /\ \/ /\ SendAccepted(w)
          /\ SendDown(w, Frame("BACKEND_REGISTER_ACK", 1))
          /\ serve' = [serve EXCEPT ![w] = "resolve_link"]
          /\ UNCHANGED server
       \/ /\ SendRefused(w)
          /\ SessionEnds(w)
          /\ UNCHANGED down
    /\ UNCHANGED <<mains, peer, up, link, links, resolved, call, router, worker, executed, asked>>

\* The lazy search of links_ for this connection's link, after a frame was handled.
\* The entry is this connection's only from insert_link until another thread replaces
\* or erases it, so a search that fails here fails after every later frame too.
resolve_link(c) ==
    /\ serve[c] = "resolve_link"
    /\ MutexFree
    /\ resolved' = IF links = c THEN resolved \cup {c} ELSE resolved
    /\ serve' = [serve EXCEPT ![c] = "receive"]
    /\ UNCHANGED <<mains, net, link, links, call, router, worker, executed, asked>>

\* CAPABILITY_PUBLISH and the evidence updates: the router applies what comes from
\* the registered boot.
handle_publication(w) ==
    /\ HasFrame(w, "PUBLISH")
    /\ Consume(w)
    /\ Reply(w, Frame("STATUS", IF router.boot = w THEN 1 ELSE 0))
    /\ UNCHANGED <<mains, peer, link, links, resolved, call, router, worker, executed, asked>>

\* The result goes to the link that links_ holds for this connection; if there is
\* none it is dropped.
handle_dispatch_result(w) ==
    /\ HasFrame(w, "DISPATCH_RESULT")
    /\ MutexFree
    /\ Consume(w)
    /\ link' = IF links = w
               THEN [link EXCEPT ![w].results = @ \cup {Head(up[w]).arg}]
               ELSE link
    /\ serve' = [serve EXCEPT ![w] = AfterFrame(w)]
    /\ UNCHANGED <<mains, server, peer, down, links, resolved, call, router, worker,
                   executed, asked>>

\* ROUTE_REQUEST.  The decision is bound to the registered boot; a request may waive
\* the evidence (require_available, require_healthy, require_ready), so registration
\* is enough.  A decision is kept with its request under mutex_.
handle_route_request(c) ==
    /\ HasFrame(c, "ROUTE_REQUEST")
    /\ router.boot # 0 => MutexFree
    /\ Consume(c)
    /\ router' = [router EXCEPT !.decision[c] = router.boot]
    /\ Reply(c, Frame("RESPONSE", 0))
    /\ UNCHANGED <<mains, peer, link, links, resolved, call, worker, executed, asked>>

\* AdminOp::DISPATCH: router_->dispatch() revalidates the decision and calls handoff().
admin_dispatch(c) ==
    /\ HasFrame(c, "DISPATCH")
    /\ Consume(c)
    /\ LET b == router.decision[c]
       IN  IF b # 0 /\ b = router.boot
           THEN /\ call' = [call EXCEPT ![c] = [NoCall EXCEPT !.target = b]]
                /\ serve' = [serve EXCEPT ![c] = "handoff"]
                /\ UNCHANGED <<server, down>>
           ELSE /\ Reply(c, Frame("RESPONSE", 0))
                /\ UNCHANGED call
    /\ UNCHANGED <<mains, peer, link, links, resolved, router, worker, executed, asked>>

\* fence_backend_boot refuses a further fence: serve() does not look at the answer.
FencesFull(r) == Cardinality(r.fenced) >= options.max_backend_incarnations

\* Mutant: the fence is recorded and the registration stays.
FencedNotRetired(r, w) ==
    IF w \in r.fenced \/ FencesFull(r) THEN r ELSE [r EXCEPT !.fenced = @ \cup {w}]

\* router_->fence_backend_boot.
Fenced(r, w) ==
    IF w \in r.fenced \/ FencesFull(r) THEN r
    ELSE [r EXCEPT !.fenced = @ \cup {w}, !.boot = IF @ = w THEN 0 ELSE @]

admin_fence_backend(c) ==
    /\ HasFrame(c, "FENCE_BACKEND")
    /\ Consume(c)
    /\ router' = IF router.boot = 0 THEN router ELSE Fenced(router, router.boot)
    /\ Reply(c, Frame("RESPONSE", 0))
    /\ UNCHANGED <<mains, peer, link, links, resolved, call, worker, executed, asked>>

admin_shutdown(c) ==
    /\ HasFrame(c, "SHUTDOWN")
    /\ Consume(c)
    /\ stopping' = TRUE
    /\ listening' = FALSE
    /\ Reply(c, Frame("RESPONSE", 0))
    /\ UNCHANGED <<options, main, closing, sessions, peer, link, links,
                   resolved, call, router, worker, executed, asked>>

\* Mutant: the handoffs that wait on the link are not told.
close_link_silently(w) ==
    /\ serve[w] = "close_link"
    /\ serve' = [serve EXCEPT ![w] = "erase_link"]
    /\ UNCHANGED <<mains, net, link, links, resolved, call, router, worker, executed, asked>>

\* The clean-up after the loop takes three locks in turn: the link's, mutex_ (which
\* erases whatever links_ holds for the backend) and the router's.
close_link(w) ==
    /\ serve[w] = "close_link"
    /\ link' = [link EXCEPT ![w].closed = TRUE]
    /\ serve' = [serve EXCEPT ![w] = "erase_link"]
    /\ UNCHANGED <<mains, net, links, resolved, call, router, worker, executed, asked>>

erase_link(w) ==
    /\ serve[w] = "erase_link"
    /\ MutexFree
    /\ links' = 0
    /\ serve' = [serve EXCEPT ![w] = "fence"]
    /\ UNCHANGED <<mains, net, link, resolved, call, router, worker, executed, asked>>

fence_session(w) ==
    /\ serve[w] = "fence"
    /\ router' = Fenced(router, w)
    /\ serve' = [serve EXCEPT ![w] = "ended"]
    /\ UNCHANGED <<mains, net, link, links, resolved, call, worker, executed, asked>>

-----------------------------------------------------------------------------
(* Dispatcher::handoff, in the session of the control client.              *)

HandoffReturns(c, ok) ==
    /\ call' = [call EXCEPT ![c].handed = ok]
    /\ Reply(c, Frame("RESPONSE", 0))

\* Mutant: the link of whatever incarnation is connected now.
handoff_lookup_any_boot(c) ==
    /\ serve[c] = "handoff"
    /\ MutexFree
    /\ IF links # 0
       THEN /\ call' = [call EXCEPT ![c].link = links]
            /\ serve' = [serve EXCEPT ![c] = "send"]
            /\ UNCHANGED <<server, down>>
       ELSE HandoffReturns(c, FALSE)
    /\ UNCHANGED <<mains, peer, up, link, links, resolved, router, worker, executed, asked>>

handoff_lookup(c) ==
    /\ serve[c] = "handoff"
    /\ MutexFree
    /\ IF links # 0 /\ links = call[c].target
       THEN /\ call' = [call EXCEPT ![c].link = links]
            /\ serve' = [serve EXCEPT ![c] = "send"]
            /\ UNCHANGED <<server, down>>
       ELSE HandoffReturns(c, FALSE)
    /\ UNCHANGED <<mains, peer, up, link, links, resolved, router, worker, executed, asked>>

handoff_send(c) ==
    /\ serve[c] = "send"
    /\ \/ /\ SendAccepted(call[c].link)
          /\ SendDown(call[c].link, Frame("DISPATCH", router.next))
          /\ call' = [call EXCEPT ![c].id = router.next]
          /\ serve' = [serve EXCEPT ![c] = "wait"]
          /\ UNCHANGED server
       \/ /\ SendRefused(call[c].link)
          /\ HandoffReturns(c, FALSE)
    /\ router' = [router EXCEPT !.next = @ + 1]
    /\ UNCHANGED <<mains, peer, up, link, links, resolved, worker, executed, asked>>

handoff_wait(c) ==
    LET w == call[c].link
        arrived == call[c].id \in link[w].results
    IN  /\ serve[c] = "wait"
        /\ link[w].closed \/ arrived
        /\ link' = [link EXCEPT ![w].results = @ \ {call[c].id}]
        /\ HandoffReturns(c, arrived)
        /\ UNCHANGED <<mains, peer, up, links, resolved, router, worker, executed, asked>>

-----------------------------------------------------------------------------
(* The worker process (backend_worker_main.cpp).                           *)

\* The next incarnation is started once its predecessor has printed READY or died
\* (the coordinator may not have noticed).
worker_start(w) ==
    /\ worker[w] = "off"
    /\ \A v \in Workers : v < w => worker[v] \in {"serve", "gone"}
    /\ IF listening
       THEN /\ peer' = [peer EXCEPT ![w] = "open"]
            /\ SendUp(w, Frame("BACKEND_REGISTER", 0))
            /\ worker' = [worker EXCEPT ![w] = "register"]
       ELSE /\ worker' = [worker EXCEPT ![w] = "gone"]
            /\ UNCHANGED <<peer, up>>
    /\ UNCHANGED <<mains, server, down, serve, link, links, resolved, call, router,
                   executed, asked>>

Exit(w) == worker' = [worker EXCEPT ![w] = "gone"] /\ Leave(w)

\* main() returns and closes the connection: on POSIX the process stays until the
\* coordinator has closed its end.
Return(w) ==
    IF options.posix /\ ~ServerGone(w)
    THEN /\ worker' = [worker EXCEPT ![w] = "closing"]
         /\ UNCHANGED <<peer, up, down>>
    ELSE Exit(w)

\* Registration and publications: each sends one frame and takes the next frame that
\* arrives, whatever it is, for the answer.  Any other frame ends the process.
worker_exchange(w) ==
    LET f == Head(down[w])
    IN  /\ worker[w] \in {"register", "publish"}
        /\ down[w] # <<>>
        /\ \/ /\ worker[w] = "register"
              /\ f = Frame("BACKEND_REGISTER_ACK", 1)
              /\ down' = [down EXCEPT ![w] = Tail(@)]
              /\ SendUp(w, Frame("PUBLISH", 0))
              /\ worker' = [worker EXCEPT ![w] = "publish"]
              /\ UNCHANGED peer
           \/ /\ worker[w] = "publish"
              /\ f = Frame("STATUS", 1)
              /\ down' = [down EXCEPT ![w] = Tail(@)]
              /\ worker' = [worker EXCEPT ![w] = "serve"]
              /\ UNCHANGED <<up, peer>>
           \/ /\ f # [register |-> Frame("BACKEND_REGISTER_ACK", 1),
                      publish |-> Frame("STATUS", 1)][worker[w]]
              /\ Return(w)
        /\ UNCHANGED <<mains, server, serve, link, links, resolved, call, router, executed,
                       asked>>

\* The serve loop executes a DISPATCH and reports it.
worker_serve(w) ==
    /\ worker[w] = "serve"
    /\ down[w] # <<>>
    /\ Head(down[w]).type = "DISPATCH"
    /\ down' = [down EXCEPT ![w] = Tail(@)]
    /\ executed' = [executed EXCEPT ![w] = Append(@, Head(down[w]).arg)]
    /\ SendUp(w, Frame("DISPATCH_RESULT", Head(down[w]).arg))
    /\ UNCHANGED <<mains, server, peer, serve, link, links, resolved, call, router, worker,
                   asked>>

\* A receive that fails ends the process, and so does a close() that returns.
worker_disconnected(w) ==
    /\ peer[w] = "open"
    /\ down[w] = <<>> \/ worker[w] = "closing"
    /\ ServerGone(w)
    /\ Exit(w)
    /\ UNCHANGED <<mains, server, serve, link, links, resolved, call, router, executed,
                   asked>>

\* The operating system kills the process.
worker_crash(w) ==
    /\ peer[w] = "open"
    /\ Exit(w)
    /\ UNCHANGED <<mains, server, serve, link, links, resolved, call, router, executed,
                   asked>>

-----------------------------------------------------------------------------
(* A control client: connected from the start, it routes until it has a    *)
(* decision, makes one request at a time, and may leave at any time.       *)

Awaiting(c) == up[c] # <<>> \/ serve[c] \notin {"none", "receive", "resolve_link", "ended"}

client_request(c) ==
    /\ peer[c] = "open"
    /\ ~Awaiting(c)
    /\ ~ServerGone(c)
    /\ asked[c] < MaxRequests
    /\ \E type \in IF router.decision[c] = 0
                    THEN {"ROUTE_REQUEST"} ELSE {"DISPATCH", "FENCE_BACKEND", "SHUTDOWN"} :
          SendUp(c, Frame(type, 0))
    /\ asked' = [asked EXCEPT ![c] = @ + 1]
    /\ UNCHANGED <<mains, server, peer, down, serve, link, links, resolved, call, router,
                   worker, executed>>

client_leave(c) ==
    /\ peer[c] = "open"
    /\ Leave(c)
    /\ UNCHANGED <<mains, server, serve, link, links, resolved, call, router, worker,
                   executed, asked>>

-----------------------------------------------------------------------------
session(c) ==
    \/ receive_fails(c) \/ resolve_link(c)
    \/ /\ c \in Workers
       /\ \/ receive_stops(c) \/ close_connection(c)
          \/ handle_register(c) \/ insert_link(c) \/ acknowledge(c)
          \/ handle_publication(c) \/ handle_dispatch_result(c)
          \/ close_link(c) \/ erase_link(c) \/ fence_session(c)
    \/ /\ c \in Clients
       /\ \/ handle_route_request(c) \/ admin_dispatch(c) \/ admin_fence_backend(c)
          \/ admin_shutdown(c)
          \/ handoff_lookup(c) \/ handoff_send(c) \/ handoff_wait(c)

Accept == accept_loop \/ accept_refused
Stop == stop_links \/ stop_close \/ stop_end
Worker(w) == worker_exchange(w) \/ worker_serve(w) \/ worker_disconnected(w)

\* After main() has returned, or waits for itself in stop(), no thread of the coordinator
\* is left.
Running == main \notin {"returned", "stuck", "ended"}

Next ==
    /\ Running
    /\ \/ Accept \/ stop_begin \/ Stop
       \/ \E c \in Conns : session(c)
       \/ \E w \in Workers : worker_start(w) \/ Worker(w) \/ worker_crash(w)
       \/ \E c \in Clients : client_request(c) \/ client_leave(c)

\* Threads and worker processes run while they can; nobody is obliged to connect, to
\* ask, to leave, to crash or to type quit.
Spec ==
    /\ Init /\ [][Next]_vars
    /\ WF_vars(Running /\ Accept) /\ WF_vars(Stop)
    /\ \A c \in Conns : WF_vars(Running /\ session(c))
    /\ \A w \in Workers : WF_vars(Running /\ Worker(w))

-----------------------------------------------------------------------------
FrameTypes == {"BACKEND_REGISTER", "PUBLISH", "DISPATCH_RESULT",
               "ROUTE_REQUEST", "DISPATCH", "FENCE_BACKEND", "SHUTDOWN",
               "BACKEND_REGISTER_ACK", "STATUS", "RESPONSE"}
Frames == [type : FrameTypes, arg : Nat]
Labels == {"none", "receive", "insert_link", "acknowledge", "resolve_link", "close",
           "close_link", "erase_link", "fence", "handoff", "send", "wait", "ended"}
Links == [closed : BOOLEAN, results : SUBSET Nat]
Handoffs == [target : Workers \cup {0}, link : Workers \cup {0}, id : Nat, handed : BOOLEAN]
Registry == [boot : Workers \cup {0}, fenced : SUBSET Workers,
             decision : [Clients -> Workers \cup {0}], next : Nat \ {0}]

\* The types of the variables, with the bound the code puts on the session threads.
TypeOK ==
    /\ options \in Options
    /\ listening \in BOOLEAN /\ stopping \in BOOLEAN
    /\ main \in {"run", "join_accept", "close_links", "join_sessions", "returned", "stuck",
                "ended"}
    /\ closing \in Workers \cup {0}
    /\ sessions \subseteq Conns /\ Cardinality(sessions) <= options.max_session_threads
    /\ server \in [Conns -> {"none", "open", "refused", "closed"}]
    /\ peer \in [Conns -> {"none", "open", "closed"}]
    /\ up \in [Conns -> Seq(Frames)] /\ down \in [Conns -> Seq(Frames)]
    /\ serve \in [Conns -> Labels]
    /\ link \in [Workers -> Links]
    /\ links \in Workers \cup {0}
    /\ resolved \subseteq Workers
    /\ call \in [Clients -> Handoffs]
    /\ router \in Registry
    /\ worker \in [Workers -> {"off", "register", "publish", "serve", "closing", "gone"}]
    /\ executed \in [Workers -> Seq(Nat)]
    /\ asked \in [Clients -> 0..MaxRequests]

\* handoff() is the dispatch handler the router relies on: whatever incarnations come
\* and go meanwhile, a call is reported as handed off only after the very incarnation
\* the decision was bound to has executed it, and that happens at most once.
InHandoff(c) == serve[c] \in {"handoff", "send", "wait"}
Ran(c) == IF call[c].id = 0 THEN 0
          ELSE Cardinality({i \in DOMAIN executed[call[c].target] :
                                executed[call[c].target][i] = call[c].id})
Handler == INSTANCE DispatchHandler
           WITH Callers <- Clients, Incarnations <- Workers,
                called <- [c \in Clients |-> InHandoff(c)],
                target <- [c \in Clients |-> call[c].target],
                ran <- [c \in Clients |-> Ran(c)],
                handed <- [c \in Clients |-> call[c].handed]
HandoffImplementsHandler == Handler!Spec

\* serve() promises that the end of a session makes its incarnation non-authoritative
\* and wakes the handoffs on it.  That holds for every session that found its link,
\* in every interleaving with newer incarnations and with stop().  The exception is a full
\* table of fences: fence_backend_boot then answers REJECT_LIMIT, serve() ignores it, and
\* the incarnation stays unfenced, and registered if it was.
EndedSessionIsFenced ==
    \A w \in resolved : serve[w] = "ended" =>
        /\ \/ w \in router.fenced /\ router.boot # w
           \/ w \notin router.fenced /\ FencesFull(router)
        /\ links # w /\ link[w].closed

\* A handoff waits without a timeout, and still returns: the result arrives, or the
\* session of the worker ends and closes the link.  The exceptions are a session that
\* lives on after links_ has lost its entry, because results for it are dropped, one that
\* ended without having found its link, and on POSIX an end that waits in close() for the
\* other, and a refused connection that never leaves, because mutex_ is held for it.
Abandoned(w) == \/ links # w /\ serve[w] = "receive"
                \/ w \notin resolved /\ serve[w] = "ended"
                \/ /\ options.posix /\ peer[w] = "open"
                   /\ serve[w] = "close" \/ worker[w] = "closing"
HandoffReturnsEventually ==
    []<>MutexFree =>
        \A c \in Clients : serve[c] = "wait" ~> serve[c] # "wait" \/ Abandoned(call[c].link)

\* A stop() that goes through joins every session ever started, the ones accepted
\* while it was already under way included, before the router goes down.  (After a
\* SHUTDOWN request it returns at once and joins none.)
StopJoinsEverySession ==
    main \in {"stuck", "ended"} => \A c \in Conns : serve[c] \in {"none", "ended"}

\* stop() returns once the peers it cannot disconnect have left and no handoff waits on a
\* link nobody will close.  On Windows it disconnects the worker whose link it finds; on
\* POSIX it disconnects nobody, so that every connected worker has to leave by itself.  With
\* save_on_shutdown it never returns, because the router's shutdown() waits for its own lock.
Strangers == {c \in Conns : peer[c] = "open" /\ server[c] # "closed"}
Orphans == {c \in Clients : /\ serve[c] = "wait"
                            /\ ~link[call[c].link].closed
                            /\ serve[call[c].link] = "ended"}
StopReturns ==
    (/\ <>(main = "join_accept")
     /\ <>[](Strangers = {} /\ Orphans = {})
     /\ ~options.save_on_shutdown) => <>(main = "ended")

\* README.md: "A closed backend session fences that incarnation through the real path",
\* so the router keeps no incarnation registered whose session has ended.  A worker that
\* dies before its registration is acknowledged stays registered: the failed send leaves
\* the loop before serve() has looked its link up.
ClosedSessionIsFenced == \A w \in Workers : serve[w] = "ended" => router.boot # w

=============================================================================
