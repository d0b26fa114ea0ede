-------------------------- MODULE CoordinatorProofs --------------------------
(***************************************************************************)
(* Theorems about Coordinator, for any number of incarnations and control  *)
(* clients, any session limit and any number of requests.                  *)
(***************************************************************************)
EXTENDS Coordinator, FiniteSetTheorems, SequenceTheorems, TLAPS

-----------------------------------------------------------------------------
(* Type correctness.                                                        *)

\* What the two ends of a connection do to its queues.
LEMMA QueueTypes ==
    ASSUME TypeOK, NEW c \in Conns
    PROVE  /\ \A f \in Frames : SendDown(c, f) => down' \in [Conns -> Seq(Frames)]
           /\ \A f \in Frames : SendUp(c, f) => up' \in [Conns -> Seq(Frames)]
           /\ up[c] # <<>> => Head(up[c]) \in Frames /\ [up EXCEPT ![c] = Tail(@)] \in [Conns -> Seq(Frames)]
           /\ down[c] # <<>> => Head(down[c]) \in Frames /\ [down EXCEPT ![c] = Tail(@)] \in [Conns -> Seq(Frames)]
           /\ Leave(c) => /\ peer' \in [Conns -> {"none", "open", "closed"}]
                          /\ up' \in [Conns -> Seq(Frames)]
                          /\ down' \in [Conns -> Seq(Frames)]
  <1>1. up \in [Conns -> Seq(Frames)] /\ down \in [Conns -> Seq(Frames)]
    BY DEF TypeOK
  <1>2. up[c] \in Seq(Frames) /\ down[c] \in Seq(Frames)
    BY <1>1
  <1>3. \A f \in Frames : Append(up[c], f) \in Seq(Frames) /\ Append(down[c], f) \in Seq(Frames)
    BY <1>2, AppendProperties
  <1>4. /\ up[c] # <<>> => Head(up[c]) \in Frames /\ Tail(up[c]) \in Seq(Frames)
        /\ down[c] # <<>> => Head(down[c]) \in Frames /\ Tail(down[c]) \in Seq(Frames)
    BY <1>2, HeadTailProperties
  <1>5. ASSUME NEW n \in 0..Len(up[c]) PROVE SubSeq(up[c], 1, n) \in Seq(Frames)
    <2>1. Len(up[c]) \in Nat /\ n \in Int
      BY <1>2, LenProperties
    <2>2. \A i \in 1..n : up[c][i] \in Frames
      <3>1. \A i \in 1..n : i \in 1..Len(up[c])
        BY <2>1
      <3> QED
        BY <1>2, <3>1, ElementOfSeq
    <2> QED
      BY <2>1, <2>2, SubSeqProperties
  <1>6. <<>> \in Seq(Frames)
    BY EmptySeq
  <1>7. ASSUME Leave(c)
        PROVE  /\ peer' \in [Conns -> {"none", "open", "closed"}]
               /\ up' \in [Conns -> Seq(Frames)] /\ down' \in [Conns -> Seq(Frames)]
    <2>1. PICK n \in 0..Len(up[c]) : up' = [up EXCEPT ![c] = SubSeq(up[c], 1, n)]
      BY <1>7 DEF Leave
    <2>2. up' \in [Conns -> Seq(Frames)]
      BY <1>1, <1>5, <2>1
    <2>3. down' \in [Conns -> Seq(Frames)]
      BY <1>1, <1>6, <1>7 DEF Leave
    <2> QED
      BY <1>7, <2>2, <2>3 DEF Leave, TypeOK
  <1>8. \A f \in Frames : SendDown(c, f) => down' \in [Conns -> Seq(Frames)]
    BY <1>1, <1>3 DEF SendDown
  <1>9. \A f \in Frames : SendUp(c, f) => up' \in [Conns -> Seq(Frames)]
    BY <1>1, <1>3 DEF SendUp
  <1> QED
    BY <1>1, <1>4, <1>7, <1>8, <1>9

\* A reply, or the end of the session where it cannot be sent.
LEMMA ReplyType ==
    ASSUME TypeOK, NEW c \in Conns, NEW f \in Frames, Reply(c, f)
    PROVE  /\ server' \in [Conns -> {"none", "open", "refused", "closed"}]
           /\ down' \in [Conns -> Seq(Frames)]
           /\ serve' \in [Conns -> Labels]
  BY QueueTypes DEF Reply, SessionEnds, AfterFrame, TypeOK, Labels

\* Frames that are sent are frames.
LEMMA FrameType ==
    ASSUME NEW t \in FrameTypes, NEW n \in Nat
    PROVE  Frame(t, n) \in Frames
  BY DEF Frame, Frames

\* A step that leaves the threads of the coordinator as they are, up to the listener.
LEMMA SessionsKept ==
    ASSUME TypeOK, IsFiniteSet(sessions), UNCHANGED <<options, sessions>>
    PROVE  /\ options' \in Options /\ sessions' \subseteq Conns
           /\ Cardinality(sessions') <= options'.max_session_threads /\ IsFiniteSet(sessions')
  BY DEF TypeOK

\* The accept thread.
LEMMA AcceptType ==
    ASSUME TypeOK, IsFiniteSet(sessions), Accept
    PROVE  TypeOK' /\ IsFiniteSet(sessions')
  <1>1. CASE accept_loop
    <2>1. PICK c \in Conns :
             \/ /\ \E e \in {"refused", "closed"} : server' = [server EXCEPT ![c] = e]
                /\ UNCHANGED <<serve, sessions>>
             \/ /\ ~(Cardinality(sessions) >= options.max_session_threads)
                /\ server' = [server EXCEPT ![c] = "open"]
                /\ serve' = [serve EXCEPT ![c] = "receive"]
                /\ sessions' = sessions \cup {c}
      BY <1>1 DEF accept_loop
    <2>2. /\ IsFiniteSet(sessions') /\ sessions' \subseteq Conns
          /\ Cardinality(sessions') <= options.max_session_threads
      <3>1. options.max_session_threads \in Nat /\ Cardinality(sessions) \in Nat
        BY OptionsAssumption, FS_CardinalityType DEF TypeOK
      <3>2. ASSUME sessions' = sessions \cup {c},
                   ~(Cardinality(sessions) >= options.max_session_threads)
            PROVE  /\ IsFiniteSet(sessions')
                   /\ Cardinality(sessions') <= options.max_session_threads
        <4>1. /\ IsFiniteSet(sessions \cup {c})
              /\ Cardinality(sessions \cup {c}) \in {Cardinality(sessions), Cardinality(sessions) + 1}
          BY FS_AddElement
        <4> QED
          BY <3>1, <3>2, <4>1
      <3> QED
        BY <2>1, <3>2 DEF TypeOK
    <2>3. /\ server' \in [Conns -> {"none", "open", "refused", "closed"}]
          /\ serve' \in [Conns -> Labels]
      BY <2>1 DEF TypeOK, Labels
    <2> QED
      BY <1>1, <2>2, <2>3 DEF accept_loop, TypeOK
  <1>2. CASE accept_refused
    <2>1. server' \in [Conns -> {"none", "open", "refused", "closed"}]
      BY <1>2 DEF accept_refused, TypeOK
    <2> QED
      BY <1>2, <2>1, SessionsKept DEF accept_refused, mains, TypeOK
  <1> QED
    BY <1>1, <1>2 DEF Accept

\* The main thread.
LEMMA MainType ==
    ASSUME TypeOK, IsFiniteSet(sessions), stop_begin \/ Stop
    PROVE  TypeOK' /\ IsFiniteSet(sessions')
  <1>1. ASSUME NEW w, LinkClosed(w)
        PROVE  /\ link' \in [Workers -> Links]
               /\ server' \in [Conns -> {"none", "open", "refused", "closed"}]
               /\ main' = "join_sessions" /\ closing' = 0
    <2>1. link' \in [Workers -> Links]
      BY <1>1, ZenonT(60) DEF LinkClosed, TypeOK, Links
    <2>2. server' \in [Conns -> {"none", "open", "refused", "closed"}]
      BY <1>1 DEF LinkClosed, TypeOK
    <2> QED
      BY <1>1, <2>1, <2>2 DEF LinkClosed
  <1>2. CASE stop_begin
    BY <1>2, SessionsKept DEF stop_begin, net, TypeOK
  <1>3. CASE stop_links
    <2>1. /\ link' \in [Workers -> Links]
          /\ server' \in [Conns -> {"none", "open", "refused", "closed"}]
          /\ main' \in {"close_links", "join_sessions"} /\ closing' \in Workers \cup {0}
      BY <1>1, <1>3 DEF stop_links, TypeOK
    <2> QED
      BY <1>3, <2>1, SessionsKept DEF stop_links, TypeOK
  <1>4. CASE stop_close
    <2>1. /\ link' \in [Workers -> Links]
          /\ server' \in [Conns -> {"none", "open", "refused", "closed"}]
          /\ main' = "join_sessions" /\ closing' = 0
      BY <1>1, <1>4 DEF stop_close
    <2> QED
      BY <1>4, <2>1, SessionsKept DEF stop_close, TypeOK
  <1>5. CASE stop_end
    BY <1>5, SessionsKept DEF stop_end, AfterShutdown, net, TypeOK
  <1> QED
    BY <1>2, <1>3, <1>4, <1>5 DEF Stop

\* The session of a worker.
LEMMA WorkerSessionType ==
    ASSUME TypeOK, IsFiniteSet(sessions), NEW w \in Workers,
           \/ handle_register(w) \/ insert_link(w) \/ acknowledge(w)
           \/ handle_publication(w) \/ handle_dispatch_result(w)
           \/ close_link(w) \/ erase_link(w) \/ fence_session(w)
    PROVE  TypeOK' /\ IsFiniteSet(sessions')
  <1>1. w \in Conns /\ router \in Registry /\ link \in [Workers -> Links] /\ link[w] \in Links
    BY DEF Conns, TypeOK
  <1>2. \A n \in {0, 1} : /\ Frame("BACKEND_REGISTER_ACK", n) \in Frames
                          /\ Frame("STATUS", n) \in Frames
    BY FrameType DEF FrameTypes
  <1>3. ASSUME up[w] # <<>>, Consume(w) PROVE up' \in [Conns -> Seq(Frames)]
    BY <1>1, <1>3, QueueTypes DEF Consume
  <1>4. CASE handle_register(w)
    <2>1. router' \in Registry
      BY <1>1, <1>4 DEF handle_register, Registry
    <2>2. up' \in [Conns -> Seq(Frames)]
      BY <1>3, <1>4 DEF handle_register, HasFrame
    <2>3. /\ server' \in [Conns -> {"none", "open", "refused", "closed"}]
          /\ down' \in [Conns -> Seq(Frames)]
          /\ serve' \in [Conns -> Labels]
      <3>1. CASE register_backend(w)
        BY <1>4, <3>1 DEF handle_register, TypeOK, Labels
      <3>2. CASE ~register_backend(w)
        BY <1>1, <1>2, <1>4, <3>2, ReplyType DEF handle_register
      <3> QED
        BY <3>1, <3>2
    <2> QED
      BY <1>4, <2>1, <2>2, <2>3, SessionsKept DEF handle_register, mains, TypeOK
  <1>5. CASE insert_link(w)
    BY <1>5, SessionsKept DEF insert_link, mains, net, TypeOK, Labels
  <1>6. CASE acknowledge(w)
    <2>1. /\ server' \in [Conns -> {"none", "open", "refused", "closed"}]
          /\ down' \in [Conns -> Seq(Frames)]
          /\ serve' \in [Conns -> Labels]
      BY <1>1, <1>2, <1>6, QueueTypes DEF acknowledge, SessionEnds, TypeOK, Labels
    <2> QED
      BY <1>6, <2>1, SessionsKept DEF acknowledge, mains, TypeOK
  <1>8. CASE handle_publication(w)
    <2>1. up' \in [Conns -> Seq(Frames)]
      BY <1>3, <1>8 DEF handle_publication, HasFrame
    <2>2. /\ server' \in [Conns -> {"none", "open", "refused", "closed"}]
          /\ down' \in [Conns -> Seq(Frames)]
          /\ serve' \in [Conns -> Labels]
      BY <1>1, <1>2, <1>8, ReplyType DEF handle_publication
    <2> QED
      BY <1>8, <2>1, <2>2, SessionsKept DEF handle_publication, mains, TypeOK
  <1>9. CASE handle_dispatch_result(w)
    <2>1. up' \in [Conns -> Seq(Frames)] /\ Head(up[w]).arg \in Nat
      BY <1>1, <1>3, <1>9, QueueTypes DEF handle_dispatch_result, HasFrame, Frames
    <2>2. link' \in [Workers -> Links]
      BY <1>1, <1>9, <2>1 DEF handle_dispatch_result, Links
    <2>3. serve' \in [Conns -> Labels]
      BY <1>9 DEF handle_dispatch_result, AfterFrame, TypeOK, Labels
    <2> QED
      BY <1>9, <2>1, <2>2, <2>3, SessionsKept DEF handle_dispatch_result, mains, TypeOK
  <1>10. CASE close_link(w)
    <2>1. link' \in [Workers -> Links]
      BY <1>1, <1>10 DEF close_link, Links
    <2> QED
      BY <1>10, <2>1, SessionsKept DEF close_link, mains, net, TypeOK, Labels
  <1>11. CASE erase_link(w)
    BY <1>11, SessionsKept DEF erase_link, mains, net, TypeOK, Labels
  <1>12. CASE fence_session(w)
    <2>1. router' \in Registry
      BY <1>1, <1>12 DEF fence_session, Fenced, Registry
    <2> QED
      BY <1>12, <2>1, SessionsKept DEF fence_session, mains, net, TypeOK, Labels
  <1> QED
    BY <1>4, <1>5, <1>6, <1>8, <1>9, <1>10, <1>11, <1>12

\* The session of a control client, handoff() included.
LEMMA ClientSessionType ==
    ASSUME TypeOK, IsFiniteSet(sessions), NEW c \in Clients,
           \/ handle_route_request(c) \/ admin_dispatch(c) \/ admin_fence_backend(c)
           \/ admin_shutdown(c)
           \/ handoff_lookup(c) \/ handoff_send(c) \/ handoff_wait(c)
    PROVE  TypeOK' /\ IsFiniteSet(sessions')
  <1>1. /\ c \in Conns /\ router \in Registry /\ call \in [Clients -> Handoffs]
        /\ call[c] \in Handoffs /\ links \in Workers \cup {0} /\ link \in [Workers -> Links]
    BY DEF Conns, TypeOK
  <1>2. Frame("RESPONSE", 0) \in Frames /\ \A n \in Nat : Frame("DISPATCH", n) \in Frames
    BY FrameType DEF FrameTypes
  <1>3. ASSUME up[c] # <<>>, Consume(c) PROVE up' \in [Conns -> Seq(Frames)]
    BY <1>1, <1>3, QueueTypes DEF Consume
  <1> DEFINE Sent == /\ server' \in [Conns -> {"none", "open", "refused", "closed"}]
                     /\ down' \in [Conns -> Seq(Frames)]
                     /\ serve' \in [Conns -> Labels]
  <1>4. ASSUME Reply(c, Frame("RESPONSE", 0)) PROVE Sent
    BY <1>1, <1>2, <1>4, ReplyType
  <1>5. ASSUME NEW ok \in BOOLEAN, HandoffReturns(c, ok) PROVE Sent /\ call' \in [Clients -> Handoffs]
    BY <1>1, <1>4, <1>5 DEF HandoffReturns, Handoffs
  <1>6. CASE handle_route_request(c)
    <2>1. router' \in Registry /\ up' \in [Conns -> Seq(Frames)]
      BY <1>1, <1>3, <1>6 DEF handle_route_request, HasFrame, Registry
    <2> QED
      BY <1>4, <1>6, <2>1, SessionsKept DEF handle_route_request, mains, TypeOK
  <1>7. CASE admin_dispatch(c)
    <2>1. up' \in [Conns -> Seq(Frames)]
      BY <1>3, <1>7 DEF admin_dispatch, HasFrame
    <2>2. Sent /\ call' \in [Clients -> Handoffs]
      <3> DEFINE b == router.decision[c]
      <3>1. b \in Workers \cup {0}
        BY <1>1 DEF Registry
      <3>2. [NoCall EXCEPT !.target = b] \in Handoffs
        BY <3>1 DEF NoCall, Handoffs
      <3>3. CASE b # 0 /\ b = router.boot
        <4>1. /\ call' = [call EXCEPT ![c] = [NoCall EXCEPT !.target = b]]
              /\ serve' = [serve EXCEPT ![c] = "handoff"]
              /\ UNCHANGED <<server, down>>
          BY <1>7, <3>3 DEF admin_dispatch
        <4>2. call' \in [Clients -> Handoffs]
          BY <1>1, <3>2, <4>1
        <4>3. Sent
          BY <4>1 DEF TypeOK, Labels
        <4> QED
          BY <4>2, <4>3
      <3>4. CASE ~(b # 0 /\ b = router.boot)
        BY <1>1, <1>4, <1>7, <3>4 DEF admin_dispatch
      <3> QED
        BY <3>3, <3>4
    <2> QED
      BY <1>7, <2>1, <2>2, SessionsKept DEF admin_dispatch, mains, TypeOK
  <1>8. CASE admin_fence_backend(c)
    <2>1. router' \in Registry /\ up' \in [Conns -> Seq(Frames)]
      BY <1>1, <1>3, <1>8 DEF admin_fence_backend, HasFrame, Registry, Fenced
    <2> QED
      BY <1>4, <1>8, <2>1, SessionsKept DEF admin_fence_backend, mains, TypeOK
  <1>9. CASE admin_shutdown(c)
    <2>1. up' \in [Conns -> Seq(Frames)]
      BY <1>3, <1>9 DEF admin_shutdown, HasFrame
    <2> QED
      BY <1>4, <1>9, <2>1, SessionsKept DEF admin_shutdown, TypeOK
  <1>10. CASE handoff_lookup(c)
    <2>1. Sent /\ call' \in [Clients -> Handoffs]
      <3>1. CASE links # 0 /\ links = call[c].target
        <4>1. /\ call' = [call EXCEPT ![c].link = links]
              /\ serve' = [serve EXCEPT ![c] = "send"]
              /\ UNCHANGED <<server, down>>
          BY <1>10, <3>1 DEF handoff_lookup
        <4>2. call' \in [Clients -> Handoffs]
          BY <1>1, <4>1 DEF Handoffs
        <4>3. Sent
          BY <4>1 DEF TypeOK, Labels
        <4> QED
          BY <4>2, <4>3
      <3>2. CASE ~(links # 0 /\ links = call[c].target)
        BY <1>5, <1>10, <3>2 DEF handoff_lookup
      <3> QED
        BY <3>1, <3>2
    <2> QED
      BY <1>10, <2>1, SessionsKept DEF handoff_lookup, mains, TypeOK
  <1>11. CASE handoff_send(c)
    <2>1. router.next \in Nat
      BY <1>1 DEF Registry
    <2>2. router' \in Registry
      BY <1>1, <1>11 DEF handoff_send, Registry
    <2>3. Sent /\ call' \in [Clients -> Handoffs]
      <3>1. ASSUME SendDown(call[c].link, Frame("DISPATCH", router.next)),
                   call' = [call EXCEPT ![c].id = router.next],
                   serve' = [serve EXCEPT ![c] = "wait"], UNCHANGED server
            PROVE  Sent /\ call' \in [Clients -> Handoffs]
        <4>1. down' \in [Conns -> Seq(Frames)]
          <5>1. CASE call[c].link \in Workers
            BY <1>2, <2>1, <3>1, <5>1, QueueTypes DEF Conns
          <5>2. CASE call[c].link \notin Workers
            BY <3>1, <5>2 DEF SendDown, TypeOK
          <5> QED
            BY <5>1, <5>2
        <4>2. call' \in [Clients -> Handoffs]
          BY <1>1, <2>1, <3>1 DEF Handoffs
        <4> QED
          BY <1>1, <3>1, <4>1, <4>2 DEF TypeOK, Labels
      <3> QED
        BY <1>5, <1>11, <3>1 DEF handoff_send
    <2> QED
      BY <1>11, <2>2, <2>3, SessionsKept DEF handoff_send, mains, TypeOK
  <1>12. CASE handoff_wait(c)
    <2>1. link' \in [Workers -> Links]
      BY <1>1, <1>12 DEF handoff_wait, Links
    <2>2. (call[c].id \in link[call[c].link].results) \in BOOLEAN
      OBVIOUS
    <2>3. Sent /\ call' \in [Clients -> Handoffs]
      BY <1>5, <1>12, <2>2 DEF handoff_wait
    <2> QED
      BY <1>12, <2>1, <2>3, SessionsKept DEF handoff_wait, mains, TypeOK
  <1> QED
    BY <1>6, <1>7, <1>8, <1>9, <1>10, <1>11, <1>12

\* The worker processes and the control clients.
LEMMA PeerType ==
    ASSUME TypeOK, IsFiniteSet(sessions),
           \/ \E w \in Workers : worker_start(w) \/ Worker(w) \/ worker_crash(w)
           \/ \E c \in Clients : client_request(c) \/ client_leave(c)
    PROVE  TypeOK' /\ IsFiniteSet(sessions')
  <1>1. ASSUME NEW t \in FrameTypes PROVE Frame(t, 0) \in Frames
    BY FrameType
  <1>2. \A n \in Nat : Frame("DISPATCH_RESULT", n) \in Frames
    BY FrameType DEF FrameTypes
  <1> DEFINE Queues == /\ peer' \in [Conns -> {"none", "open", "closed"}]
                       /\ up' \in [Conns -> Seq(Frames)] /\ down' \in [Conns -> Seq(Frames)]
             States == [Workers -> {"off", "register", "publish", "serve", "closing", "gone"}]
  <1>3. ASSUME NEW w \in Workers, Exit(w) PROVE Queues /\ worker' \in States
    BY <1>3, QueueTypes DEF Exit, TypeOK, Conns
  <1>4. ASSUME NEW w \in Workers, worker_start(w) PROVE TypeOK' /\ IsFiniteSet(sessions')
    <2>1. Queues /\ worker' \in States
      <3>1. Frame("BACKEND_REGISTER", 0) \in Frames
        BY <1>1 DEF FrameTypes
      <3>2. w \in Conns
        BY DEF Conns
      <3> QED
        BY <1>4, <3>1, <3>2, QueueTypes DEF worker_start, TypeOK
    <2> QED
      BY <1>4, <2>1, SessionsKept DEF worker_start, mains, TypeOK
  <1>5. ASSUME NEW w \in Workers, worker_exchange(w) PROVE TypeOK' /\ IsFiniteSet(sessions')
    <2>1. w \in Conns /\ down[w] # <<>>
      BY <1>5 DEF Conns, worker_exchange
    <2>2. [down EXCEPT ![w] = Tail(@)] \in [Conns -> Seq(Frames)]
      BY <2>1, QueueTypes
    <2>3. Frame("PUBLISH", 0) \in Frames
      BY <1>1 DEF FrameTypes
    <2>4. SendUp(w, Frame("PUBLISH", 0)) => up' \in [Conns -> Seq(Frames)]
      BY <2>1, <2>3, QueueTypes
    <2>5. Return(w) => Queues /\ worker' \in States
      BY <1>3 DEF Return, TypeOK
    <2>6. Queues /\ worker' \in States
      BY <1>5, <2>2, <2>4, <2>5 DEF worker_exchange, TypeOK
    <2> QED
      BY <1>5, <2>6, SessionsKept DEF worker_exchange, mains, TypeOK
  <1>6. ASSUME NEW w \in Workers, worker_serve(w) PROVE TypeOK' /\ IsFiniteSet(sessions')
    <2>1. w \in Conns /\ down[w] # <<>>
      BY <1>6 DEF Conns, worker_serve
    <2>2. Head(down[w]).arg \in Nat /\ down' \in [Conns -> Seq(Frames)]
      BY <1>6, <2>1, QueueTypes DEF worker_serve, Frames
    <2>3. up' \in [Conns -> Seq(Frames)]
      BY <1>2, <1>6, <2>1, <2>2, QueueTypes DEF worker_serve
    <2>4. executed' \in [Workers -> Seq(Nat)]
      <3>1. executed[w] \in Seq(Nat)
        BY DEF TypeOK
      <3>2. Append(executed[w], Head(down[w]).arg) \in Seq(Nat)
        BY <2>2, <3>1, AppendProperties
      <3> QED
        BY <1>6, <3>2 DEF worker_serve, TypeOK
    <2> QED
      BY <1>6, <2>2, <2>3, <2>4, SessionsKept DEF worker_serve, mains, TypeOK
  <1>7. ASSUME NEW w \in Workers, worker_disconnected(w) \/ worker_crash(w)
        PROVE  TypeOK' /\ IsFiniteSet(sessions')
    <2>1. Queues /\ worker' \in States
      BY <1>3, <1>7 DEF worker_disconnected, worker_crash
    <2> QED
      BY <1>7, <2>1, SessionsKept DEF worker_disconnected, worker_crash, mains, TypeOK
  <1>8. ASSUME NEW c \in Clients, client_request(c) PROVE TypeOK' /\ IsFiniteSet(sessions')
    <2>1. \A t \in {"ROUTE_REQUEST", "DISPATCH", "FENCE_BACKEND", "SHUTDOWN"} : Frame(t, 0) \in Frames
      BY <1>1 DEF FrameTypes
    <2>2. up' \in [Conns -> Seq(Frames)]
      <3>1. c \in Conns
        BY DEF Conns
      <3> QED
        BY <1>8, <2>1, <3>1, QueueTypes DEF client_request
    <2>3. asked' \in [Clients -> 0..MaxRequests]
      <3>1. asked \in [Clients -> 0..MaxRequests] /\ asked[c] + 1 \in 0..MaxRequests
        BY <1>8, BoundsAssumption DEF client_request, TypeOK
      <3> QED
        BY <1>8, <3>1 DEF client_request
    <2> QED
      BY <1>8, <2>2, <2>3, SessionsKept DEF client_request, mains, TypeOK
  <1>9. ASSUME NEW c \in Clients, client_leave(c) PROVE TypeOK' /\ IsFiniteSet(sessions')
    <2>1. Queues
      BY <1>9, QueueTypes DEF client_leave, Conns
    <2> QED
      BY <1>9, <2>1, SessionsKept DEF client_leave, mains, TypeOK
  <1> QED
    BY <1>4, <1>5, <1>6, <1>7, <1>8, <1>9 DEF Worker

\* The steps of serve() itself: the end of its loop and the search for its link.
Between(c) == receive_fails(c) \/ resolve_link(c) \/ receive_stops(c) \/ close_connection(c)

LEMMA BetweenType ==
    ASSUME TypeOK, IsFiniteSet(sessions), NEW c \in Conns, Between(c)
    PROVE  TypeOK' /\ IsFiniteSet(sessions')
  <1>1. CASE receive_fails(c) \/ close_connection(c)
    <2>1. /\ server' \in [Conns -> {"none", "open", "refused", "closed"}]
          /\ serve' \in [Conns -> Labels]
      BY <1>1 DEF receive_fails, close_connection, SessionEnds, TypeOK, Labels
    <2> QED
      BY <1>1, <2>1, SessionsKept DEF receive_fails, close_connection, mains, TypeOK
  <1>2. CASE resolve_link(c)
    <2>1. resolved' \subseteq Workers
      BY <1>2, ClientsAssumption DEF resolve_link, Conns, TypeOK
    <2> QED
      BY <1>2, <2>1, SessionsKept DEF resolve_link, mains, net, TypeOK, Labels
  <1>3. CASE receive_stops(c)
    BY <1>3, SessionsKept DEF receive_stops, mains, net, TypeOK, Labels
  <1> QED
    BY <1>1, <1>2, <1>3 DEF Between

\* Every step keeps the types; sessions_ is finite because it is bounded.
LEMMA NextType ==
    ASSUME TypeOK, IsFiniteSet(sessions), [Next]_vars
    PROVE  TypeOK' /\ IsFiniteSet(sessions')
  <1>1. CASE UNCHANGED vars
    BY <1>1 DEF vars, mains, net, TypeOK
  <1>2. ASSUME NEW c \in Conns, session(c) PROVE TypeOK' /\ IsFiniteSet(sessions')
    BY <1>2, BetweenType, WorkerSessionType, ClientSessionType DEF session, Between
  <1> QED
    BY <1>1, <1>2, AcceptType, MainType, PeerType DEF Next

LEMMA InitType == Init => TypeOK /\ IsFiniteSet(sessions)
  <1> SUFFICES ASSUME Init PROVE TypeOK /\ IsFiniteSet(sessions)
    OBVIOUS
  <1>1. options.max_session_threads \in Nat /\ Cardinality({}) = 0 /\ IsFiniteSet({})
    BY OptionsAssumption, FS_EmptySet DEF Init
  <1>2. IsFiniteSet(sessions) /\ Cardinality(sessions) <= options.max_session_threads
    BY <1>1 DEF Init
  <1>3. <<>> \in Seq(Frames) /\ <<>> \in Seq(Nat)
    BY EmptySeq
  <1>4. asked \in [Clients -> 0..MaxRequests]
    BY BoundsAssumption DEF Init
  <1>5. NoCall \in Handoffs
    BY DEF NoCall, Handoffs
  <1>6. call \in [Clients -> Handoffs]
    BY <1>5 DEF Init
  <1>7. router \in Registry
    BY DEF Init, Registry
  <1>8. link \in [Workers -> Links]
    BY DEF Init, Links
  <1>9. /\ server \in [Conns -> {"none", "open", "refused", "closed"}]
        /\ peer \in [Conns -> {"none", "open", "closed"}]
        /\ serve \in [Conns -> Labels]
    BY DEF Init, Labels
  <1>10. /\ up \in [Conns -> Seq(Frames)] /\ down \in [Conns -> Seq(Frames)]
         /\ executed \in [Workers -> Seq(Nat)]
    BY <1>3 DEF Init
  <1>11. worker \in [Workers -> {"off", "register", "publish", "serve", "closing", "gone"}]
    BY DEF Init
  <1>12. /\ options \in Options /\ listening \in BOOLEAN /\ stopping \in BOOLEAN
         /\ main = "run" /\ closing \in Workers \cup {0}
         /\ sessions \subseteq Conns /\ links \in Workers \cup {0} /\ resolved \subseteq Workers
    BY DEF Init
  <1> QED
    BY <1>2, <1>4, <1>6, <1>7, <1>8, <1>9, <1>10, <1>11, <1>12 DEF TypeOK

TypeInv == TypeOK /\ IsFiniteSet(sessions)

\* The variables keep their types, and sessions_ never outgrows max_session_threads,
\* although finished threads are not reaped before stop().
THEOREM TypeCorrect == Spec => []TypeOK
  <1>1. Init => TypeInv
    BY InitType DEF TypeInv
  <1>2. TypeInv /\ [Next]_vars => TypeInv'
    BY NextType DEF TypeInv
  <1>3. TypeInv => TypeOK
    BY DEF TypeInv
  <1> QED
    BY <1>1, <1>2, <1>3, PTL DEF Spec

-----------------------------------------------------------------------------
(* The clean-up of a session.                                               *)

\* serve() fences an incarnation in three critical sections.  After each of them the
\* part that is done stays done.
CleanUp(w) ==
    /\ serve[w] \in {"erase_link", "fence", "ended"} => link[w].closed
    /\ serve[w] \in {"fence", "ended"} => links # w
    /\ serve[w] = "ended" => w \in router.fenced \/ FencesFull(router)

\* Every serve() thread was started by accept_loop(), which kept it in sessions_, on a
\* connection that was accepted.
SessionInv ==
    /\ \A c \in Conns : serve[c] # "none" => c \in sessions /\ server[c] # "none"
    /\ \A w \in resolved : CleanUp(w)
    /\ router.boot \notin router.fenced
    /\ StopJoinsEverySession

\* One serve() thread takes a step: the others keep what they have done of their
\* clean-up, because links are not reopened, links_ never gets the entry of another
\* connection, fences are never lifted and a full table of fences stays as it is.
FencesKept == /\ router.fenced \subseteq router'.fenced
              /\ FencesFull(router) => router'.fenced = router.fenced
LEMMA SessionMoved ==
    ASSUME TypeOK, SessionInv, Running, NEW c \in Conns, NEW l \in Labels \ {"none"},
           serve[c] # "none", serve' = [serve EXCEPT ![c] = l],
           server' = server \/ server' = [server EXCEPT ![c] = "closed"],
           UNCHANGED <<sessions, main, options>>,
           resolved' \subseteq resolved \cup {c},
           \A w \in Workers : link[w].closed => link'[w].closed,
           links' \in {links, 0, c},
           FencesKept, router'.boot \notin router'.fenced,
           c \in resolved' => CleanUp(c)'
    PROVE  SessionInv'
  <1>1. \A d \in Conns : serve'[d] # "none" => d \in sessions' /\ server'[d] # "none"
    BY DEF SessionInv, TypeOK
  <1>2. ASSUME NEW w \in resolved' PROVE CleanUp(w)'
    <2>1. CASE w = c
      BY <2>1
    <2>2. CASE w # c
      <3>1. w \in resolved /\ w \in Workers /\ w # 0 /\ w \in Conns
        BY <2>2, WorkersAssumption DEF TypeOK, Conns
      <3>2. serve'[w] = serve[w]
        BY <2>2, <3>1 DEF TypeOK
      <3>3. CleanUp(w)
        BY <3>1 DEF SessionInv
      <3>4. links # w => links' # w
        BY <2>2, <3>1
      <3>5. w \in router.fenced \/ FencesFull(router) => w \in router'.fenced \/ FencesFull(router)'
        BY DEF FencesKept, FencesFull
      <3> QED
        BY <3>1, <3>2, <3>3, <3>4, <3>5 DEF CleanUp
    <2> QED
      BY <2>1, <2>2
  <1>3. StopJoinsEverySession'
    BY DEF Running, StopJoinsEverySession
  <1> QED
    BY <1>1, <1>2, <1>3 DEF SessionInv

\* A session that replies goes back to receive() or leaves its loop.
LEMMA ReplyMoves ==
    ASSUME TypeOK, NEW c \in Conns, NEW f, Reply(c, f)
    PROVE  \E l \in {"receive", "resolve_link", "close_link", "ended"} :
              /\ serve' = [serve EXCEPT ![c] = l]
              /\ server' = server \/ server' = [server EXCEPT ![c] = "closed"]
              /\ c \in resolved => l # "ended"
  BY DEF Reply, SessionEnds, AfterFrame

\* Only the result store of a link changes with a result, never its closed flag.
LEMMA ClosedKept ==
    ASSUME TypeOK, NEW w, NEW R,
           link' = [link EXCEPT ![w].results = R]
    PROVE  \A v \in Workers : link'[v].closed = link[v].closed
  BY DEF TypeOK, Links

\* A fence that the router records or refuses.
LEMMA FencedKeeps ==
    ASSUME NEW w \in Workers, router \in Registry, router.boot \notin router.fenced,
           router' = Fenced(router, w)
    PROVE  /\ FencesKept /\ router'.boot \notin router'.fenced
           /\ w \in router'.fenced \/ FencesFull(router')
           /\ router'.next = router.next
  <1>1. CASE w \in router.fenced \/ FencesFull(router)
    BY <1>1 DEF Fenced, FencesKept
  <1>2. CASE ~(w \in router.fenced \/ FencesFull(router))
    <2>1. /\ router'.fenced = router.fenced \cup {w}
          /\ router'.boot = IF router.boot = w THEN 0 ELSE router.boot
          /\ router'.next = router.next
      BY <1>2 DEF Fenced, Registry
    <2>2. 0 \notin router'.fenced
      BY <2>1, WorkersAssumption DEF Registry
    <2> QED
      BY <1>2, <2>1, <2>2 DEF FencesKept
  <1> QED
    BY <1>1, <1>2

\* The session of a worker.
LEMMA WorkerSessionInv ==
    ASSUME TypeOK, SessionInv, Running, NEW w \in Workers,
           \/ handle_register(w) \/ insert_link(w) \/ acknowledge(w)
           \/ handle_publication(w) \/ handle_dispatch_result(w)
           \/ close_link(w) \/ erase_link(w) \/ fence_session(w)
    PROVE  SessionInv'
  <1>1. /\ w \in Conns /\ w # 0 /\ router \in Registry /\ link \in [Workers -> Links]
        /\ link[w] \in Links /\ serve \in [Conns -> Labels] /\ links \in Workers \cup {0}
    BY WorkersAssumption DEF Conns, TypeOK
  <1>2. /\ router.boot \notin router.fenced /\ (w \in resolved => CleanUp(w))
        /\ router'.fenced = router.fenced => FencesKept
    BY DEF SessionInv, FencesKept
  <1>3. ASSUME NEW f, Reply(w, f), serve[w] # "none",
               UNCHANGED <<mains, resolved, link, links, router>>
        PROVE  SessionInv'
    <2>1. PICK l \in {"receive", "resolve_link", "close_link", "ended"} :
              /\ serve' = [serve EXCEPT ![w] = l]
              /\ server' = server \/ server' = [server EXCEPT ![w] = "closed"]
              /\ w \in resolved => l # "ended"
      BY <1>1, <1>3, ReplyMoves
    <2>2. w \in resolved' => CleanUp(w)'
      BY <1>1, <1>3, <2>1 DEF CleanUp
    <2>3. l \in Labels \ {"none"}
      BY DEF Labels
    <2> QED
      BY <1>1, <1>2, <1>3, <2>1, <2>2, <2>3, SessionMoved DEF mains
  <1>4. CASE handle_register(w)
    <2>1. CASE register_backend(w)
      <3>1. /\ serve' = [serve EXCEPT ![w] = "insert_link"] /\ server' = server
            /\ UNCHANGED <<sessions, main, options, resolved, link, links>> /\ serve[w] # "none"
            /\ router' = [router EXCEPT !.boot = w] /\ w \notin router.fenced
        BY <1>4, <2>1 DEF handle_register, HasFrame, register_backend, mains
      <3>2. router'.fenced = router.fenced /\ router'.boot = w
        BY <1>1, <3>1 DEF Registry
      <3>3. CleanUp(w)'
        BY <1>1, <3>1 DEF CleanUp
      <3> QED
        BY <1>1, <1>2, <3>1, <3>2, <3>3, SessionMoved DEF Labels
    <2>2. CASE ~register_backend(w)
      BY <1>3, <1>4, <2>2 DEF handle_register, HasFrame
    <2> QED
      BY <2>1, <2>2
  <1>5. CASE insert_link(w)
    <2>1. /\ serve' = [serve EXCEPT ![w] = "acknowledge"] /\ UNCHANGED <<server, sessions, main, options>>
          /\ UNCHANGED <<resolved, link, router>> /\ links' = w /\ serve[w] # "none"
      BY <1>5 DEF insert_link, mains, net
    <2>2. CleanUp(w)'
      BY <1>1, <2>1 DEF CleanUp
    <2> QED
      BY <1>1, <1>2, <2>1, <2>2, SessionMoved DEF Labels
  <1>6. CASE acknowledge(w)
    <2>1. PICK l \in {"resolve_link", "close_link", "ended"} :
             /\ serve' = [serve EXCEPT ![w] = l]
             /\ server' = server \/ server' = [server EXCEPT ![w] = "closed"]
             /\ w \in resolved => l # "ended"
      BY <1>6 DEF acknowledge, SessionEnds
    <2>2. UNCHANGED <<sessions, main, options, resolved, link, links, router>> /\ serve[w] # "none"
      BY <1>6 DEF acknowledge, mains
    <2>3. w \in resolved' => CleanUp(w)'
      BY <1>1, <2>1, <2>2 DEF CleanUp
    <2>4. l \in Labels \ {"none"}
      BY DEF Labels
    <2> QED
      BY <1>1, <1>2, <2>1, <2>2, <2>3, <2>4, SessionMoved
  <1>8. CASE handle_publication(w)
    BY <1>3, <1>8 DEF handle_publication, HasFrame
  <1>9. CASE handle_dispatch_result(w)
    <2>1. PICK l \in {"receive", "resolve_link"} : serve' = [serve EXCEPT ![w] = l]
      BY <1>9 DEF handle_dispatch_result, AfterFrame
    <2>2. /\ UNCHANGED <<server, sessions, main, options, resolved, links, router>>
          /\ serve[w] # "none"
      BY <1>9 DEF handle_dispatch_result, HasFrame, mains
    <2>3. \A v \in Workers : link'[v].closed = link[v].closed
      BY <1>9, ClosedKept DEF handle_dispatch_result
    <2>4. CleanUp(w)'
      BY <1>1, <2>1, <2>2 DEF CleanUp
    <2>5. l \in Labels \ {"none"}
      BY DEF Labels
    <2> QED
      BY <1>1, <1>2, <2>1, <2>2, <2>3, <2>4, <2>5, SessionMoved
  <1>10. CASE close_link(w)
    <2>1. /\ serve' = [serve EXCEPT ![w] = "erase_link"] /\ UNCHANGED <<server, sessions, main, options>>
          /\ UNCHANGED <<resolved, links, router>> /\ link' = [link EXCEPT ![w].closed = TRUE]
          /\ serve[w] # "none"
      BY <1>10 DEF close_link, mains, net
    <2>2. link'[w].closed /\ \A v \in Workers : link[v].closed => link'[v].closed
      BY <1>1, <2>1 DEF Links
    <2>3. CleanUp(w)'
      BY <1>1, <2>1, <2>2 DEF CleanUp
    <2> QED
      BY <1>1, <1>2, <2>1, <2>2, <2>3, SessionMoved DEF Labels
  <1>11. CASE erase_link(w)
    <2>1. /\ serve' = [serve EXCEPT ![w] = "fence"] /\ UNCHANGED <<server, sessions, main, options>>
          /\ UNCHANGED <<resolved, link, router>> /\ links' = 0 /\ serve[w] = "erase_link"
      BY <1>11 DEF erase_link, mains, net
    <2>2. w \in resolved' => CleanUp(w)'
      BY <1>1, <1>2, <2>1 DEF CleanUp
    <2> QED
      BY <1>1, <1>2, <2>1, <2>2, SessionMoved DEF Labels
  <1>12. CASE fence_session(w)
    <2>1. /\ serve' = [serve EXCEPT ![w] = "ended"] /\ UNCHANGED <<server, sessions, main, options>>
          /\ UNCHANGED <<resolved, link, links>> /\ router' = Fenced(router, w)
          /\ serve[w] = "fence"
      BY <1>12 DEF fence_session, mains, net
    <2>2. FencesKept /\ router'.boot \notin router'.fenced
      BY <1>1, <1>2, <2>1, FencedKeeps
    <2>3. options' = options /\ (w \in router'.fenced \/ FencesFull(router'))
      BY <1>1, <1>2, <2>1, FencedKeeps
    <2>5. w \in router'.fenced \/ FencesFull(router)'
      BY <2>3 DEF FencesFull
    <2>4. w \in resolved' => CleanUp(w)'
      BY <1>1, <1>2, <2>1, <2>5 DEF CleanUp
    <2> QED
      BY <1>1, <1>2, <2>1, <2>2, <2>4, SessionMoved DEF Labels
  <1> QED
    BY <1>4, <1>5, <1>6, <1>8, <1>9, <1>10, <1>11, <1>12

\* The session of a control client: it has no link to clean up, and the fence it may ask
\* for retires the registration with it.
LEMMA ClientSessionInv ==
    ASSUME TypeOK, SessionInv, Running, NEW c \in Clients,
           \/ handle_route_request(c) \/ admin_dispatch(c) \/ admin_fence_backend(c)
           \/ admin_shutdown(c)
           \/ handoff_lookup(c) \/ handoff_send(c) \/ handoff_wait(c)
    PROVE  SessionInv'
  <1>1. c \in Conns /\ c \notin resolved /\ router \in Registry /\ link \in [Workers -> Links]
    BY ClientsAssumption DEF Conns, TypeOK
  <1>2. router.boot \notin router.fenced /\ (router'.fenced = router.fenced => FencesKept)
    BY DEF SessionInv, FencesKept
  <1> DEFINE Rest == /\ UNCHANGED <<sessions, main, options, resolved, links>>
                     /\ serve[c] # "none"
                     /\ \A w \in Workers : link[w].closed => link'[w].closed
                     /\ FencesKept /\ router'.boot \notin router'.fenced
  <1>3. ASSUME NEW f, Reply(c, f), Rest PROVE SessionInv'
    <2>1. PICK l \in {"receive", "resolve_link", "close_link", "ended"} :
              /\ serve' = [serve EXCEPT ![c] = l]
              /\ server' = server \/ server' = [server EXCEPT ![c] = "closed"]
      BY <1>1, <1>3, ReplyMoves
    <2>2. l \in Labels \ {"none"}
      BY DEF Labels
    <2> QED
      BY <1>1, <1>3, <2>1, <2>2, SessionMoved
  <1>4. ASSUME NEW l \in Labels \ {"none"}, serve' = [serve EXCEPT ![c] = l], UNCHANGED server, Rest
        PROVE  SessionInv'
    BY <1>1, <1>4, SessionMoved
  <1>5. "handoff" \in Labels \ {"none"} /\ "send" \in Labels \ {"none"} /\ "wait" \in Labels \ {"none"}
    BY DEF Labels
  <1>6. CASE handle_route_request(c)
    <2>1. router'.fenced = router.fenced /\ router'.boot = router.boot
      BY <1>1, <1>6 DEF handle_route_request, Registry
    <2>2. Rest
      BY <1>2, <1>6, <2>1 DEF handle_route_request, HasFrame, mains
    <2> QED
      BY <1>3, <1>6, <2>2 DEF handle_route_request
  <1>7. CASE admin_dispatch(c)
    <2>1. Rest
      BY <1>2, <1>7 DEF admin_dispatch, HasFrame, mains
    <2>2. \/ serve' = [serve EXCEPT ![c] = "handoff"] /\ UNCHANGED server
          \/ Reply(c, Frame("RESPONSE", 0))
      BY <1>7 DEF admin_dispatch
    <2> QED
      BY <1>3, <1>4, <1>5, <2>1, <2>2
  <1>8. CASE admin_fence_backend(c)
    <2>1. FencesKept /\ router'.boot \notin router'.fenced
      <3>1. CASE router.boot = 0
        BY <1>2, <1>8, <3>1 DEF admin_fence_backend, FencesKept
      <3>2. CASE router.boot # 0
        <4>1. router' = Fenced(router, router.boot) /\ router.boot \in Workers
          BY <1>1, <1>8, <3>2 DEF admin_fence_backend, Registry
        <4> QED
          BY <1>1, <1>2, <4>1, FencedKeeps
      <3> QED
        BY <3>1, <3>2
    <2>2. Rest
      BY <1>8, <2>1 DEF admin_fence_backend, HasFrame, mains
    <2> QED
      BY <1>3, <1>8, <2>2 DEF admin_fence_backend
  <1>9. CASE admin_shutdown(c)
    <2>1. Rest
      BY <1>2, <1>9 DEF admin_shutdown, HasFrame
    <2> QED
      BY <1>3, <1>9, <2>1 DEF admin_shutdown
  <1>10. CASE handoff_lookup(c)
    <2>1. Rest
      BY <1>2, <1>10 DEF handoff_lookup, mains
    <2>2. \/ serve' = [serve EXCEPT ![c] = "send"] /\ UNCHANGED server
          \/ Reply(c, Frame("RESPONSE", 0))
      BY <1>10 DEF handoff_lookup, HandoffReturns
    <2> QED
      BY <1>3, <1>4, <1>5, <2>1, <2>2
  <1>11. CASE handoff_send(c)
    <2>1. router' = [router EXCEPT !.next = @ + 1]
      BY <1>11 DEF handoff_send
    <2>2. router'.fenced = router.fenced /\ router'.boot = router.boot
      BY <1>1, <2>1 DEF Registry
    <2>3. Rest
      BY <1>2, <1>11, <2>2 DEF handoff_send, mains
    <2>4. \/ serve' = [serve EXCEPT ![c] = "wait"] /\ UNCHANGED server
          \/ Reply(c, Frame("RESPONSE", 0))
      BY <1>11 DEF handoff_send, HandoffReturns
    <2> QED
      BY <1>3, <1>4, <1>5, <2>3, <2>4
  <1>12. CASE handoff_wait(c)
    <2>1. \A v \in Workers : link'[v].closed = link[v].closed
      BY <1>12, ClosedKept DEF handoff_wait
    <2>2. Rest
      BY <1>2, <1>12, <2>1 DEF handoff_wait, mains
    <2> QED
      BY <1>3, <1>12, <2>2 DEF handoff_wait, HandoffReturns
  <1> QED
    BY <1>6, <1>7, <1>8, <1>9, <1>10, <1>11, <1>12

\* The accept thread and the main thread.  stop() waits for the threads of sessions_, and
\* there are no others.
LEMMA MainInv ==
    ASSUME TypeOK, SessionInv, Running, Accept \/ stop_begin \/ Stop
    PROVE  SessionInv'
  <1>1. ASSUME UNCHANGED <<options, resolved, links, router>>,
               \A w \in resolved : serve'[w] \in {serve[w], "receive"},
               \A w \in resolved : link[w].closed => link'[w].closed
        PROVE  (\A w \in resolved' : CleanUp(w)') /\ router'.boot \notin router'.fenced
    <2>1. ASSUME NEW w \in resolved PROVE CleanUp(w)'
      BY <1>1 DEF SessionInv, CleanUp, FencesFull
    <2> QED
      BY <1>1, <2>1 DEF SessionInv
  <1>2. CASE Accept
    <2>1. PICK c \in Conns :
             \/ /\ \E e \in {"refused", "closed"} : server' = [server EXCEPT ![c] = e]
                /\ UNCHANGED <<serve, sessions>>
             \/ /\ server' = [server EXCEPT ![c] = "open"]
                /\ serve' = [serve EXCEPT ![c] = "receive"]
                /\ sessions' = sessions \cup {c}
      BY <1>2 DEF Accept, accept_loop, accept_refused, mains
    <2>2. UNCHANGED <<options, resolved, links, router, link, main>>
      BY <1>2 DEF Accept, accept_loop, accept_refused, mains
    <2>3. \A d \in Conns : serve'[d] # "none" => d \in sessions' /\ server'[d] # "none"
      BY <2>1 DEF SessionInv, TypeOK
    <2>4. \A w \in resolved : serve'[w] \in {serve[w], "receive"}
      BY <2>1 DEF TypeOK, Conns
    <2> QED
      BY <1>1, <2>2, <2>3, <2>4 DEF SessionInv, Running, StopJoinsEverySession
  <1>3. CASE stop_begin
    <2>1. /\ UNCHANGED <<options, resolved, links, router, link, serve, server, sessions>>
          /\ main' \notin {"stuck", "ended"}
      BY <1>3 DEF stop_begin, net
    <2> QED
      BY <1>1, <2>1 DEF SessionInv, StopJoinsEverySession
  <1>4. CASE stop_links \/ stop_close
    <2>1. /\ UNCHANGED <<options, resolved, links, router, serve, sessions>>
          /\ main' \notin {"stuck", "ended"}
          /\ UNCHANGED <<server, link>> \/ \E w : LinkClosed(w)
      BY <1>4 DEF stop_links, stop_close, LinkClosed
    <2>2. \A d \in Conns : server'[d] # "none" \/ server'[d] = server[d]
      BY <2>1 DEF LinkClosed
    <2>3. \A w \in Workers : link[w].closed => link'[w].closed
      BY <2>1 DEF LinkClosed, TypeOK, Links
    <2>4. resolved \subseteq Workers
      BY DEF TypeOK
    <2>5. \A d \in Conns : serve'[d] # "none" => d \in sessions' /\ server'[d] # "none"
      BY <2>1, <2>2 DEF SessionInv
    <2> QED
      BY <1>1, <2>1, <2>3, <2>4, <2>5 DEF SessionInv, StopJoinsEverySession
  <1>5. CASE stop_end
    <2>1. /\ UNCHANGED <<options, resolved, links, router, link, serve, server, sessions>>
          /\ \A c \in sessions : serve[c] = "ended"
      BY <1>5 DEF stop_end, net
    <2>2. \A c \in Conns : serve[c] \in {"none", "ended"}
      BY <2>1 DEF SessionInv
    <2> QED
      BY <1>1, <2>1, <2>2 DEF SessionInv, StopJoinsEverySession
  <1> QED
    BY <1>2, <1>3, <1>4, <1>5 DEF Stop

\* serve() itself, up to the clean-up of its link.
LEMMA BetweenInv ==
    ASSUME TypeOK, SessionInv, Running, NEW c \in Conns, Between(c)
    PROVE  SessionInv'
  <1>1. PICK l \in {"receive", "close", "close_link", "ended"} :
           serve' = [serve EXCEPT ![c] = l] /\ (c \in resolved' => l # "ended")
    BY DEF Between, receive_fails, resolve_link, receive_stops, close_connection, SessionEnds
  <1>2. /\ UNCHANGED <<sessions, main, options, link, links, router>> /\ serve[c] # "none"
        /\ server' = server \/ server' = [server EXCEPT ![c] = "closed"]
        /\ resolved' \subseteq resolved \cup {c}
    BY DEF Between, receive_fails, resolve_link, receive_stops, close_connection, SessionEnds,
           mains, net
  <1>3. c \in resolved' => CleanUp(c)'
    BY <1>1, <1>2 DEF CleanUp, TypeOK
  <1>4. l \in Labels \ {"none"} /\ router.boot \notin router.fenced /\ FencesKept
    BY <1>2 DEF Labels, SessionInv, FencesKept
  <1> QED
    BY <1>1, <1>2, <1>3, <1>4, SessionMoved

\* Every step of the system keeps the invariant; the peers touch none of its variables.
LEMMA SessionStep ==
    ASSUME TypeOK, SessionInv, [Next]_vars
    PROVE  SessionInv'
  <1> DEFINE Kept == UNCHANGED <<mains, server, serve, link, links, resolved, router>>
  <1>1. ASSUME Kept PROVE SessionInv'
    BY <1>1 DEF mains, SessionInv, CleanUp, FencesFull, StopJoinsEverySession
  <1>2. CASE UNCHANGED vars
    BY <1>1, <1>2 DEF vars, net
  <1>3. ASSUME Next, NEW c \in Conns, session(c) PROVE SessionInv'
    <2>1. Running
      BY <1>3 DEF Next
    <2> QED
      BY <1>3, <2>1, BetweenInv, WorkerSessionInv, ClientSessionInv DEF session, Between
  <1>4. ASSUME NEW w \in Workers, worker_start(w) \/ worker_crash(w) PROVE SessionInv'
    BY <1>1, <1>4 DEF worker_start, worker_crash
  <1>5. ASSUME NEW w \in Workers, Worker(w) PROVE SessionInv'
    BY <1>1, <1>5 DEF Worker, worker_exchange, worker_serve, worker_disconnected
  <1>6. ASSUME NEW c \in Clients, client_request(c) \/ client_leave(c) PROVE SessionInv'
    BY <1>1, <1>6 DEF client_request, client_leave
  <1> QED
    BY <1>2, <1>3, <1>4, <1>5, <1>6, MainInv DEF Next

LEMMA InitSession == Init => SessionInv
  BY DEF Init, SessionInv, StopJoinsEverySession

\* The inductive invariant holds in every reachable state.
LEMMA SessionsHold == Spec => []SessionInv
  <1>1. TypeOK /\ SessionInv /\ [Next]_vars => SessionInv'
    BY SessionStep
  <1> QED
    BY <1>1, InitSession, TypeCorrect, PTL DEF Spec

\* stop() joins every session ever started: when it has gone through, no serve() thread is
\* between its start and its end, those accepted while it was under way included.
THEOREM StopJoinsAll == Spec => []StopJoinsEverySession
  <1>1. SessionInv => StopJoinsEverySession
    BY DEF SessionInv
  <1> QED
    BY <1>1, SessionsHold, PTL

\* The end of a session that found its link leaves its incarnation without an entry in
\* links_ and with a link that wakes the handoffs waiting on it, and fenced and unregistered
\* unless the router's table of fences is full; no later step of a newer incarnation or of
\* stop() undoes any of it.
THEOREM EndedSessionStaysFenced == Spec => []EndedSessionIsFenced
  <1>1. SessionInv => EndedSessionIsFenced
    BY DEF SessionInv, CleanUp, EndedSessionIsFenced
  <1> QED
    BY <1>1, SessionsHold, PTL

-----------------------------------------------------------------------------
(* Dispatch ids.                                                            *)

Ids(s) == {s[i] : i \in DOMAIN s}

\* The ids of the DISPATCH frames on their way to w and of what w executed are
\* distinct and were issued.
IdsOnce(w) ==
    /\ \A i \in DOMAIN executed[w] : executed[w][i] \in 1..(router.next - 1)
    /\ \A i, j \in DOMAIN executed[w] : executed[w][i] = executed[w][j] => i = j
    /\ \A i \in DOMAIN down[w] : down[w][i].type = "DISPATCH" =>
          down[w][i].arg \in 1..(router.next - 1) /\ down[w][i].arg \notin Ids(executed[w])
    /\ \A i, j \in DOMAIN down[w] :
          /\ down[w][i].type = "DISPATCH" /\ down[w][j].type = "DISPATCH"
          /\ down[w][i].arg = down[w][j].arg
          => i = j

\* A result, on its way or in the link, is about something w executed.
ResultsReal(w) ==
    /\ link[w].results \subseteq Ids(executed[w])
    /\ \A i \in DOMAIN up[w] : up[w][i].type = "DISPATCH_RESULT" => up[w][i].arg \in Ids(executed[w])

\* The call of client c: its id is issued when it is sent, to the link of its target.
CallSound(c) ==
    /\ call[c].id < router.next
    /\ call[c].id # 0 => call[c].target # 0
    /\ serve[c] \in {"handoff", "send"} => call[c].id = 0
    /\ InHandoff(c) => ~call[c].handed
    /\ serve[c] \in {"send", "wait"} => call[c].target # 0 /\ call[c].link = call[c].target
    /\ serve[c] = "wait" => call[c].id # 0
    /\ call[c].handed => call[c].id # 0 /\ call[c].id \in Ids(executed[call[c].target])

DispatchInv ==
    /\ \A w \in Workers : IdsOnce(w) /\ ResultsReal(w)
    /\ \A c \in Clients : CallSound(c)
    /\ \A c, d \in Clients : call[c].id = call[d].id /\ call[c].id # 0 => c = d

\* What is left of a queue: its frames of one type are frames it had, in the same order
\* and in the same places, or one place further on after one was taken.
Shifted(new, old, type) ==
    \E k \in {0, 1} : \A i \in DOMAIN new : new[i].type = type =>
        i + k \in DOMAIN old /\ new[i] = old[i + k]

LEMMA SeqShifts ==
    ASSUME NEW s \in Seq(Frames), NEW t
    PROVE  /\ Shifted(s, s, t) /\ Shifted(<<>>, s, t)
           /\ s # <<>> => Shifted(Tail(s), s, t)
           /\ \A f \in Frames : f.type # t => Shifted(Append(s, f), s, t)
           /\ \A n \in 0..Len(s) : Shifted(SubSeq(s, 1, n), s, t)
  <1>1. Len(s) \in Nat /\ DOMAIN s = 1..Len(s)
    BY LenProperties
  <1>2. Shifted(s, s, t)
    <2>1. \A i \in DOMAIN s : i + 0 \in DOMAIN s /\ s[i] = s[i + 0]
      BY <1>1
    <2> QED
      BY <2>1 DEF Shifted
  <1>3. Shifted(<<>>, s, t)
    BY DEF Shifted
  <1>4. ASSUME s # <<>> PROVE Shifted(Tail(s), s, t)
    <2>1. /\ Tail(s) \in Seq(Frames) /\ Len(Tail(s)) = Len(s) - 1
          /\ \A i \in 1..Len(Tail(s)) : Tail(s)[i] = s[i + 1]
      BY <1>4, HeadTailProperties
    <2>2. DOMAIN Tail(s) = 1..(Len(s) - 1)
      BY <2>1, LenProperties
    <2>3. \A i \in DOMAIN Tail(s) : i + 1 \in DOMAIN s /\ Tail(s)[i] = s[i + 1]
      BY <1>1, <2>1, <2>2
    <2> QED
      BY <2>3 DEF Shifted
  <1>5. ASSUME NEW f \in Frames, f.type # t PROVE Shifted(Append(s, f), s, t)
    <2>1. /\ DOMAIN Append(s, f) = 1..(Len(s) + 1)
          /\ \A i \in 1..Len(s) : Append(s, f)[i] = s[i]
          /\ Append(s, f)[Len(s) + 1] = f
      BY AppendProperties, LenProperties
    <2>2. \A i \in DOMAIN Append(s, f) : Append(s, f)[i].type = t =>
              i + 0 \in DOMAIN s /\ Append(s, f)[i] = s[i + 0]
      BY <1>1, <1>5, <2>1
    <2> QED
      BY <2>2 DEF Shifted
  <1>6. ASSUME NEW n \in 0..Len(s) PROVE Shifted(SubSeq(s, 1, n), s, t)
    <2>1. \A i \in 1..n : s[i] \in Frames
      BY <1>1, ElementOfSeq
    <2>2. /\ SubSeq(s, 1, n) \in Seq(Frames) /\ Len(SubSeq(s, 1, n)) = n
          /\ \A i \in 1..n : SubSeq(s, 1, n)[i] = s[i]
      BY <1>1, <2>1, SubSeqProperties
    <2>3. DOMAIN SubSeq(s, 1, n) = 1..n
      BY <2>2, LenProperties
    <2>4. \A i \in DOMAIN SubSeq(s, 1, n) : i + 0 \in DOMAIN s /\ SubSeq(s, 1, n)[i] = s[i + 0]
      BY <1>1, <2>2, <2>3
    <2> QED
      BY <2>4 DEF Shifted
  <1> QED
    BY <1>2, <1>3, <1>4, <1>5, <1>6

\* What the two ends do to the queues, except sending a DISPATCH or its result.
LEMMA QueuesShift ==
    ASSUME TypeOK, NEW c \in Conns, NEW w \in Conns
    PROVE  /\ down' = down => Shifted(down'[w], down[w], "DISPATCH")
           /\ up' = up => Shifted(up'[w], up[w], "DISPATCH_RESULT")
           /\ \A f \in Frames : f.type # "DISPATCH" /\ SendDown(c, f) =>
                 Shifted(down'[w], down[w], "DISPATCH")
           /\ \A f \in Frames : f.type # "DISPATCH_RESULT" /\ SendUp(c, f) =>
                 Shifted(up'[w], up[w], "DISPATCH_RESULT")
           /\ up[c] # <<>> /\ Consume(c) => Shifted(up'[w], up[w], "DISPATCH_RESULT")
           /\ down[c] # <<>> /\ down' = [down EXCEPT ![c] = Tail(@)] =>
                 Shifted(down'[w], down[w], "DISPATCH")
           /\ Leave(c) => /\ Shifted(down'[w], down[w], "DISPATCH")
                          /\ Shifted(up'[w], up[w], "DISPATCH_RESULT")
  <1>1. up \in [Conns -> Seq(Frames)] /\ down \in [Conns -> Seq(Frames)]
    BY DEF TypeOK
  <1>2. up[w] \in Seq(Frames) /\ down[w] \in Seq(Frames)
    BY <1>1
  <1>3. Shifted(down[w], down[w], "DISPATCH") /\ Shifted(up[w], up[w], "DISPATCH_RESULT")
    BY <1>2, SeqShifts
  <1>4. ASSUME NEW f \in Frames, f.type # "DISPATCH", SendDown(c, f)
        PROVE  Shifted(down'[w], down[w], "DISPATCH")
    <2>1. down'[w] = down[w] \/ down'[w] = Append(down[w], f)
      BY <1>1, <1>4 DEF SendDown
    <2> QED
      BY <1>2, <1>3, <1>4, <2>1, SeqShifts
  <1>5. ASSUME NEW f \in Frames, f.type # "DISPATCH_RESULT", SendUp(c, f)
        PROVE  Shifted(up'[w], up[w], "DISPATCH_RESULT")
    <2>1. up'[w] = up[w] \/ up'[w] = Append(up[w], f)
      BY <1>1, <1>5 DEF SendUp
    <2> QED
      BY <1>2, <1>3, <1>5, <2>1, SeqShifts
  <1>6. ASSUME up[c] # <<>>, Consume(c) PROVE Shifted(up'[w], up[w], "DISPATCH_RESULT")
    <2>1. up'[w] = up[w] \/ (up[w] # <<>> /\ up'[w] = Tail(up[w]))
      BY <1>1, <1>6 DEF Consume
    <2> QED
      BY <1>2, <1>3, <2>1, SeqShifts
  <1>7. ASSUME down[c] # <<>>, down' = [down EXCEPT ![c] = Tail(@)]
        PROVE  Shifted(down'[w], down[w], "DISPATCH")
    <2>1. down'[w] = down[w] \/ (down[w] # <<>> /\ down'[w] = Tail(down[w]))
      BY <1>1, <1>7
    <2> QED
      BY <1>2, <1>3, <2>1, SeqShifts
  <1>8. ASSUME Leave(c)
        PROVE  Shifted(down'[w], down[w], "DISPATCH") /\ Shifted(up'[w], up[w], "DISPATCH_RESULT")
    <2>1. PICK n \in 0..Len(up[c]) : up' = [up EXCEPT ![c] = SubSeq(up[c], 1, n)]
      BY <1>8 DEF Leave
    <2>2. up'[w] = up[w] \/ (n \in 0..Len(up[w]) /\ up'[w] = SubSeq(up[w], 1, n))
      BY <1>1, <2>1
    <2>3. Shifted(up'[w], up[w], "DISPATCH_RESULT")
      BY <1>2, <1>3, <2>2, SeqShifts
    <2>4. down'[w] = down[w] \/ down'[w] = <<>>
      BY <1>1, <1>8 DEF Leave
    <2> QED
      BY <1>2, <1>3, <2>3, <2>4, SeqShifts
  <1> QED
    BY <1>3, <1>4, <1>5, <1>6, <1>7, <1>8

\* A step that executes nothing and sends no DISPATCH to w keeps the ids of w distinct.
LEMMA IdsKept ==
    ASSUME TypeOK, NEW w \in Workers, IdsOnce(w), executed'[w] = executed[w],
           router'.next \in Nat, router.next <= router'.next,
           Shifted(down'[w], down[w], "DISPATCH"), down'[w] \in Seq(Frames)
    PROVE  IdsOnce(w)'
  <1>1. router.next \in Nat /\ \A n : n \in 1..(router.next - 1) => n \in 1..(router'.next - 1)
    BY DEF TypeOK, Registry
  <1>2. Ids(executed'[w]) = Ids(executed[w])
    OBVIOUS
  <1>3. PICK k \in {0, 1} : \A i \in DOMAIN down'[w] : down'[w][i].type = "DISPATCH" =>
            i + k \in DOMAIN down[w] /\ down'[w][i] = down[w][i + k]
    BY DEF Shifted
  <1>4. \A i \in DOMAIN down'[w] : i \in Nat
    BY LenProperties
  <1>5. ASSUME NEW i \in DOMAIN down'[w], down'[w][i].type = "DISPATCH"
        PROVE  down'[w][i].arg \in 1..(router'.next - 1) /\ down'[w][i].arg \notin Ids(executed[w])
    BY <1>1, <1>3, <1>5 DEF IdsOnce
  <1>6. ASSUME NEW i \in DOMAIN down'[w], NEW j \in DOMAIN down'[w],
               down'[w][i].type = "DISPATCH", down'[w][j].type = "DISPATCH",
               down'[w][i].arg = down'[w][j].arg
        PROVE  i = j
    <2>1. /\ i + k \in DOMAIN down[w] /\ down'[w][i] = down[w][i + k]
          /\ j + k \in DOMAIN down[w] /\ down'[w][j] = down[w][j + k]
      BY <1>3, <1>6
    <2>2. i + k = j + k
      BY <1>6, <2>1 DEF IdsOnce
    <2> QED
      BY <1>4, <2>2
  <1> QED
    BY <1>1, <1>2, <1>5, <1>6 DEF IdsOnce

\* A result stays about something executed while w only executes more.
LEMMA ResultsKept ==
    ASSUME NEW w \in Workers, ResultsReal(w), Ids(executed[w]) \subseteq Ids(executed'[w]),
           link'[w].results \subseteq Ids(executed[w]),
           Shifted(up'[w], up[w], "DISPATCH_RESULT")
    PROVE  ResultsReal(w)'
  <1>1. PICK k \in {0, 1} : \A i \in DOMAIN up'[w] : up'[w][i].type = "DISPATCH_RESULT" =>
            i + k \in DOMAIN up[w] /\ up'[w][i] = up[w][i + k]
    BY DEF Shifted
  <1>2. ASSUME NEW i \in DOMAIN up'[w], up'[w][i].type = "DISPATCH_RESULT"
        PROVE  up'[w][i].arg \in Ids(executed[w])
    BY <1>1, <1>2 DEF ResultsReal
  <1> QED
    BY <1>2 DEF ResultsReal


\* The call of a client, while nothing happens to it, is as sound as before.
LEMMA CallKept ==
    ASSUME TypeOK, NEW c \in Clients, CallSound(c), call'[c] = call[c],
           router'.next \in Nat, router.next <= router'.next,
           \/ serve'[c] = serve[c]
           \/ serve'[c] \notin {"handoff", "send", "wait"},
           \A w \in Workers : Ids(executed[w]) \subseteq Ids(executed'[w])
    PROVE  CallSound(c)'
  <1>1. call[c] \in Handoffs /\ router.next \in Nat
    BY DEF TypeOK, Registry
  <1>2. call'[c].id < router'.next
    BY <1>1 DEF CallSound, Handoffs
  <1>3. call[c].handed => call[c].target \in Workers
    BY <1>1 DEF CallSound, Handoffs
  <1>4. call'[c].handed => call'[c].id # 0 /\ call'[c].id \in Ids(executed'[call'[c].target])
    BY <1>3 DEF CallSound
  <1>5. /\ serve'[c] \in {"handoff", "send"} => call'[c].id = 0
        /\ serve'[c] \in {"handoff", "send", "wait"} => ~call'[c].handed
        /\ serve'[c] \in {"send", "wait"} => call'[c].target # 0 /\ call'[c].link = call'[c].target
        /\ serve'[c] = "wait" => call'[c].id # 0
        /\ call'[c].id # 0 => call'[c].target # 0
    BY DEF CallSound, InHandoff
  <1> QED
    BY <1>2, <1>4, <1>5 DEF CallSound, InHandoff

\* A step that has nothing to do with a dispatch.
Quiet ==
    /\ UNCHANGED <<call, executed>>
    /\ router'.next = router.next
    /\ \A c \in Clients : \/ serve'[c] = serve[c]
                          \/ ~InHandoff(c) /\ serve'[c] \notin {"handoff", "send", "wait"}
    /\ \A w \in Workers : /\ Shifted(down'[w], down[w], "DISPATCH")
                          /\ Shifted(up'[w], up[w], "DISPATCH_RESULT")
                          /\ link'[w].results \subseteq Ids(executed[w])

\* Such a step keeps the invariant, and the dispatch handler sees nothing of it.
LEMMA QuietKeeps ==
    ASSUME TypeOK, TypeOK', DispatchInv, Quiet
    PROVE  DispatchInv' /\ UNCHANGED Handler!vars
  <1>1. /\ router.next \in Nat /\ router'.next \in Nat /\ router.next <= router'.next
        /\ \A w \in Workers : down'[w] \in Seq(Frames)
    <2>1. router \in Registry /\ router' \in Registry /\ router'.next = router.next
      BY DEF TypeOK, Quiet
    <2>2. down' \in [Conns -> Seq(Frames)]
      BY DEF TypeOK
    <2> QED
      BY <2>1, <2>2 DEF Registry, Conns
  <1>2. \A w \in Workers : Ids(executed'[w]) = Ids(executed[w])
    BY DEF Quiet
  <1>3. ASSUME NEW w \in Workers PROVE IdsOnce(w)'
    <2>1. IdsOnce(w) /\ executed'[w] = executed[w] /\ Shifted(down'[w], down[w], "DISPATCH")
      BY DEF DispatchInv, Quiet
    <2> QED
      BY <1>1, <2>1, IdsKept
  <1>4. ASSUME NEW w \in Workers PROVE ResultsReal(w)'
    BY <1>2, ResultsKept DEF DispatchInv, Quiet
  <1>5. ASSUME NEW c \in Clients PROVE CallSound(c)'
    <2>1. CallSound(c) /\ call'[c] = call[c]
      BY DEF DispatchInv, Quiet
    <2>2. serve'[c] = serve[c] \/ serve'[c] \notin {"handoff", "send", "wait"}
      BY DEF Quiet
    <2>3. \A w \in Workers : Ids(executed[w]) \subseteq Ids(executed'[w])
      BY <1>2
    <2> QED
      BY <1>1, <2>1, <2>2, <2>3, CallKept
  <1>6. DispatchInv'
    BY <1>3, <1>4, <1>5 DEF DispatchInv, Quiet
  <1>7. \A c \in Clients : InHandoff(c)' = InHandoff(c)
    BY DEF Quiet, InHandoff
  <1>8. \A c \in Clients : Ran(c)' = Ran(c)
    BY DEF Quiet, Ran
  <1>9. UNCHANGED Handler!vars
    <2>1. [c \in Clients |-> InHandoff(c)]' = [c \in Clients |-> InHandoff(c)]
      BY <1>7
    <2>2. [c \in Clients |-> Ran(c)]' = [c \in Clients |-> Ran(c)]
      BY <1>8
    <2>3. /\ [c \in Clients |-> call[c].target]' = [c \in Clients |-> call[c].target]
          /\ [c \in Clients |-> call[c].handed]' = [c \in Clients |-> call[c].handed]
      BY DEF Quiet
    <2> QED
      BY <2>1, <2>2, <2>3 DEF Handler!vars
  <1> QED
    BY <1>6, <1>9

\* The results of a link that is left alone, and of one that gets the result w reports.
LEMMA ResultStored ==
    ASSUME TypeOK, DispatchInv, NEW w \in Workers
    PROVE  /\ link[w].results \subseteq Ids(executed[w])
           /\ \A v \in Workers : handle_dispatch_result(v) => link'[w].results \subseteq Ids(executed[w])
  <1>1. link[w].results \subseteq Ids(executed[w])
    BY DEF DispatchInv, ResultsReal
  <1>2. ASSUME NEW v \in Workers, handle_dispatch_result(v)
        PROVE  link'[w].results \subseteq Ids(executed[w])
    <2>1. up[v] \in Seq(Frames) /\ up[v] # <<>> /\ Head(up[v]).type = "DISPATCH_RESULT"
      BY <1>2 DEF handle_dispatch_result, HasFrame, TypeOK, Conns
    <2>2. 1 \in DOMAIN up[v] /\ up[v][1] = Head(up[v])
      BY <2>1, HeadTailProperties, LenProperties, EmptySeq
    <2>3. Head(up[v]).arg \in Ids(executed[v])
      BY <2>1, <2>2 DEF DispatchInv, ResultsReal
    <2>4. link' = link \/ link' = [link EXCEPT ![v].results = @ \cup {Head(up[v]).arg}]
      BY <1>2 DEF handle_dispatch_result
    <2>5. link \in [Workers -> Links]
      BY DEF TypeOK
    <2>6. link'[w].results = link[w].results \/ (w = v /\ link'[w].results = link[w].results \cup {Head(up[v]).arg})
      BY <2>4, <2>5 DEF Links
    <2> QED
      BY <1>1, <2>3, <2>6
  <1> QED
    BY <1>1, <1>2


\* A fence draws no id.
LEMMA FencedNext == ASSUME router \in Registry, NEW w PROVE Fenced(router, w).next = router.next
  BY DEF Fenced, Registry

\* The steps that have nothing to do with a dispatch: the threads of the coordinator that
\* accept, stop and talk to a worker, ...
LEMMA MainQuiet ==
    ASSUME TypeOK, SessionInv, DispatchInv, Accept \/ stop_begin \/ Stop
    PROVE  Quiet
  <1>1. \A w \in Workers : /\ Shifted(down[w], down[w], "DISPATCH")
                           /\ Shifted(up[w], up[w], "DISPATCH_RESULT")
    BY SeqShifts DEF TypeOK, Conns
  <1>2. UNCHANGED <<call, executed, router, up, down>>
    BY DEF Accept, accept_loop, accept_refused, stop_begin, Stop, stop_links, stop_close,
           stop_end, net
  <1>3. \A w \in Workers : link'[w].results \subseteq Ids(executed[w])
    <2>1. \A w \in Workers : link'[w].results = link[w].results
      <3>1. ASSUME NEW v, LinkClosed(v) PROVE \A w \in Workers : link'[w].results = link[w].results
        BY <3>1 DEF LinkClosed, TypeOK, Links
      <3>2. CASE stop_links \/ stop_close
        BY <3>1, <3>2 DEF stop_links, stop_close
      <3>3. CASE ~(stop_links \/ stop_close)
        BY <3>3 DEF Accept, accept_loop, accept_refused, stop_begin, Stop, stop_end
      <3> QED
        BY <3>2, <3>3
    <2> QED
      BY <2>1, ResultStored
  <1>4. \A c \in Clients : \/ serve'[c] = serve[c]
                           \/ ~InHandoff(c) /\ serve'[c] \notin {"handoff", "send", "wait"}
    <2>1. CASE accept_loop
      <3>1. PICK d \in Conns : server[d] = "none" /\
                 (serve' = serve \/ serve' = [serve EXCEPT ![d] = "receive"])
        BY <2>1 DEF accept_loop
      <3>2. serve[d] = "none"
        BY <3>1 DEF SessionInv
      <3> QED
        BY <3>1, <3>2 DEF TypeOK, InHandoff, Conns
    <2>2. CASE ~accept_loop
      BY <2>2 DEF Accept, accept_refused, stop_begin, Stop, stop_links, stop_close, stop_end
    <2> QED
      BY <2>1, <2>2
  <1> QED
    BY <1>1, <1>2, <1>3, <1>4 DEF Quiet

\* ... the session of a worker, ...
LEMMA WorkerSessionQuiet ==
    ASSUME TypeOK, DispatchInv, NEW v \in Workers,
           \/ handle_register(v) \/ insert_link(v) \/ acknowledge(v)
           \/ handle_publication(v) \/ handle_dispatch_result(v)
           \/ close_link(v) \/ erase_link(v) \/ fence_session(v)
    PROVE  Quiet
  <1>1. /\ v \in Conns /\ v \notin Clients /\ router \in Registry /\ link \in [Workers -> Links]
        /\ serve \in [Conns -> Labels] /\ \A w \in Workers : w \in Conns
    BY ClientsAssumption DEF Conns, TypeOK
  <1>2. \A n \in Nat : /\ Frame("BACKEND_REGISTER_ACK", n) \in Frames
                       /\ Frame("BACKEND_REGISTER_ACK", n).type # "DISPATCH"
                       /\ Frame("STATUS", n) \in Frames
                       /\ Frame("STATUS", n).type # "DISPATCH"
    BY FrameType DEF FrameTypes, Frame
  <1> DEFINE Downs == \A w \in Workers : Shifted(down'[w], down[w], "DISPATCH")
             Ups == \A w \in Workers : Shifted(up'[w], up[w], "DISPATCH_RESULT")
             Results == \A w \in Workers : link'[w].results \subseteq Ids(executed[w])
             Serves == \A c \in Clients : serve'[c] = serve[c]
  <1>3. ASSUME Downs, Ups, Results, Serves, UNCHANGED <<call, executed>>, router'.next = router.next
        PROVE  Quiet
    BY <1>3 DEF Quiet
  <1>4. (UNCHANGED down => Downs) /\ (UNCHANGED up => Ups) /\ (UNCHANGED link => Results)
    BY <1>1, QueuesShift, ResultStored
  <1>5. ASSUME NEW f \in Frames, f.type # "DISPATCH", Reply(v, f) PROVE Downs /\ Serves
    <2>1. Downs
      <3>1. SendDown(v, f) => Downs
        BY <1>1, <1>5, QueuesShift
      <3> HIDE DEF Downs
      <3> QED
        BY <1>4, <1>5, <3>1 DEF Reply
    <2>2. Serves
      <3>1. PICK l : serve' = [serve EXCEPT ![v] = l]
        BY <1>1, <1>5, ReplyMoves
      <3> QED
        BY <1>1, <3>1
    <2> QED
      BY <2>1, <2>2
  <1>6. ASSUME up[v] # <<>>, Consume(v) PROVE Ups
    BY <1>1, <1>6, QueuesShift
  <1>7. ASSUME NEW l, serve' = [serve EXCEPT ![v] = l] PROVE Serves
    BY <1>1, <1>7
  <1> HIDE DEF Downs, Ups, Results, Serves
  <1>8. CASE handle_register(v)
    <2>1. Ups /\ Results /\ UNCHANGED <<call, executed>>
      BY <1>4, <1>6, <1>8 DEF handle_register, HasFrame
    <2>2. router'.next = router.next
      BY <1>1, <1>8 DEF handle_register, Registry
    <2>3. Downs /\ Serves
      <3>1. CASE register_backend(v)
        BY <1>4, <1>7, <1>8, <3>1 DEF handle_register
      <3>2. CASE ~register_backend(v)
        BY <1>2, <1>5, <1>8, <3>2 DEF handle_register
      <3> QED
        BY <3>1, <3>2
    <2> QED
      BY <1>3, <2>1, <2>2, <2>3
  <1>9. CASE insert_link(v)
    BY <1>3, <1>4, <1>7, <1>9 DEF insert_link, net
  <1>10. CASE acknowledge(v)
    <2>1. Ups /\ Results /\ UNCHANGED <<call, executed, router>>
      BY <1>4, <1>10 DEF acknowledge
    <2>2. Serves
      BY <1>7, <1>10 DEF acknowledge, SessionEnds
    <2>3. Downs
      <3>1. Frame("BACKEND_REGISTER_ACK", 1) \in Frames /\ Frame("BACKEND_REGISTER_ACK", 1).type # "DISPATCH"
        BY <1>2
      <3>2. SendDown(v, Frame("BACKEND_REGISTER_ACK", 1)) => Downs
        BY <1>1, <3>1, QueuesShift DEF Downs
      <3> QED
        BY <1>4, <1>10, <3>2 DEF acknowledge
    <2> QED
      BY <1>3, <2>1, <2>2, <2>3
  <1>12. CASE handle_publication(v)
    <2>1. Ups /\ Results /\ UNCHANGED <<call, executed, router>>
      BY <1>4, <1>6, <1>12 DEF handle_publication, HasFrame
    <2>2. Downs /\ Serves
      BY <1>2, <1>5, <1>12 DEF handle_publication
    <2> QED
      BY <1>3, <2>1, <2>2
  <1>13. CASE handle_dispatch_result(v)
    <2>1. Ups /\ Downs /\ UNCHANGED <<call, executed, router>>
      BY <1>4, <1>6, <1>13 DEF handle_dispatch_result, HasFrame
    <2>2. Results
      BY <1>13, ResultStored DEF Results
    <2>3. Serves
      BY <1>7, <1>13 DEF handle_dispatch_result
    <2> QED
      BY <1>3, <2>1, <2>2, <2>3
  <1>14. CASE close_link(v)
    <2>1. \A w \in Workers : link'[w].results = link[w].results
      BY <1>1, <1>14 DEF close_link, Links
    <2>2. Results
      BY <2>1, ResultStored DEF Results
    <2> QED
      BY <1>3, <1>4, <1>7, <1>14, <2>2 DEF close_link, net
  <1>15. CASE erase_link(v)
    BY <1>3, <1>4, <1>7, <1>15 DEF erase_link, net
  <1>16. CASE fence_session(v)
    <2>1. router'.next = router.next
      BY <1>1, <1>16, FencedNext DEF fence_session
    <2> QED
      BY <1>3, <1>4, <1>7, <1>16, <2>1 DEF fence_session, net
  <1> QED
    BY <1>8, <1>9, <1>10, <1>12, <1>13, <1>14, <1>15, <1>16

\* ... and the peers, except a worker that executes.
LEMMA PeerQuiet ==
    ASSUME TypeOK, DispatchInv,
           \/ \E w \in Workers : worker_start(w) \/ worker_exchange(w)
                                 \/ worker_disconnected(w) \/ worker_crash(w)
           \/ \E c \in Clients : client_request(c) \/ client_leave(c)
    PROVE  Quiet
  <1> DEFINE Downs == \A w \in Workers : Shifted(down'[w], down[w], "DISPATCH")
             Ups == \A w \in Workers : Shifted(up'[w], up[w], "DISPATCH_RESULT")
  <1>1. UNCHANGED <<call, executed, router, serve, link>>
    <2>1. ASSUME NEW w \in Workers, worker_start(w) \/ worker_crash(w)
          PROVE  UNCHANGED <<call, executed, router, serve, link>>
      BY <2>1 DEF worker_start, worker_crash
    <2>2. ASSUME NEW w \in Workers, worker_exchange(w) \/ worker_disconnected(w)
          PROVE  UNCHANGED <<call, executed, router, serve, link>>
      BY <2>2 DEF worker_exchange, worker_disconnected
    <2>3. ASSUME NEW c \in Clients, client_request(c) \/ client_leave(c)
          PROVE  UNCHANGED <<call, executed, router, serve, link>>
      BY <2>3 DEF client_request, client_leave
    <2> QED
      BY <2>1, <2>2, <2>3
  <1>2. ASSUME Downs, Ups PROVE Quiet
    BY <1>1, <1>2, ResultStored DEF Quiet
  <1>3. \A w \in Workers : w \in Conns
    BY DEF Conns
  <1>4. (UNCHANGED down => Downs) /\ (UNCHANGED up => Ups)
    BY <1>3, QueuesShift
  <1>5. ASSUME NEW c \in Conns, Leave(c) PROVE Downs /\ Ups
    BY <1>3, <1>5, QueuesShift
  <1>6. ASSUME NEW c \in Conns,
               NEW t \in {"BACKEND_REGISTER", "PUBLISH", "ROUTE_REQUEST", "DISPATCH",
                          "FENCE_BACKEND", "SHUTDOWN"},
               SendUp(c, Frame(t, 0))
        PROVE  Ups
    <2>1. Frame(t, 0) \in Frames /\ Frame(t, 0).type # "DISPATCH_RESULT"
      BY FrameType DEF FrameTypes, Frame
    <2> QED
      BY <1>3, <1>6, <2>1, QueuesShift
  <1>7. ASSUME NEW c \in Conns, down[c] # <<>>, down' = [down EXCEPT ![c] = Tail(@)] PROVE Downs
    BY <1>3, <1>7, QueuesShift
  <1> HIDE DEF Downs, Ups
  <1>8. ASSUME NEW w \in Workers, worker_start(w) PROVE Quiet
    BY <1>2, <1>3, <1>4, <1>6, <1>8 DEF worker_start
  <1>9. ASSUME NEW w \in Workers, worker_exchange(w) PROVE Quiet
    <2>1. Return(w) => Downs /\ Ups
      BY <1>3, <1>4, <1>5 DEF Return, Exit
    <2>2. down[w] # <<>> /\ (down' = [down EXCEPT ![w] = Tail(@)] => Downs)
      BY <1>3, <1>7, <1>9 DEF worker_exchange
    <2>3. SendUp(w, Frame("PUBLISH", 0)) => Ups
      BY <1>3, <1>6
    <2> QED
      BY <1>2, <1>4, <1>9, <2>1, <2>2, <2>3 DEF worker_exchange
  <1>10. ASSUME NEW w \in Workers, worker_disconnected(w) \/ worker_crash(w) PROVE Quiet
    BY <1>2, <1>3, <1>5, <1>10 DEF worker_disconnected, worker_crash, Exit
  <1>11. ASSUME NEW c \in Clients, client_request(c) PROVE Quiet
    <2>1. PICK t \in {"ROUTE_REQUEST", "DISPATCH", "FENCE_BACKEND", "SHUTDOWN"} : SendUp(c, Frame(t, 0))
      BY <1>11 DEF client_request
    <2>2. Ups
      BY <1>6, <2>1 DEF Conns
    <2> QED
      BY <1>2, <1>4, <1>11, <2>2 DEF client_request
  <1>12. ASSUME NEW c \in Clients, client_leave(c) PROVE Quiet
    BY <1>2, <1>5, <1>12 DEF client_leave, Conns
  <1> QED
    BY <1>8, <1>9, <1>10, <1>11, <1>12


\* What the reply of a control session changes: nothing that goes to a worker, and the
\* session is outside handoff() afterwards.
LEMMA ClientReply ==
    ASSUME TypeOK, NEW c \in Clients, NEW f, Reply(c, f)
    PROVE  /\ serve'[c] \notin {"handoff", "send", "wait"}
           /\ \A d \in Clients \ {c} : serve'[d] = serve[d]
           /\ UNCHANGED down
  <1>1. c \in Conns /\ c \notin Workers /\ serve \in [Conns -> Labels] /\ Clients \subseteq Conns
    BY ClientsAssumption DEF Conns, TypeOK
  <1>2. PICK l \in {"receive", "resolve_link", "close_link", "ended"} : serve' = [serve EXCEPT ![c] = l]
    BY <1>1, ReplyMoves
  <1>3. UNCHANGED down
    BY <1>1 DEF Reply, SendDown
  <1> QED
    BY <1>1, <1>2, <1>3

\* Where router_->dispatch() refuses a decision no handoff is started.
Accepted(c) == router.decision[c] # 0 /\ router.decision[c] = router.boot

\* The other requests of a control client and the end of any session.
LEMMA ClientQuiet ==
    ASSUME TypeOK, DispatchInv,
           \/ \E c \in Clients : \/ handle_route_request(c) \/ admin_fence_backend(c)
                                 \/ admin_shutdown(c) \/ (admin_dispatch(c) /\ ~Accepted(c))
           \/ \E c \in Conns : Between(c)
    PROVE  Quiet
  <1>1. router \in Registry /\ serve \in [Conns -> Labels] /\ Clients \subseteq Conns /\ Workers \subseteq Conns
    BY DEF TypeOK, Conns
  <1>2. \A w \in Workers : UNCHANGED down => Shifted(down'[w], down[w], "DISPATCH")
    BY <1>1, QueuesShift
  <1>3. ASSUME NEW c \in Clients, serve[c] = "receive", up[c] # <<>>, Consume(c),
               Reply(c, Frame("RESPONSE", 0)),
               UNCHANGED <<call, executed, link>>, router'.next = router.next
        PROVE  Quiet
    <2>1. \A w \in Workers : Shifted(up'[w], up[w], "DISPATCH_RESULT")
      BY <1>1, <1>3, QueuesShift
    <2>2. ~InHandoff(c)
      BY <1>3 DEF InHandoff
    <2>3. /\ serve'[c] \notin {"handoff", "send", "wait"} /\ UNCHANGED down
          /\ \A d \in Clients \ {c} : serve'[d] = serve[d]
      BY <1>3, ClientReply
    <2> QED
      BY <1>2, <1>3, <2>1, <2>2, <2>3, ResultStored DEF Quiet
  <1>4. ASSUME NEW c \in Clients, handle_route_request(c) PROVE Quiet
    <2>1. router'.next = router.next
      BY <1>1, <1>4 DEF handle_route_request, Registry
    <2> QED
      BY <1>3, <1>4, <2>1 DEF handle_route_request, HasFrame
  <1>5. ASSUME NEW c \in Clients, admin_fence_backend(c) PROVE Quiet
    <2>1. router'.next = router.next
      BY <1>1, <1>5, FencedNext DEF admin_fence_backend, Registry
    <2> QED
      BY <1>3, <1>5, <2>1 DEF admin_fence_backend, HasFrame
  <1>6. ASSUME NEW c \in Clients, admin_shutdown(c) PROVE Quiet
    BY <1>3, <1>6 DEF admin_shutdown, HasFrame
  <1>7. ASSUME NEW c \in Clients, admin_dispatch(c), ~Accepted(c) PROVE Quiet
    BY <1>3, <1>7 DEF admin_dispatch, HasFrame, Accepted
  <1>8. ASSUME NEW c \in Conns, Between(c) PROVE Quiet
    <2>1. PICK l \in {"receive", "close", "close_link", "ended"} : serve' = [serve EXCEPT ![c] = l]
      BY <1>8 DEF Between, receive_fails, resolve_link, receive_stops, close_connection, SessionEnds
    <2>2. /\ UNCHANGED <<call, executed, router, link, up, down>>
          /\ serve[c] \in {"receive", "resolve_link", "close"}
      BY <1>8 DEF Between, receive_fails, resolve_link, receive_stops, close_connection, net
    <2>3. \A w \in Workers : Shifted(up'[w], up[w], "DISPATCH_RESULT")
      BY <1>1, <2>2, QueuesShift
    <2>4. \A d \in Clients : \/ serve'[d] = serve[d]
                             \/ ~InHandoff(d) /\ serve'[d] \notin {"handoff", "send", "wait"}
      BY <1>1, <2>1, <2>2 DEF InHandoff
    <2> QED
      BY <1>2, <2>2, <2>3, <2>4, ResultStored DEF Quiet
  <1> QED
    BY <1>4, <1>5, <1>6, <1>7, <1>8

-----------------------------------------------------------------------------
(* The steps of a dispatch.                                                 *)

\* In a sequence without repetition an element occurs once or not at all.
LEMMA Occurrences ==
    ASSUME NEW s \in Seq(Nat), NEW x, \A i, j \in DOMAIN s : s[i] = s[j] => i = j
    PROVE  Cardinality({i \in DOMAIN s : s[i] = x}) = IF x \in Ids(s) THEN 1 ELSE 0
  <1>1. CASE x \in Ids(s)
    <2>1. PICK k \in DOMAIN s : s[k] = x
      BY <1>1 DEF Ids
    <2>2. {i \in DOMAIN s : s[i] = x} = {k}
      BY <2>1
    <2> QED
      BY <1>1, <2>2, FS_Singleton
  <1>2. CASE x \notin Ids(s)
    <2>1. {i \in DOMAIN s : s[i] = x} = {}
      BY <1>2 DEF Ids
    <2> QED
      BY <1>2, <2>1, FS_EmptySet
  <1> QED
    BY <1>1, <1>2

\* How often the target of a call ran it.
LEMMA RanValue ==
    ASSUME TypeOK, DispatchInv, NEW c \in Clients
    PROVE  Ran(c) = IF call[c].id # 0 /\ call[c].id \in Ids(executed[call[c].target]) THEN 1 ELSE 0
  <1>1. CASE call[c].id = 0
    BY <1>1 DEF Ran
  <1>2. CASE call[c].id # 0
    <2>1. call[c].target \in Workers
      BY <1>2 DEF DispatchInv, CallSound, TypeOK, Handoffs
    <2>2. executed[call[c].target] \in Seq(Nat)
      BY <2>1 DEF TypeOK
    <2>3. \A i, j \in DOMAIN executed[call[c].target] :
              executed[call[c].target][i] = executed[call[c].target][j] => i = j
      BY <2>1 DEF DispatchInv, IdsOnce
    <2> QED
      BY <1>2, <2>2, <2>3, Occurrences DEF Ran
  <1> QED
    BY <1>1, <1>2

RanKnown ==
    \A c \in Clients :
        Ran(c) = IF call[c].id # 0 /\ call[c].id \in Ids(executed[call[c].target]) THEN 1 ELSE 0

\* The same after a step.
LEMMA RanKnownNext == TypeOK' /\ DispatchInv' => RanKnown'
  <1>1. TypeOK /\ DispatchInv => RanKnown
    BY RanValue DEF RanKnown
  <1> QED
    BY <1>1, PTL

\* A step in the call of one client.
LEMMA OneCall ==
    ASSUME TypeOK, TypeOK', DispatchInv, NEW c \in Clients,
           \A d \in Clients \ {c} : call'[d] = call[d] /\ serve'[d] = serve[d],
           call'[c].id \in {0, call[c].id, router.next}, CallSound(c)',
           UNCHANGED executed, router.next <= router'.next,
           \A w \in Workers : IdsOnce(w)' /\ ResultsReal(w)'
    PROVE  DispatchInv'
  <1>1. router.next \in Nat /\ router'.next \in Nat /\ call \in [Clients -> Handoffs]
    <2>1. router \in Registry /\ router' \in Registry /\ call \in [Clients -> Handoffs]
      BY DEF TypeOK
    <2> QED
      BY <2>1 DEF Registry
  <1>2. \A d \in Clients : CallSound(d)
    BY DEF DispatchInv
  <1>3. ASSUME NEW d \in Clients PROVE CallSound(d)'
    <2>1. CASE d # c
      <3>1. call'[d] = call[d] /\ serve'[d] = serve[d]
        BY <2>1
      <3> QED
        BY <1>1, <1>2, <3>1, CallKept
    <2> QED
      BY <2>1
  <1>4. ASSUME NEW d \in Clients, call[d].id = router.next PROVE FALSE
    BY <1>1, <1>2, <1>4 DEF CallSound, Handoffs
  <1>5. \A d, e \in Clients : call'[d].id = call'[e].id /\ call'[d].id # 0 => d = e
    <2>1. \A d, e \in Clients : call[d].id = call[e].id /\ call[d].id # 0 => d = e
      BY DEF DispatchInv
    <2>2. \A d \in Clients \ {c} : call'[d].id = call[d].id /\ call[d].id # router.next
      BY <1>4
    <2>3. ASSUME NEW d \in Clients, NEW e \in Clients, call'[d].id = call'[e].id, call'[d].id # 0
          PROVE  d = e
      BY <2>1, <2>2, <2>3
    <2> QED
      BY <2>3
  <1> QED
    BY <1>3, <1>5 DEF DispatchInv


\* router_->dispatch() calls handoff() for the incarnation the decision is bound to.
LEMMA CallStep ==
    ASSUME TypeOK, TypeOK', DispatchInv, NEW c \in Clients, admin_dispatch(c), Accepted(c)
    PROVE  DispatchInv' /\ Handler!Next
  <1>1. /\ c \in Conns /\ call \in [Clients -> Handoffs] /\ serve \in [Conns -> Labels]
        /\ Clients \subseteq Conns /\ Workers \subseteq Conns /\ router \in Registry
    BY DEF TypeOK, Conns
  <1>2. PICK b \in Workers : b = router.decision[c]
    BY <1>1 DEF Accepted, Registry
  <1>3. /\ call' = [call EXCEPT ![c] = [NoCall EXCEPT !.target = b]]
        /\ serve' = [serve EXCEPT ![c] = "handoff"]
        /\ UNCHANGED <<down, router, executed, link>>
        /\ serve[c] = "receive" /\ up[c] # <<>> /\ Consume(c)
    BY <1>2 DEF admin_dispatch, HasFrame, Accepted
  <1>4. /\ call'[c].target = b /\ call'[c].id = 0 /\ call'[c].handed = FALSE
        /\ \A d \in Clients \ {c} : call'[d] = call[d] /\ serve'[d] = serve[d]
        /\ serve'[c] = "handoff"
    BY <1>1, <1>3 DEF NoCall
  <1>5. router.next \in Nat /\ router.next > 0
    BY <1>1 DEF Registry
  <1>6. ASSUME NEW w \in Workers PROVE IdsOnce(w)' /\ ResultsReal(w)'
    <2>1. Shifted(down'[w], down[w], "DISPATCH") /\ Shifted(up'[w], up[w], "DISPATCH_RESULT")
      BY <1>1, <1>3, QueuesShift
    <2>2. down'[w] \in Seq(Frames)
      BY <1>1, <1>3 DEF TypeOK
    <2>3. IdsOnce(w) /\ ResultsReal(w) /\ link'[w].results \subseteq Ids(executed[w])
      BY <1>3, ResultStored DEF DispatchInv
    <2>4. IdsOnce(w)'
      BY <1>3, <1>5, <2>1, <2>2, <2>3, IdsKept
    <2>5. ResultsReal(w)'
      BY <1>3, <2>1, <2>3, ResultsKept
    <2> QED
      BY <2>4, <2>5
  <1>7. CallSound(c)'
    BY <1>3, <1>4, <1>5 DEF CallSound, InHandoff
  <1>8. DispatchInv'
    BY <1>3, <1>4, <1>5, <1>6, <1>7, OneCall
  <1>9. Handler!Call(c, b)
    <2>1. ~InHandoff(c)
      BY <1>3 DEF InHandoff
    <2>2. [d \in Clients |-> InHandoff(d)]' = [[d \in Clients |-> InHandoff(d)] EXCEPT ![c] = TRUE]
      BY <1>4 DEF InHandoff
    <2>3. [d \in Clients |-> call[d].target]' = [[d \in Clients |-> call[d].target] EXCEPT ![c] = b]
      BY <1>4
    <2>4. [d \in Clients |-> call[d].handed]' = [[d \in Clients |-> call[d].handed] EXCEPT ![c] = FALSE]
      BY <1>4
    <2>5. [d \in Clients |-> Ran(d)]' = [[d \in Clients |-> Ran(d)] EXCEPT ![c] = 0]
      <3>1. Ran(c)' = 0
        BY <1>4 DEF Ran
      <3>2. \A d \in Clients \ {c} : Ran(d)' = Ran(d)
        BY <1>3, <1>4 DEF Ran
      <3> QED
        BY <3>1, <3>2
    <2> QED
      BY <2>1, <2>2, <2>3, <2>4, <2>5 DEF Handler!Call
  <1> QED
    BY <1>2, <1>8, <1>9 DEF Handler!Next

\* handoff() returns: with the result only if the target executed the call.
LEMMA ReturnStep ==
    ASSUME TypeOK, TypeOK', DispatchInv, NEW c \in Clients, NEW ok \in BOOLEAN,
           InHandoff(c), HandoffReturns(c, ok), ok => Ran(c) = 1,
           UNCHANGED <<up, executed>>, router'.next \in {router.next, router.next + 1},
           \A w \in Workers : link'[w].results \subseteq Ids(executed[w])
    PROVE  DispatchInv' /\ Handler!Next
  <1>1. /\ c \in Conns /\ call \in [Clients -> Handoffs] /\ call[c] \in Handoffs
        /\ Workers \subseteq Conns /\ router \in Registry
    BY DEF TypeOK, Conns
  <1>2. call' = [call EXCEPT ![c].handed = ok] /\ Reply(c, Frame("RESPONSE", 0))
    BY DEF HandoffReturns
  <1>3. /\ serve'[c] \notin {"handoff", "send", "wait"} /\ UNCHANGED down
        /\ \A d \in Clients \ {c} : serve'[d] = serve[d]
    BY <1>2, ClientReply
  <1>4. /\ call'[c].target = call[c].target /\ call'[c].id = call[c].id /\ call'[c].handed = ok
        /\ \A d \in Clients \ {c} : call'[d] = call[d]
    BY <1>1, <1>2 DEF Handoffs
  <1>5. router.next \in Nat /\ router'.next \in Nat /\ router.next <= router'.next
    BY <1>1 DEF Registry
  <1>6. ASSUME NEW w \in Workers PROVE IdsOnce(w)' /\ ResultsReal(w)'
    <2>1. Shifted(down'[w], down[w], "DISPATCH") /\ Shifted(up'[w], up[w], "DISPATCH_RESULT")
      BY <1>1, <1>3, QueuesShift
    <2>2. down'[w] \in Seq(Frames)
      BY <1>1, <1>3 DEF TypeOK
    <2>3. IdsOnce(w) /\ ResultsReal(w)
      BY DEF DispatchInv
    <2>4. IdsOnce(w)'
      BY <1>5, <2>1, <2>2, <2>3, IdsKept
    <2>5. ResultsReal(w)'
      BY <2>1, <2>3, ResultsKept
    <2> QED
      BY <2>4, <2>5
  <1>7. ok => call[c].id # 0 /\ call[c].id \in Ids(executed[call[c].target])
    BY RanValue
  <1>8. CallSound(c)
    BY DEF DispatchInv
  <1>9. call[c].id < router'.next
    BY <1>1, <1>5, <1>8 DEF CallSound, Handoffs
  <1>10. CallSound(c)'
    BY <1>3, <1>4, <1>7, <1>8, <1>9 DEF CallSound, InHandoff
  <1>11. DispatchInv'
    BY <1>3, <1>4, <1>5, <1>6, <1>10, OneCall
  <1>12. Handler!Return(c, ok)
    <2>1. [d \in Clients |-> InHandoff(d)]' = [[d \in Clients |-> InHandoff(d)] EXCEPT ![c] = FALSE]
      <3>1. InHandoff(c)' = FALSE /\ \A d \in Clients \ {c} : InHandoff(d)' = InHandoff(d)
        BY <1>3 DEF InHandoff
      <3> QED
        BY <3>1
    <2>2. [d \in Clients |-> call[d].handed]' = [[d \in Clients |-> call[d].handed] EXCEPT ![c] = ok]
      BY <1>4
    <2>3. [d \in Clients |-> call[d].target]' = [d \in Clients |-> call[d].target]
      BY <1>4
    <2>4. [d \in Clients |-> Ran(d)]' = [d \in Clients |-> Ran(d)]
      <3>1. \A d \in Clients : call'[d].id = call[d].id /\ call'[d].target = call[d].target
        BY <1>4
      <3>2. \A d \in Clients : Ran(d)' = Ran(d)
        BY <3>1 DEF Ran
      <3> QED
        BY <3>2
    <2> QED
      BY <2>1, <2>2, <2>3, <2>4 DEF Handler!Return
  <1> QED
    BY <1>11, <1>12 DEF Handler!Next


\* A step inside handoff() that changes neither the target nor what is known of the call.
LEMMA InsideStep ==
    ASSUME TypeOK, TypeOK', DispatchInv, DispatchInv', NEW c \in Clients,
           InHandoff(c), serve'[c] \in {"send", "wait"},
           \A d \in Clients \ {c} : call'[d] = call[d] /\ serve'[d] = serve[d],
           call'[c].target = call[c].target, call'[c].handed = call[c].handed,
           Ran(c) = 0, call'[c].id = 0 \/ call'[c].id \notin Ids(executed'[call'[c].target]),
           UNCHANGED executed
    PROVE  UNCHANGED Handler!vars
  <1>1. [d \in Clients |-> InHandoff(d)]' = [d \in Clients |-> InHandoff(d)]
    <2>1. \A d \in Clients : InHandoff(d)' = InHandoff(d)
      BY DEF InHandoff
    <2> QED
      BY <2>1
  <1>2. [d \in Clients |-> Ran(d)]' = [d \in Clients |-> Ran(d)]
    <2>1. Ran(c)' = 0
      <3>1. CASE call'[c].id = 0
        BY <3>1 DEF Ran
      <3>2. CASE call'[c].id # 0
        <4>1. call'[c].target \in Workers
          <5>1. call' \in [Clients -> Handoffs] /\ CallSound(c)'
            BY DEF DispatchInv, TypeOK
          <5> QED
            BY <3>2, <5>1 DEF CallSound, Handoffs
        <4>2. executed'[call'[c].target] \in Seq(Nat)
          BY <4>1 DEF TypeOK
        <4>3. \A i, j \in DOMAIN executed'[call'[c].target] :
                  executed'[call'[c].target][i] = executed'[call'[c].target][j] => i = j
          <5>1. IdsOnce(call[c].target)'
            BY <4>1 DEF DispatchInv
          <5> QED
            BY <5>1 DEF IdsOnce
        <4> QED
          BY <3>2, <4>2, <4>3, Occurrences DEF Ran
      <3> QED
        BY <3>1, <3>2
    <2>2. \A d \in Clients \ {c} : Ran(d)' = Ran(d)
      BY DEF Ran
    <2> QED
      BY <2>1, <2>2
  <1>3. /\ [d \in Clients |-> call[d].target]' = [d \in Clients |-> call[d].target]
        /\ [d \in Clients |-> call[d].handed]' = [d \in Clients |-> call[d].handed]
    OBVIOUS
  <1> QED
    BY <1>1, <1>2, <1>3 DEF Handler!vars

\* handoff() looks the link of the target up.
LEMMA LookupStep ==
    ASSUME TypeOK, TypeOK', DispatchInv, NEW c \in Clients, handoff_lookup(c)
    PROVE  DispatchInv' /\ [Handler!Next]_(Handler!vars)
  <1>1. /\ c \in Conns /\ call \in [Clients -> Handoffs] /\ call[c] \in Handoffs
        /\ serve \in [Conns -> Labels] /\ Clients \subseteq Conns /\ Workers \subseteq Conns
        /\ router \in Registry /\ links \in Workers \cup {0}
    BY DEF TypeOK, Conns
  <1>2. /\ serve[c] = "handoff" /\ UNCHANGED <<up, link, router, executed>>
    BY DEF handoff_lookup
  <1>3. InHandoff(c) /\ CallSound(c) /\ \A w \in Workers : link[w].results \subseteq Ids(executed[w])
    BY <1>2, ResultStored DEF InHandoff, DispatchInv
  <1>4. CASE links # 0 /\ links = call[c].target
    <2>1. /\ call' = [call EXCEPT ![c].link = links]
          /\ serve' = [serve EXCEPT ![c] = "send"] /\ UNCHANGED down
      BY <1>4 DEF handoff_lookup
    <2>2. /\ call'[c].target = call[c].target /\ call'[c].id = call[c].id
          /\ call'[c].handed = call[c].handed /\ call'[c].link = links /\ serve'[c] = "send"
          /\ \A d \in Clients \ {c} : call'[d] = call[d] /\ serve'[d] = serve[d]
      BY <1>1, <2>1 DEF Handoffs
    <2>3. ASSUME NEW w \in Workers PROVE IdsOnce(w)' /\ ResultsReal(w)'
      BY <1>2, <2>1 DEF DispatchInv, IdsOnce, ResultsReal
    <2>4. call[c].id = 0 /\ ~call[c].handed
      BY <1>2, <1>3 DEF CallSound, InHandoff
    <2>5. router.next \in Nat /\ router.next > 0
      BY <1>1 DEF Registry
    <2>6. CallSound(c)'
      BY <1>2, <1>4, <2>2, <2>4, <2>5 DEF CallSound, InHandoff
    <2>7. DispatchInv'
      BY <1>2, <2>2, <2>3, <2>5, <2>6, OneCall
    <2>8. Ran(c) = 0
      BY <2>4 DEF Ran
    <2>9. UNCHANGED Handler!vars
      BY <1>2, <1>3, <2>2, <2>4, <2>7, <2>8, InsideStep
    <2> QED
      BY <2>7, <2>9
  <1>5. CASE ~(links # 0 /\ links = call[c].target)
    <2>1. HandoffReturns(c, FALSE)
      BY <1>5 DEF handoff_lookup
    <2> QED
      BY <1>2, <1>3, <2>1, ReturnStep
  <1> QED
    BY <1>4, <1>5

\* A DISPATCH with a fresh id goes to w.
LEMMA FreshId ==
    ASSUME TypeOK, NEW w \in Workers, NEW v \in Workers, IdsOnce(w),
           SendDown(v, Frame("DISPATCH", router.next)),
           router'.next = router.next + 1, UNCHANGED executed
    PROVE  IdsOnce(w)'
  <1>1. /\ w \in Conns /\ down \in [Conns -> Seq(Frames)] /\ down[w] \in Seq(Frames)
        /\ router.next \in Nat /\ router.next > 0
    BY DEF Conns, TypeOK, Registry
  <1>2. CASE down'[w] = down[w]
    <2>1. Shifted(down'[w], down[w], "DISPATCH")
      BY <1>1, <1>2, SeqShifts
    <2> QED
      BY <1>1, <1>2, <2>1, IdsKept
  <1>3. CASE down'[w] # down[w]
    <2>1. down'[w] = Append(down[w], Frame("DISPATCH", router.next))
      BY <1>1, <1>3 DEF SendDown
    <2>2. /\ DOMAIN down'[w] = 1..(Len(down[w]) + 1) /\ DOMAIN down[w] = 1..Len(down[w])
          /\ Len(down[w]) \in Nat
          /\ \A i \in 1..Len(down[w]) : down'[w][i] = down[w][i]
          /\ down'[w][Len(down[w]) + 1] = Frame("DISPATCH", router.next)
      BY <1>1, <2>1, AppendProperties, LenProperties
    <2>3. Frame("DISPATCH", router.next).arg = router.next
      BY DEF Frame
    <2>4. \A i \in DOMAIN down'[w] : i \in DOMAIN down[w] \/ (i = Len(down[w]) + 1 /\ down'[w][i].arg = router.next)
      BY <2>2, <2>3
    <2>5. /\ \A i \in DOMAIN executed[w] : executed[w][i] \in 1..(router.next - 1)
          /\ \A i \in DOMAIN down[w] : down[w][i].type = "DISPATCH" =>
                down[w][i].arg \in 1..(router.next - 1) /\ down[w][i].arg \notin Ids(executed[w])
      BY DEF IdsOnce
    <2>6. router.next \notin Ids(executed[w])
      BY <1>1, <2>5 DEF Ids
    <2>7. \A n : n \in 1..(router.next - 1) => n \in 1..(router'.next - 1) /\ n # router.next
      BY <1>1
    <2>8. router.next \in 1..(router'.next - 1)
      BY <1>1
    <2>9. \A i \in DOMAIN down'[w] : down'[w][i].type = "DISPATCH" =>
              down'[w][i].arg \in 1..(router'.next - 1) /\ down'[w][i].arg \notin Ids(executed[w])
      BY <2>2, <2>4, <2>5, <2>6, <2>7, <2>8
    <2>10. ASSUME NEW i \in DOMAIN down'[w], NEW j \in DOMAIN down'[w],
                  down'[w][i].type = "DISPATCH", down'[w][j].type = "DISPATCH",
                  down'[w][i].arg = down'[w][j].arg
           PROVE  i = j
      <3>1. CASE i \in DOMAIN down[w] /\ j \in DOMAIN down[w]
        BY <2>2, <2>10, <3>1 DEF IdsOnce
      <3>2. CASE i \in DOMAIN down[w] /\ j \notin DOMAIN down[w]
        BY <2>2, <2>4, <2>5, <2>7, <2>10, <3>2
      <3>3. CASE i \notin DOMAIN down[w] /\ j \in DOMAIN down[w]
        BY <2>2, <2>4, <2>5, <2>7, <2>10, <3>3
      <3>4. CASE i \notin DOMAIN down[w] /\ j \notin DOMAIN down[w]
        BY <2>4, <3>4
      <3> QED
        BY <3>1, <3>2, <3>3, <3>4
    <2>11. \A i \in DOMAIN executed'[w] : executed'[w][i] \in 1..(router'.next - 1)
      BY <2>5, <2>7
    <2>12. \A i, j \in DOMAIN executed'[w] : executed'[w][i] = executed'[w][j] => i = j
      BY DEF IdsOnce
    <2> QED
      BY <2>9, <2>10, <2>11, <2>12 DEF IdsOnce
  <1> QED
    BY <1>2, <1>3


\* handoff() sends the request on the link it found, or gives up.
LEMMA SendStep ==
    ASSUME TypeOK, TypeOK', DispatchInv, NEW c \in Clients, handoff_send(c)
    PROVE  DispatchInv' /\ [Handler!Next]_(Handler!vars)
  <1>1. /\ c \in Conns /\ call \in [Clients -> Handoffs] /\ call[c] \in Handoffs
        /\ serve \in [Conns -> Labels] /\ Clients \subseteq Conns /\ Workers \subseteq Conns
        /\ router \in Registry
    BY DEF TypeOK, Conns
  <1>2. /\ serve[c] = "send" /\ UNCHANGED <<up, link, executed>>
        /\ router' = [router EXCEPT !.next = @ + 1]
    BY DEF handoff_send
  <1>3. router'.next = router.next + 1 /\ router.next \in Nat /\ router.next > 0
    BY <1>1, <1>2 DEF Registry
  <1>4. InHandoff(c) /\ CallSound(c) /\ \A w \in Workers : link[w].results \subseteq Ids(executed[w])
    BY <1>2, ResultStored DEF InHandoff, DispatchInv
  <1>5. call[c].id = 0 /\ ~call[c].handed /\ call[c].link = call[c].target /\ call[c].target \in Workers
    BY <1>1, <1>2, <1>4 DEF CallSound, InHandoff, Handoffs
  <1>6. ASSUME SendDown(call[c].link, Frame("DISPATCH", router.next)),
               call' = [call EXCEPT ![c].id = router.next],
               serve' = [serve EXCEPT ![c] = "wait"]
        PROVE  DispatchInv' /\ UNCHANGED Handler!vars
    <2>1. /\ call'[c].target = call[c].target /\ call'[c].id = router.next
          /\ call'[c].handed = call[c].handed /\ call'[c].link = call[c].link /\ serve'[c] = "wait"
          /\ \A d \in Clients \ {c} : call'[d] = call[d] /\ serve'[d] = serve[d]
      BY <1>1, <1>6 DEF Handoffs
    <2>2. ASSUME NEW w \in Workers PROVE IdsOnce(w)' /\ ResultsReal(w)'
      <3>1. IdsOnce(w)
        BY DEF DispatchInv
      <3>2. IdsOnce(w)'
        BY <1>2, <1>3, <1>5, <1>6, <3>1, FreshId
      <3>3. ResultsReal(w)'
        BY <1>2 DEF DispatchInv, ResultsReal
      <3> QED
        BY <3>2, <3>3
    <2>3. call'[c].id < router'.next
      BY <1>3, <2>1
    <2>4. call'[c].id # 0 /\ call'[c].target # 0
      BY <1>3, <1>5, <2>1, WorkersAssumption
    <2>5. CallSound(c)'
      BY <1>5, <2>1, <2>3, <2>4 DEF CallSound, InHandoff
    <2>6. DispatchInv'
      BY <1>2, <1>3, <2>1, <2>2, <2>5, OneCall
    <2>7. Ran(c) = 0
      BY <1>5 DEF Ran
    <2>8. call'[c].id \notin Ids(executed'[call'[c].target])
      <3>1. IdsOnce(call[c].target)
        BY <1>5 DEF DispatchInv
      <3>2. \A i \in DOMAIN executed[call[c].target] : executed[call[c].target][i] # router.next
        BY <1>3, <3>1 DEF IdsOnce
      <3> QED
        BY <1>2, <2>1, <3>2 DEF Ids
    <2>9. UNCHANGED Handler!vars
      BY <1>2, <1>4, <2>1, <2>6, <2>7, <2>8, InsideStep
    <2> QED
      BY <2>6, <2>9
  <1>7. ASSUME HandoffReturns(c, FALSE) PROVE DispatchInv' /\ Handler!Next
    BY <1>2, <1>3, <1>4, <1>7, ReturnStep
  <1> QED
    BY <1>6, <1>7 DEF handoff_send

\* handoff() wakes up: the result it waited for has arrived, or the link was closed.
LEMMA WaitStep ==
    ASSUME TypeOK, TypeOK', DispatchInv, NEW c \in Clients, handoff_wait(c)
    PROVE  DispatchInv' /\ Handler!Next
  <1>1. /\ call \in [Clients -> Handoffs] /\ call[c] \in Handoffs /\ link \in [Workers -> Links]
    BY DEF TypeOK
  <1> DEFINE ok == call[c].id \in link[call[c].link].results
  <1>2. ok \in BOOLEAN
    OBVIOUS
  <1>3. /\ serve[c] = "wait" /\ UNCHANGED <<up, router, executed>> /\ HandoffReturns(c, ok)
        /\ link' = [link EXCEPT ![call[c].link].results = @ \ {call[c].id}]
    BY DEF handoff_wait
  <1>4. InHandoff(c) /\ CallSound(c) /\ \A w \in Workers : link[w].results \subseteq Ids(executed[w])
    BY <1>3, ResultStored DEF InHandoff, DispatchInv
  <1>5. call[c].id # 0 /\ call[c].link = call[c].target /\ call[c].target \in Workers
    BY <1>1, <1>3, <1>4 DEF CallSound, Handoffs
  <1>6. ok => Ran(c) = 1
    <2>1. ASSUME ok PROVE call[c].id \in Ids(executed[call[c].target])
      BY <1>4, <1>5, <2>1
    <2> QED
      BY <1>5, <2>1, RanValue
  <1>7. \A w \in Workers : link'[w].results \subseteq Ids(executed[w])
    <2>1. \A w \in Workers : link'[w].results \subseteq link[w].results
      BY <1>1, <1>3 DEF Links
    <2> QED
      BY <1>4, <2>1
  <1> HIDE DEF ok
  <1> QED
    BY <1>2, <1>3, <1>4, <1>6, <1>7, ReturnStep

\* A worker takes a DISPATCH and executes it; at most one call, and that one for the first
\* time, sees it.
LEMMA ExecuteStep ==
    ASSUME TypeOK, TypeOK', DispatchInv, NEW w \in Workers, worker_serve(w)
    PROVE  DispatchInv' /\ [Handler!Next]_(Handler!vars)
  <1> DEFINE s == down[w]
             e == executed[w]
  <1>1. /\ w \in Conns /\ Workers \subseteq Conns /\ w # 0 /\ s \in Seq(Frames) /\ e \in Seq(Nat)
        /\ down \in [Conns -> Seq(Frames)] /\ up \in [Conns -> Seq(Frames)]
        /\ executed \in [Workers -> Seq(Nat)] /\ router.next \in Nat /\ call \in [Clients -> Handoffs]
    BY WorkersAssumption DEF TypeOK, Conns, Registry
  <1>2. PICK x : x = Head(s).arg
    OBVIOUS
  <1>3. /\ s # <<>> /\ Head(s).type = "DISPATCH" /\ down' = [down EXCEPT ![w] = Tail(@)]
        /\ executed' = [executed EXCEPT ![w] = Append(@, x)]
        /\ SendUp(w, Frame("DISPATCH_RESULT", x))
        /\ UNCHANGED <<serve, link, call, router>>
    BY <1>2 DEF worker_serve
  <1>4. /\ executed'[w] = Append(e, x) /\ down'[w] = Tail(s)
        /\ \A v \in Workers \ {w} : executed'[v] = executed[v] /\ down'[v] = down[v]
    BY <1>1, <1>3
  <1>5. /\ Len(s) \in Nat /\ DOMAIN s = 1..Len(s) /\ 1 \in DOMAIN s /\ s[1] = Head(s)
        /\ DOMAIN Tail(s) = 1..(Len(s) - 1) /\ \A i \in DOMAIN Tail(s) : Tail(s)[i] = s[i + 1]
        /\ Head(s) \in Frames
    BY <1>1, <1>3, HeadTailProperties, LenProperties, EmptySeq
  <1>6. IdsOnce(w) /\ ResultsReal(w)
    BY DEF DispatchInv
  <1>7. x \in 1..(router.next - 1) /\ x \notin Ids(e) /\ x \in Nat
    BY <1>2, <1>3, <1>5, <1>6 DEF IdsOnce, Frames
  <1>8. /\ Len(e) \in Nat /\ DOMAIN e = 1..Len(e) /\ DOMAIN Append(e, x) = 1..(Len(e) + 1)
        /\ \A i \in DOMAIN e : Append(e, x)[i] = e[i]
        /\ Append(e, x)[Len(e) + 1] = x
    BY <1>1, <1>7, AppendProperties, LenProperties
  <1> HIDE DEF s, e
  <1>9. Ids(Append(e, x)) = Ids(e) \cup {x}
    <2>1. DOMAIN Append(e, x) = DOMAIN e \cup {Len(e) + 1}
      BY <1>8
    <2> QED
      BY <1>8, <2>1 DEF Ids
  <1>10. \A v \in Workers : Ids(executed[v]) \subseteq Ids(executed'[v])
    BY <1>4, <1>9 DEF e
  <1>11. ASSUME NEW v \in Workers \ {w} PROVE IdsOnce(v)'
    BY <1>3, <1>4 DEF DispatchInv, IdsOnce
  <1>12. IdsOnce(w)'
    <2>1. \A i \in DOMAIN Append(e, x) : Append(e, x)[i] \in 1..(router.next - 1)
      <3>1. \A i \in DOMAIN e : e[i] \in 1..(router.next - 1)
        BY <1>6 DEF IdsOnce, e
      <3> QED
        BY <1>7, <1>8, <3>1
    <2>2. ASSUME NEW i \in DOMAIN Append(e, x), NEW j \in DOMAIN Append(e, x),
                 Append(e, x)[i] = Append(e, x)[j]
          PROVE  i = j
      <3>1. \A k, l \in DOMAIN e : e[k] = e[l] => k = l
        BY <1>6 DEF IdsOnce, e
      <3>2. \A k \in DOMAIN e : e[k] # x
        BY <1>7 DEF Ids
      <3>3. \A k \in DOMAIN Append(e, x) : k \in DOMAIN e \/ k = Len(e) + 1
        BY <1>8
      <3> QED
        BY <1>8, <2>2, <3>1, <3>2, <3>3
    <2>3. ASSUME NEW i \in DOMAIN Tail(s), Tail(s)[i].type = "DISPATCH"
          PROVE  Tail(s)[i].arg \in 1..(router.next - 1) /\ Tail(s)[i].arg \notin Ids(Append(e, x))
      <3>1. i + 1 \in DOMAIN s /\ Tail(s)[i] = s[i + 1] /\ i + 1 # 1
        BY <1>5
      <3>2. s[i + 1].arg # s[1].arg
        BY <1>3, <1>5, <1>6, <2>3, <3>1 DEF IdsOnce, s
      <3>3. s[i + 1].arg \in 1..(router.next - 1) /\ s[i + 1].arg \notin Ids(e)
        BY <1>6, <2>3, <3>1 DEF IdsOnce, s, e
      <3> QED
        BY <1>2, <1>5, <1>9, <3>1, <3>2, <3>3
    <2>4. ASSUME NEW i \in DOMAIN Tail(s), NEW j \in DOMAIN Tail(s),
                 Tail(s)[i].type = "DISPATCH", Tail(s)[j].type = "DISPATCH",
                 Tail(s)[i].arg = Tail(s)[j].arg
          PROVE  i = j
      <3>1. i + 1 \in DOMAIN s /\ j + 1 \in DOMAIN s
        BY <1>5
      <3>2. i + 1 = j + 1
        BY <1>5, <1>6, <2>4, <3>1 DEF IdsOnce, s
      <3> QED
        BY <1>5, <3>2
    <2>5. router'.next = router.next /\ executed'[w] = Append(e, x) /\ down'[w] = Tail(s)
      BY <1>3, <1>4
    <2>6. /\ \A i \in DOMAIN executed'[w] : executed'[w][i] \in 1..(router'.next - 1)
          /\ \A i, j \in DOMAIN executed'[w] : executed'[w][i] = executed'[w][j] => i = j
      BY <2>1, <2>2, <2>5
    <2>7. \A i \in DOMAIN down'[w] : down'[w][i].type = "DISPATCH" =>
             down'[w][i].arg \in 1..(router'.next - 1) /\ down'[w][i].arg \notin Ids(executed'[w])
      BY <2>3, <2>5
    <2>8. \A i, j \in DOMAIN down'[w] :
             /\ down'[w][i].type = "DISPATCH" /\ down'[w][j].type = "DISPATCH"
             /\ down'[w][i].arg = down'[w][j].arg
             => i = j
      BY <2>4, <2>5
    <2> QED
      BY <2>6, <2>7, <2>8 DEF IdsOnce
  <1>13. ASSUME NEW v \in Workers \ {w} PROVE ResultsReal(v)'
    <2>1. up'[v] = up[v]
      BY <1>1, <1>3 DEF SendUp
    <2> QED
      BY <1>3, <1>4, <2>1 DEF DispatchInv, ResultsReal
  <1>14. ResultsReal(w)'
    <2>1. link'[w].results \subseteq Ids(executed'[w])
      BY <1>3, <1>6, <1>10 DEF ResultsReal
    <2>2. ASSUME NEW i \in DOMAIN up'[w], up'[w][i].type = "DISPATCH_RESULT"
          PROVE  up'[w][i].arg \in Ids(executed'[w])
      <3>1. up[w] \in Seq(Frames) /\ Frame("DISPATCH_RESULT", x) \in Frames
            /\ Frame("DISPATCH_RESULT", x).arg = x
        BY <1>1, <1>7, FrameType DEF FrameTypes, Frame
      <3>2. up'[w] = up[w] \/ up'[w] = Append(up[w], Frame("DISPATCH_RESULT", x))
        BY <1>1, <1>3 DEF SendUp
      <3>3. \A k \in DOMAIN up[w] : up[w][k].type = "DISPATCH_RESULT" => up[w][k].arg \in Ids(e)
        BY <1>6 DEF ResultsReal, e
      <3>4. CASE up'[w] = up[w]
        BY <1>4, <1>9, <2>2, <3>3, <3>4
      <3>5. CASE up'[w] = Append(up[w], Frame("DISPATCH_RESULT", x))
        <4>1. /\ DOMAIN up'[w] = 1..(Len(up[w]) + 1) /\ DOMAIN up[w] = 1..Len(up[w]) /\ Len(up[w]) \in Nat
              /\ \A k \in 1..Len(up[w]) : up'[w][k] = up[w][k]
              /\ up'[w][Len(up[w]) + 1] = Frame("DISPATCH_RESULT", x)
          BY <3>1, <3>5, AppendProperties, LenProperties
        <4>2. i \in DOMAIN up[w] \/ i = Len(up[w]) + 1
          BY <4>1
        <4> QED
          BY <1>4, <1>9, <2>2, <3>1, <3>3, <4>1, <4>2
      <3> QED
        BY <3>2, <3>4, <3>5
    <2> QED
      BY <2>1, <2>2 DEF ResultsReal
  <1>15. ASSUME NEW c \in Clients PROVE CallSound(c)'
    <2>1. CallSound(c) /\ call'[c] = call[c] /\ serve'[c] = serve[c]
      BY <1>3 DEF DispatchInv
    <2>2. router'.next \in Nat /\ router.next <= router'.next
      BY <1>1, <1>3
    <2> QED
      BY <1>10, <2>1, <2>2, CallKept
  <1>16. DispatchInv'
    BY <1>3, <1>11, <1>12, <1>13, <1>14, <1>15 DEF DispatchInv
  <1>17. /\ RanKnown /\ RanKnown'
         /\ \A d \in Clients : call[d].target # w => Ids(executed'[call[d].target]) = Ids(executed[call[d].target])
         /\ Ids(executed'[w]) = Ids(executed[w]) \cup {x}
    <2>1. RanKnown'
      BY <1>16, RanKnownNext
    <2>2. RanKnown
      BY RanValue DEF RanKnown
    <2>3. executed' = [executed EXCEPT ![w] = Append(@, x)]
      BY <1>3
    <2>4. \A d \in Clients : call[d].target # w => executed'[call[d].target] = executed[call[d].target]
      BY <1>1, <2>3
    <2>5. Ids(executed'[w]) = Ids(executed[w]) \cup {x}
      BY <1>4, <1>9 DEF e
    <2> QED
      BY <2>1, <2>2, <2>4, <2>5
  <1>18. /\ [d \in Clients |-> InHandoff(d)]' = [d \in Clients |-> InHandoff(d)]
         /\ [d \in Clients |-> call[d].target]' = [d \in Clients |-> call[d].target]
         /\ [d \in Clients |-> call[d].handed]' = [d \in Clients |-> call[d].handed]
    BY <1>3 DEF InHandoff
  <1>19. ASSUME NEW d \in Clients, ~(call[d].id = x /\ call[d].target = w) PROVE Ran(d)' = Ran(d)
    <2>1. call'[d] = call[d]
      BY <1>3
    <2>2. (call[d].id \in Ids(executed'[call[d].target])) <=> (call[d].id \in Ids(executed[call[d].target]))
      BY <1>17, <1>19
    <2> QED
      BY <1>17, <2>1, <2>2 DEF RanKnown
  <1>20. CASE \E c \in Clients : call[c].id = x /\ call[c].target = w
    <2>1. PICK c \in Clients : call[c].id = x /\ call[c].target = w
      BY <1>20
    <2>2. \A d \in Clients \ {c} : Ran(d)' = Ran(d)
      <3>1. \A d \in Clients \ {c} : call[d].id # x
        BY <1>7, <2>1 DEF DispatchInv
      <3> QED
        BY <1>19, <3>1
    <2>3. x # 0 /\ x \notin Ids(executed[w]) /\ x \in Ids(executed'[w])
      BY <1>7, <1>17 DEF e
    <2>4. Ran(c) = 0 /\ Ran(c)' = 1
      BY <1>3, <1>17, <2>1, <2>3 DEF RanKnown
    <2>5. ~call[c].handed
      BY <2>1, <2>3 DEF DispatchInv, CallSound
    <2>6. [d \in Clients |-> Ran(d)]' = [[d \in Clients |-> Ran(d)] EXCEPT ![c] = 1]
      BY <2>2, <2>4
    <2>7. Handler!Execute(c)
      BY <1>1, <1>18, <2>1, <2>4, <2>5, <2>6 DEF Handler!Execute
    <2> QED
      BY <1>16, <2>7 DEF Handler!Next
  <1>21. CASE ~\E c \in Clients : call[c].id = x /\ call[c].target = w
    <2>1. \A d \in Clients : Ran(d)' = Ran(d)
      BY <1>19, <1>21
    <2>2. [d \in Clients |-> Ran(d)]' = [d \in Clients |-> Ran(d)]
      BY <2>1
    <2> QED
      BY <1>16, <1>18, <2>2 DEF Handler!vars
  <1> QED
    BY <1>20, <1>21

\* Every step keeps the invariant and is a step of the dispatch handler or none.
LEMMA DispatchStep ==
    ASSUME TypeOK, TypeOK', SessionInv, DispatchInv, [Next]_vars
    PROVE  DispatchInv' /\ [Handler!Next]_(Handler!vars)
  <1>1. ASSUME Quiet PROVE DispatchInv' /\ [Handler!Next]_(Handler!vars)
    BY <1>1, QuietKeeps
  <1>2. CASE UNCHANGED vars
    <2>1. UNCHANGED <<call, executed, router, serve, link, up, down>>
      BY <1>2 DEF vars, net
    <2>2. \A w \in Workers : /\ Shifted(down'[w], down[w], "DISPATCH")
                             /\ Shifted(up'[w], up[w], "DISPATCH_RESULT")
      BY <2>1, QueuesShift DEF Conns
    <2>3. Quiet
      BY <2>1, <2>2, ResultStored DEF Quiet
    <2> QED
      BY <1>1, <2>3
  <1>3. CASE Accept \/ stop_begin \/ Stop
    BY <1>1, <1>3, MainQuiet
  <1>4. ASSUME NEW c \in Conns, session(c) PROVE DispatchInv' /\ [Handler!Next]_(Handler!vars)
    <2>1. CASE Between(c)
      BY <1>1, <2>1, ClientQuiet
    <2>2. CASE c \in Workers /\ ~Between(c)
      <3>1. c \notin Clients
        BY <2>2, ClientsAssumption
      <3> QED
        BY <1>1, <1>4, <2>2, <3>1, WorkerSessionQuiet DEF session, Between
    <2>3. CASE c \in Clients /\ ~Between(c)
      <3>1. c \notin Workers
        BY <2>3, ClientsAssumption
      <3>2. CASE handle_route_request(c) \/ admin_fence_backend(c) \/ admin_shutdown(c)
        BY <1>1, <2>3, <3>2, ClientQuiet
      <3>3. CASE admin_dispatch(c)
        BY <1>1, <2>3, <3>3, ClientQuiet, CallStep
      <3>4. CASE handoff_lookup(c)
        BY <2>3, <3>4, LookupStep
      <3>5. CASE handoff_send(c)
        BY <2>3, <3>5, SendStep
      <3>6. CASE handoff_wait(c)
        BY <2>3, <3>6, WaitStep
      <3> QED
        BY <1>4, <2>3, <3>1, <3>2, <3>3, <3>4, <3>5, <3>6 DEF session, Between
    <2> QED
      BY <2>1, <2>2, <2>3 DEF Conns
  <1>5. ASSUME NEW w \in Workers, worker_start(w) \/ Worker(w) \/ worker_crash(w)
        PROVE  DispatchInv' /\ [Handler!Next]_(Handler!vars)
    <2>1. CASE worker_serve(w)
      BY <2>1, ExecuteStep
    <2>2. CASE ~worker_serve(w)
      BY <1>1, <1>5, <2>2, PeerQuiet DEF Worker
    <2> QED
      BY <2>1, <2>2
  <1>6. ASSUME NEW c \in Clients, client_request(c) \/ client_leave(c)
        PROVE  DispatchInv' /\ [Handler!Next]_(Handler!vars)
    BY <1>1, <1>6, PeerQuiet
  <1> QED
    BY <1>2, <1>3, <1>4, <1>5, <1>6 DEF Next

LEMMA InitDispatch == Init => DispatchInv /\ Handler!Init
  <1> SUFFICES ASSUME Init PROVE DispatchInv /\ Handler!Init
    OBVIOUS
  <1>1. /\ \A c \in Clients : call[c] = NoCall
        /\ \A w \in Workers : executed[w] = <<>> /\ down[w] = <<>> /\ up[w] = <<>> /\ link[w].results = {}
        /\ \A c \in Clients : serve[c] = "none"
        /\ router.next = 1
    BY DEF Init, Conns
  <1>2. DOMAIN <<>> = {}
    OBVIOUS
  <1>3. \A w \in Workers : IdsOnce(w) /\ ResultsReal(w)
    BY <1>1, <1>2 DEF IdsOnce, ResultsReal
  <1>4. \A c \in Clients : CallSound(c) /\ call[c].id = 0
    BY <1>1 DEF CallSound, InHandoff, NoCall
  <1>5. Handler!Init
    <2>1. [c \in Clients |-> InHandoff(c)] = [c \in Clients |-> FALSE]
      <3>1. \A c \in Clients : InHandoff(c) = FALSE
        BY <1>1 DEF InHandoff
      <3> QED
        BY <3>1
    <2>2. [c \in Clients |-> Ran(c)] = [c \in Clients |-> 0]
      BY <1>4 DEF Ran
    <2>3. /\ [c \in Clients |-> call[c].target] = [c \in Clients |-> 0]
          /\ [c \in Clients |-> call[c].handed] = [c \in Clients |-> FALSE]
      <3>1. \A c \in Clients : call[c].target = 0 /\ call[c].handed = FALSE
        BY <1>1 DEF NoCall
      <3> QED
        BY <3>1
    <2> QED
      BY <2>1, <2>2, <2>3 DEF Handler!Init
  <1> QED
    BY <1>3, <1>4, <1>5 DEF DispatchInv

\* handoff() implements the dispatch handler the router relies on, whatever incarnations
\* register, die and are fenced meanwhile: a call returns as handed off only after the very
\* incarnation of its decision executed it, and that incarnation executes it at most once.
THEOREM HandoffRefinesHandler == Spec => HandoffImplementsHandler
  <1>1. TypeOK /\ TypeOK' /\ SessionInv /\ DispatchInv /\ [Next]_vars
        => DispatchInv' /\ [Handler!Next]_(Handler!vars)
    BY DispatchStep
  <1> QED
    BY <1>1, InitDispatch, TypeCorrect, SessionsHold, PTL
       DEF Spec, HandoffImplementsHandler, Handler!Spec


=============================================================================
