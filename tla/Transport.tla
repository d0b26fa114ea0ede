------------------------------ MODULE Transport ------------------------------
(***************************************************************************)
(* One framed TCP connection of src/src/distributed/transport.cpp with the *)
(* session thread, the caller of send(), the reader in receive() and the   *)
(* caller of close() at each end.  A frame on the wire is two chunks, so a *)
(* write, a read and a decode may each stop in the middle of a frame.      *)
(*                                                                         *)
(* The session loop has two implementations, chosen when the library is    *)
(* built: `platform' picks one and the socket underneath it.               *)
(***************************************************************************)
EXTENDS Integers, Sequences, SequencesExt, FiniteSetsExt

CONSTANTS Platforms,     \* {"windows"}, {"posix"} or both
          Senders,       \* the ends whose program calls send()
          Readers,       \* the ends with a thread that loops on receive()
          MaxFrames,     \* bound: frames a program offers to send()
          Oversize,      \* frames the other end's limits refuse to decode
          MaxSend,       \* TransportOptions::max_send_queue_frames
          MaxReceive,    \* TransportOptions::max_receive_queue_frames
          WireCapacity   \* chunks the socket buffers of one direction hold

Ends == {"client", "server"}

ASSUME TransportAssumption ==
    /\ Platforms \subseteq {"windows", "posix"} /\ Platforms # {}
    /\ Senders \subseteq Ends /\ Readers \subseteq Ends
    /\ MaxFrames \in Nat /\ MaxSend \in Nat /\ MaxReceive \in Nat
    /\ WireCapacity \in Nat \ {0}
    /\ Oversize \subseteq 1..MaxFrames

VARIABLES platform,
          s,         \* SessionState of each end
          wire,      \* chunks in flight to each end
          sock,      \* what the socket reports to the session thread
          worker,    \* session thread: where it is in its loop
          reader,    \* thread in receive()
          closer,    \* thread in close()
          offered,   \* frames the program has passed to send()
          accepted,  \* history: frames send() returned true for
          received   \* history: frames receive() returned

vars == <<platform, s, wire, sock, worker, reader, closer, offered, accepted, received>>

Peer(e) == CHOOSE p \in Ends : p # e

Frames == 1..MaxFrames
Chunks == Frames \X {1, 2}
\* Mutant: a trailer nobody reads.
encode_frame_with_trailer(f) == << <<f, 1>>, <<f, 2>>, <<f, 3>> >>

\* encode_frame: the bytes of a frame, here its two halves.
encode_frame(f) == << <<f, 1>>, <<f, 2>> >>
\* The bytes of frames written one after the other.
Encoded(fs) == [i \in 1..(2 * Len(fs)) |-> encode_frame(fs[(i + 1) \div 2])[2 - (i % 2)]]

Reasons == {"NONE", "LOCAL_CLOSE", "PEER_CLOSED", "TRANSPORT_ERROR",
            "PROTOCOL_ERROR", "RESOURCE_LIMIT"}

\* The types of the variables: queues, wire and buffers hold only frames or their halves.
TypeOK ==
    /\ platform \in Platforms
    /\ s \in [Ends -> [outbound : Seq(Frames), pending : Seq(Chunks),
                       buffer : Seq(Chunks), inbound : Seq(Frames),
                       closed : BOOLEAN, stop_requested : BOOLEAN,
                       reason : Reasons, counted : BOOLEAN,
                       stuck : BOOLEAN, attached : BOOLEAN]]
    /\ wire \in [Ends -> Seq(Chunks)]
    /\ sock \in [Ends -> [events : SUBSET {"read", "write", "close"},
                          wake : BOOLEAN, blocked : BOOLEAN, fin : BOOLEAN]]
    /\ worker \in [Ends -> {"wait", "drain", "recv", "decode", "end"}]
    /\ reader \in [Ends -> {"idle", "receive", "ended", "crashed"}]
    /\ closer \in [Ends -> {"no", "join", "done"}]
    /\ offered \in [Ends -> Nat]
    /\ accepted \in [Ends -> Seq(Frames)]
    /\ received \in [Ends -> Seq(Frames)]

Init ==
    /\ platform \in Platforms
    /\ s = [e \in Ends |->
              [outbound |-> <<>>, pending |-> <<>>, buffer |-> <<>>, inbound |-> <<>>,
               closed |-> FALSE, stop_requested |-> FALSE, reason |-> "NONE",
               counted |-> e = "server", stuck |-> FALSE, attached |-> TRUE]]
    /\ wire = [e \in Ends |-> <<>>]
    \* FD_WRITE is signalled once when the connection is established.
    /\ sock = [e \in Ends |-> [events |-> {"write"}, wake |-> FALSE,
                               blocked |-> FALSE, fin |-> FALSE]]
    /\ worker = [e \in Ends |-> "wait"]
    /\ reader = [e \in Ends |-> "idle"]
    /\ closer = [e \in Ends |-> "no"]
    /\ offered = [e \in Ends |-> 0]
    /\ accepted = [e \in Ends |-> <<>>]
    /\ received = [e \in Ends |-> <<>>]

Crashed == \E e \in Ends : reader[e] = "crashed"

-----------------------------------------------------------------------------
(***************************************************************************)
(* Closing.  The first caller of mark_closed records the reason, releases  *)
(* the socket (the peer sees the end of the stream) and gives back the     *)
(* connection slot of the listener.                                        *)
(***************************************************************************)
\* Mutant: the connection slot is not given back.
MarkClosedKeepingSlot(state, reason) ==
    IF state.closed THEN state ELSE [state EXCEPT !.closed = TRUE, !.reason = reason]

MarkClosed(state, reason) ==
    IF state.closed THEN state
    ELSE [state EXCEPT !.closed = TRUE, !.reason = reason, !.counted = FALSE]

release_socket(e, net) ==
    IF net[Peer(e)].fin THEN net
    ELSE [net EXCEPT ![Peer(e)].fin = TRUE, ![Peer(e)].events = @ \cup {"close"}]

\* The session thread calls mark_closed and returns.
mark_closed(e, reason) ==
    /\ s' = [s EXCEPT ![e] = MarkClosed(@, reason)]
    /\ sock' = release_socket(e, sock)
    /\ worker' = [worker EXCEPT ![e] = "end"]
    /\ wire' = [wire EXCEPT ![e] = <<>>]

\* set_error takes the mutex its caller already holds.  Where std::mutex does not
\* check its owner the thread goes on; elsewhere it waits for itself, and the mutex
\* is never released.  Only the first way reaches what follows the call.
Relock(e, after) ==
    \/ /\ platform = "windows"
       /\ s' = [s EXCEPT ![e] = after]
       /\ worker' = [worker EXCEPT ![e] = "end"]
    \/ /\ s' = [s EXCEPT ![e].stuck = TRUE]
       /\ UNCHANGED worker

-----------------------------------------------------------------------------
(***************************************************************************)
(* The program's side: send(), receive(), close().                         *)
(***************************************************************************)
\* send: refused when the connection is closed or the queue, with the frame being
\* written, is full; otherwise queued, and the session thread is woken.
send(e) ==
    /\ offered[e] < MaxFrames
    /\ ~s[e].stuck
    /\ offered' = [offered EXCEPT ![e] = @ + 1]
    /\ LET f == offered[e] + 1
           inFlight == Len(s[e].outbound) + (IF s[e].pending = <<>> THEN 0 ELSE 1)
           refused == ~s[e].attached \/ s[e].closed \/ inFlight >= MaxSend
       IN  IF refused
           THEN UNCHANGED <<s, sock, accepted>>
           ELSE /\ s' = [s EXCEPT ![e].outbound = Append(@, f)]
                /\ sock' = [sock EXCEPT ![e].wake = TRUE]
                /\ accepted' = [accepted EXCEPT ![e] = Append(@, f)]
    /\ UNCHANGED <<platform, wire, worker, reader, closer, received>>

receive_begin(e) ==
    /\ reader[e] = "idle"
    /\ reader' = [reader EXCEPT ![e] = IF s[e].attached THEN "receive" ELSE "ended"]
    /\ UNCHANGED <<platform, s, wire, sock, worker, closer, offered, accepted, received>>

\* The wait of receive() ends: a frame first, even on a closed connection.
receive_end(e) ==
    /\ reader[e] = "receive" /\ ~s[e].stuck /\ s[e].attached
    /\ IF s[e].inbound # <<>>
       THEN /\ reader' = [reader EXCEPT ![e] = "idle"]
            /\ received' = [received EXCEPT ![e] = Append(@, Head(s[e].inbound))]
            /\ s' = [s EXCEPT ![e].inbound = Tail(@)]
       ELSE /\ s[e].closed \/ s[e].stop_requested
            /\ reader' = [reader EXCEPT ![e] = "ended"]
            /\ UNCHANGED <<s, received>>
    /\ UNCHANGED <<platform, wire, sock, worker, closer, offered, accepted>>

\* The waiting receive() looks at state_ again after close() has reset it.
receive_after_reset(e) ==
    /\ reader[e] = "receive" /\ ~s[e].attached
    /\ reader' = [reader EXCEPT ![e] = "crashed"]
    /\ UNCHANGED <<platform, s, wire, sock, worker, closer, offered, accepted, received>>

\* Mutant: close() wakes the session thread and does not say why.
close_begin_without_stop(e) ==
    /\ closer[e] = "no" /\ ~s[e].stuck
    /\ closer' = [closer EXCEPT ![e] = "join"]
    /\ sock' = [sock EXCEPT ![e].wake = TRUE]
    /\ UNCHANGED <<platform, s, wire, worker, reader, offered, accepted, received>>

\* close: request the stop and wake everyone; the reader may still be in receive().
close_begin(e) ==
    /\ closer[e] = "no" /\ ~s[e].stuck
    /\ closer' = [closer EXCEPT ![e] = "join"]
    /\ s' = [s EXCEPT ![e].stop_requested = TRUE]
    /\ sock' = [sock EXCEPT ![e].wake = TRUE]
    /\ UNCHANGED <<platform, wire, worker, reader, offered, accepted, received>>

\* The session thread has been joined: mark_closed, if it did not, and the session is
\* dropped, which releases the socket in any case.
close_end(e) ==
    /\ closer[e] = "join" /\ worker[e] = "end" /\ ~s[e].stuck
    /\ closer' = [closer EXCEPT ![e] = "done"]
    /\ s' = [s EXCEPT ![e] = [MarkClosed(@, "LOCAL_CLOSE") EXCEPT !.attached = FALSE]]
    /\ sock' = release_socket(e, sock)
    /\ wire' = [wire EXCEPT ![e] = <<>>]
    /\ UNCHANGED <<platform, worker, reader, offered, accepted, received>>

-----------------------------------------------------------------------------
(***************************************************************************)
(* Steps both loops share.                                                 *)
(***************************************************************************)
\* Mutant: the newest frame is written first.
NextWriteNewest(state) ==
    IF state.pending = <<>> /\ state.outbound # <<>>
    THEN [state EXCEPT !.pending = encode_frame(Last(state.outbound)), !.outbound = Front(@)]
    ELSE state

\* The next frame moves from the queue to the write in progress.
NextWrite(state) ==
    IF state.pending = <<>> /\ state.outbound # <<>>
    THEN [state EXCEPT !.pending = encode_frame(Head(state.outbound)),
                       !.outbound = Tail(@)]
    ELSE state

Space(e) == WireCapacity - Len(wire[Peer(e)])

\* ::send takes n chunks; a peer that is gone discards them.
Write(e, n) ==
    LET w == NextWrite(s[e]) IN
    /\ s' = [s EXCEPT ![e] = [w EXCEPT !.pending = SubSeq(@, n + 1, Len(@))]]
    /\ IF sock[e].fin
       THEN UNCHANGED <<wire, sock>>
       ELSE /\ wire' = [wire EXCEPT ![Peer(e)] = @ \o SubSeq(w.pending, 1, n)]
            /\ sock' = [sock EXCEPT ![Peer(e)].events = @ \cup {"read"}]

Writable(e) == NextWrite(s[e]).pending # <<>>
Writes(e) == {n \in 1..Len(NextWrite(s[e]).pending) : sock[e].fin \/ n <= Space(e)}

\* Mutant: the writer is not told that there is room again.
DrainedSilently(e, rest) ==
    [sock EXCEPT ![e].events = IF rest = <<>> THEN @ ELSE @ \cup {"read"}]

\* Taking chunks off the wire makes room for a writer that had none.
Drained(e, rest) ==
    LET net == [sock EXCEPT ![Peer(e)].events =
                  IF sock[Peer(e)].blocked THEN @ \cup {"write"} ELSE @,
                            ![Peer(e)].blocked = FALSE]
    IN  [net EXCEPT ![e].events = IF rest = <<>> THEN @ ELSE @ \cup {"read"}]

\* Mutant: the receive buffer is cleared after a decode, a partial frame with it.
DecodeDroppingRest(buffer) ==
    [frames |-> [i \in 1..(Len(buffer) \div 2) |-> buffer[2 * i][1]],
     rest |-> <<>>, refused |-> FALSE]

\* decode_header and decode_frame on a receive buffer: the complete frames before the
\* first one that is refused, what is left, and whether one was refused.
Decode(buffer) ==
    LET bad == {i \in 1..Len(buffer) : buffer[i][1] \in Oversize /\ buffer[i][2] = 1}
        good == IF bad = {} THEN buffer ELSE SubSeq(buffer, 1, Min(bad) - 1)
        whole == Len(good) \div 2
    IN  [frames |-> [i \in 1..whole |-> good[2 * i][1]],
         rest |-> SubSeq(buffer, 2 * whole + 1, Len(buffer)),
         refused |-> bad # {}]

-----------------------------------------------------------------------------
(***************************************************************************)
(* session_loop_windows.                                                   *)
(***************************************************************************)
\* WSAWaitForMultipleEvents returns the first signalled of socket, wake and stop.
\* FD_CLOSE ends the session before anything that is still readable is read.
windows_wait(e) ==
    /\ platform = "windows" /\ worker[e] = "wait" /\ ~s[e].stuck
    /\ \/ /\ sock[e].events # {}
          /\ IF "close" \in sock[e].events
             THEN mark_closed(e, "PEER_CLOSED")
             ELSE /\ sock' = [sock EXCEPT ![e].events = {}]
                  /\ worker' = [worker EXCEPT ![e] = "drain"]
                  /\ UNCHANGED <<s, wire>>
       \/ /\ sock[e].events = {} /\ sock[e].wake
          /\ sock' = [sock EXCEPT ![e].wake = FALSE]
          /\ worker' = [worker EXCEPT ![e] = "drain"]
          /\ UNCHANGED <<s, wire>>
       \/ /\ sock[e].events = {} /\ ~sock[e].wake /\ s[e].stop_requested
          /\ mark_closed(e, "LOCAL_CLOSE")
    /\ UNCHANGED <<platform, reader, closer, offered, accepted, received>>

\* Drain the queue until it is empty, the socket would block, or the write fails.
windows_drain(e) ==
    /\ platform = "windows" /\ worker[e] = "drain" /\ ~s[e].stuck
    /\ \/ /\ ~Writable(e)
          /\ worker' = [worker EXCEPT ![e] = "recv"]
          /\ UNCHANGED <<s, wire, sock>>
       \/ /\ Writable(e)
          /\ \E n \in Writes(e) : Write(e, n)
          /\ UNCHANGED worker
       \/ /\ Writable(e) /\ Writes(e) = {}
          /\ s' = [s EXCEPT ![e] = NextWrite(@)]
          /\ sock' = [sock EXCEPT ![e].blocked = TRUE]
          /\ worker' = [worker EXCEPT ![e] = "recv"]
          /\ UNCHANGED wire
       \/ /\ Writable(e) /\ sock[e].fin
          /\ mark_closed(e, "TRANSPORT_ERROR")
    /\ UNCHANGED <<platform, reader, closer, offered, accepted, received>>

\* Read what is there and queue the complete frames; a queue that would overflow
\* ends the session without mark_closed.
windows_recv(e) ==
    /\ platform = "windows" /\ worker[e] = "recv" /\ ~s[e].stuck
    /\ \/ \E n \in 1..Len(wire[e]) :
             LET rest == SubSeq(wire[e], n + 1, Len(wire[e]))
                 d == Decode(s[e].buffer \o SubSeq(wire[e], 1, n))
                 read == [s[e] EXCEPT !.buffer = d.rest]
                 queued == [read EXCEPT !.inbound = @ \o d.frames]
             IN  /\ \/ /\ Len(s[e].inbound) + Len(d.frames) > MaxReceive
                       /\ d.frames # <<>>
                       /\ Relock(e, [read EXCEPT !.closed = TRUE, !.reason = "RESOURCE_LIMIT"])
                       /\ wire' = [wire EXCEPT ![e] = rest]
                       /\ sock' = Drained(e, rest)
                    \/ /\ d.frames = <<>> \/ Len(s[e].inbound) + Len(d.frames) <= MaxReceive
                       /\ ~d.refused
                       /\ s' = [s EXCEPT ![e] = queued]
                       /\ wire' = [wire EXCEPT ![e] = rest]
                       /\ sock' = Drained(e, rest)
                       /\ UNCHANGED worker
                    \/ /\ d.frames = <<>> \/ Len(s[e].inbound) + Len(d.frames) <= MaxReceive
                       /\ d.refused
                       /\ s' = [s EXCEPT ![e] = MarkClosed(queued, "PROTOCOL_ERROR")]
                       /\ wire' = [wire EXCEPT ![e] = <<>>]
                       /\ sock' = release_socket(e, Drained(e, rest))
                       /\ worker' = [worker EXCEPT ![e] = "end"]
       \/ /\ wire[e] = <<>> /\ ~sock[e].fin
          /\ worker' = [worker EXCEPT ![e] = "wait"]
          /\ UNCHANGED <<s, wire, sock>>
       \/ /\ wire[e] = <<>> /\ sock[e].fin
          /\ mark_closed(e, "PEER_CLOSED")
    /\ UNCHANGED <<platform, reader, closer, offered, accepted, received>>

-----------------------------------------------------------------------------
(***************************************************************************)
(* session_loop_posix.  poll() watches POLLOUT, so it never sleeps for     *)
(* long; the loop looks at `closed' only, and nothing but the session      *)
(* thread itself, and close() after joining it, ever sets that.            *)
(***************************************************************************)
\* One poll and the read that follows it.  A peer that is gone shows as POLLHUP or
\* POLLERR, with or without what it sent before, or as the end of the stream.
posix_poll(e) ==
    /\ platform = "posix" /\ worker[e] = "wait" /\ ~s[e].stuck
    /\ \/ /\ sock[e].fin
          /\ mark_closed(e, "PEER_CLOSED")
       \/ /\ \E n \in 0..Len(wire[e]) :
               /\ n = 0 => wire[e] = <<>> /\ ~sock[e].fin
               /\ s' = [s EXCEPT ![e].buffer = @ \o SubSeq(wire[e], 1, n)]
               /\ wire' = [wire EXCEPT ![e] = SubSeq(@, n + 1, Len(@))]
          /\ sock' = [sock EXCEPT ![e].wake = FALSE]
          /\ worker' = [worker EXCEPT ![e] = IF Space(e) > 0 \/ sock[e].fin
                                             THEN "drain" ELSE "decode"]
    /\ UNCHANGED <<platform, reader, closer, offered, accepted, received>>

\* The socket blocks: a write that finds no room waits for it, mutex held.
posix_drain(e) ==
    /\ platform = "posix" /\ worker[e] = "drain" /\ ~s[e].stuck
    /\ \/ /\ ~Writable(e)
          /\ worker' = [worker EXCEPT ![e] = "decode"]
          /\ UNCHANGED <<s, wire, sock>>
       \/ /\ Writable(e)
          /\ \E n \in Writes(e) : Write(e, n)
          /\ UNCHANGED worker
       \/ /\ Writable(e) /\ sock[e].fin
          /\ s' = [s EXCEPT ![e] = NextWrite(@)]
          /\ worker' = [worker EXCEPT ![e] = "decode"]
          /\ UNCHANGED <<wire, sock>>
    /\ UNCHANGED <<platform, reader, closer, offered, accepted, received>>

\* One frame per turn, no limit on the queue; a refused frame calls set_error.
posix_decode(e) ==
    /\ platform = "posix" /\ worker[e] = "decode" /\ ~s[e].stuck
    /\ LET d == Decode(s[e].buffer) IN
       \/ /\ d.frames # <<>>
          /\ s' = [s EXCEPT ![e].inbound = Append(@, Head(d.frames)),
                            ![e].buffer = SubSeq(@, 3, Len(@))]
          /\ UNCHANGED worker
       \/ /\ d.frames = <<>> /\ d.refused
          /\ Relock(e, s[e])
       \/ /\ d.frames = <<>> /\ ~d.refused
          /\ worker' = [worker EXCEPT ![e] = "wait"]
          /\ UNCHANGED s
    /\ UNCHANGED <<platform, wire, sock, reader, closer, offered, accepted, received>>

session_loop(e) ==
    \/ windows_wait(e)
    \/ windows_drain(e)
    \/ windows_recv(e)
    \/ posix_poll(e)
    \/ posix_drain(e)
    \/ posix_decode(e)

-----------------------------------------------------------------------------
\* A crash of either process ends the run: the connection is per process.
Next ==
    /\ ~Crashed
    /\ \E e \in Ends :
          \/ e \in Senders /\ send(e)
          \/ e \in Readers /\ receive_begin(e)
          \/ receive_end(e)
          \/ receive_after_reset(e)
          \/ close_begin(e)
          \/ close_end(e)
          \/ session_loop(e)

\* A session thread that can run does, a reader keeps reading (serve() and the worker's
\* loop do nothing else) and a close() that has started goes on.  Nobody has to send or
\* to close.
Fairness ==
    /\ \A e \in Ends : /\ WF_vars(~Crashed /\ session_loop(e))
                       /\ WF_vars(~Crashed /\ close_end(e))
    /\ \A e \in Readers : WF_vars(~Crashed /\ (receive_begin(e) \/ receive_end(e)))

Spec == Init /\ [][Next]_vars /\ Fairness

-----------------------------------------------------------------------------
\* As long as neither end has closed, every frame send() accepted is in exactly one
\* place on its way, in order, and whole: what the reader has, the inbound queue, the
\* partly decoded buffer, the wire, the write in progress, the outbound queue.
FramesConserved ==
    \A e \in Ends : LET p == Peer(e) IN
        ~s[e].closed /\ ~s[p].closed /\ ~s[p].stuck =>
            Encoded(received[p] \o s[p].inbound) \o s[p].buffer \o wire[p]
                \o s[e].pending \o Encoded(s[e].outbound) = Encoded(accepted[e])

\* Whatever closes, and whenever: what receive() has returned is a prefix of what send()
\* accepted at the other end.  A frame is never skipped, repeated or half delivered.
DeliveredInOrder ==
    \A e \in Ends : IsPrefix(received[Peer(e)] \o s[Peer(e)].inbound, accepted[e])

\* close() gives the listener its connection slot back, unless the receive queue
\* overflowed: that path sets `closed' itself and the slot is never counted down.
ClosedReleasesSlot ==
    \A e \in Ends : closer[e] = "done" /\ s[e].reason # "RESOURCE_LIMIT" => ~s[e].counted

\* close() returns on Windows, whatever the other threads and the peer are doing, unless
\* the session thread has locked its mutex twice or the process has crashed.
CloseReturns ==
    \A e \in Ends : (platform = "windows" /\ closer[e] = "join")
                        ~> (closer[e] = "done" \/ s[e].stuck \/ Crashed)

\* On Windows the reader catches up with what send() accepted unless an end closes: no
\* wake-up is lost between the queue, the binary wake event and the edge-triggered socket
\* events, and a write that found no room is resumed.
AcceptedArrives ==
    \A e \in Senders :
        (platform = "windows" /\ received[Peer(e)] # accepted[e])
            ~> (\/ received[Peer(e)] = accepted[e]
                \/ \E x \in Ends : closer[x] # "no" \/ s[x].closed \/ s[x].stuck
                \/ Crashed)

=============================================================================
