------------------------ MODULE RouterHistoryProofs ------------------------
(***************************************************************************)
(* Theorems about the route history of Router and the calls that change    *)
(* it, for every value of the constants.  They rest on two facts about a   *)
(* single step, RecordStep (what it may do to a record) and CallStep (what *)
(* it may do to a call in progress), so that each invariant below is       *)
(* argued from those and not from the thirty actions.                      *)
(***************************************************************************)
EXTENDS RouterProofs

-----------------------------------------------------------------------------
(* What one step may do to one record.                                      *)

\* The record stays the same decision: n is r with another status or dispatch id.
SameDecision(r, n) ==
    /\ n.auth = r.auth /\ n.seen = r.seen /\ n.via = r.via /\ n.fresh = r.fresh
    /\ n.status = "ABSENT" <=> r.status = "ABSENT"

\* At most marked STALE.
Staled(r, n) ==
    /\ SameDecision(r, n)
    /\ n.dispatch = r.dispatch
    /\ n.status \in {r.status, "STALE"}

\* Every step but a commit leaves each record alone, marks it STALE, or is one of
\* the four that give it another status.
RecordMoves(d) ==
    \/ Staled(routes[d], routes'[d])
    \/ /\ SameDecision(routes[d], routes'[d])
       /\ \/ \E t \in Threads : /\ revalidate_authorize(t) /\ reauthorized(call[t])
                                /\ d = call[t].dec /\ routes'[d].status = "CURRENT"
                                /\ routes'[d].dispatch = routes[d].dispatch
          \/ \E t \in Threads : /\ reroute_supersede(t)
                                /\ d = call[t].dec /\ routes'[d].status = "SUPERSEDED"
                                /\ routes'[d].dispatch = routes[d].dispatch
          \/ \E t \in Threads : /\ dispatch_record(t)
                                /\ d = call[t].dec /\ routes'[d].status = "DISPATCHED"
                                /\ routes'[d].dispatch = next_dispatch
          \/ /\ routes[d].status = "DISPATCHED"
             /\ routes'[d].status \in {"COMPLETED", "FAILED"}
             /\ routes'[d].dispatch = routes[d].dispatch

\* A step that keeps the history list.
SameHistory ==
    /\ route_order' = route_order /\ next_decision' = next_decision
    /\ \A d \in Decisions : RecordMoves(d)

\* The stale pass marks records STALE and does nothing else to them.
LEMMA PassStales ==
    ASSUME NEW c, NEW t, NEW rs \in [Decisions -> RouteRecord], NEW d \in Decisions
    PROVE  Staled(rs[d], stale_decisions_for_authority_change(c, rs, t)[d])
  <1> DEFINE p == stale_decisions_for_authority_change(c, rs, t)
  <1>1. p[d] = stale_decision_if_not_dispatchable(c, rs[d], t)
    BY DEF stale_decisions_for_authority_change
  <1>2. rs[d] \in RouteRecord
    OBVIOUS
  <1>3. p[d] = rs[d] \/ (p[d] = [rs[d] EXCEPT !.status = "STALE"] /\ rs[d].status # "ABSENT")
    BY <1>1 DEF stale_decision_if_not_dispatchable, executable
  <1> HIDE DEF p
  <1> QED
    BY <1>2, <1>3 DEF Staled, SameDecision, RouteRecord, p

\* So does the marking of one incarnation's decisions.
LEMMA BackendStales ==
    ASSUME NEW b, NEW boot, NEW rs \in [Decisions -> RouteRecord], NEW d \in Decisions
    PROVE  Staled(rs[d], stale_decisions_for_backend(rs, b, boot)[d])
  <1> DEFINE p == stale_decisions_for_backend(rs, b, boot)
  <1>1. rs[d] \in RouteRecord
    OBVIOUS
  <1>2. p[d] = rs[d] \/ (p[d] = [rs[d] EXCEPT !.status = "STALE"] /\ rs[d].status # "ABSENT")
    BY DEF stale_decisions_for_backend, executable
  <1> HIDE DEF p
  <1> QED
    BY <1>1, <1>2 DEF Staled, SameDecision, RouteRecord, p

\* Giving one retained record another status.
LEMMA StatusMoves ==
    ASSUME TypeOK, NEW d \in Retained, NEW st \in RouteStatus, SetStatus(d, st)
    PROVE  /\ \A e \in Decisions \ {d} : Staled(routes[e], routes'[e])
           /\ SameDecision(routes[d], routes'[d])
           /\ routes'[d].status = st /\ routes'[d].dispatch = routes[d].dispatch
  <1>1. d \in Decisions /\ routes[d].status # "ABSENT" /\ routes \in [Decisions -> RouteRecord]
    BY DEF Retained, TypeOK
  <1>2. \A e \in Decisions \ {d} : routes'[e] = routes[e]
    BY <1>1 DEF SetStatus
  <1>3. routes'[d] = [routes[d] EXCEPT !.status = st] /\ routes[d] \in RouteRecord
    BY <1>1 DEF SetStatus
  <1>4. SameDecision(routes[d], routes'[d])
    BY <1>1, <1>3 DEF SameDecision, RouteRecord, RouteStatus
  <1>5. routes'[d].status = st /\ routes'[d].dispatch = routes[d].dispatch
    BY <1>3 DEF RouteRecord
  <1> QED
    BY <1>2, <1>4, <1>5 DEF Staled, SameDecision

\* Catalog mutations mark records STALE at most.
LEMMA CatalogCallRecords ==
    ASSUME TypeOK, CatalogCall
    PROVE  SameHistory
  <1>1. routes \in [Decisions -> RouteRecord]
    BY DEF TypeOK
  <1>2. ASSUME RestUnchanged, \A d \in Decisions : Staled(routes[d], routes'[d])
        PROVE  SameHistory
    BY <1>2 DEF SameHistory, RecordMoves, RestUnchanged
  <1>3. ASSUME NEW c, Apply(c), RestUnchanged PROVE SameHistory
    BY <1>1, <1>2, <1>3, PassStales DEF Apply
  <1>4. ASSUME NEW b, NEW boot, NEW erase, Retire(b, boot, erase) PROVE SameHistory
    <2> DEFINE rs == stale_decisions_for_backend(routes, b, boot)
    <2>1. rs \in [Decisions -> RouteRecord]
      BY <1>1, StaleBackendType
    <2>2. \A d \in Decisions : Staled(routes[d], rs[d])
      BY <1>1, BackendStales
    <2>3. routes' = stale_decisions_for_authority_change(catalog', rs, now) /\ RestUnchanged
      BY <1>4 DEF Retire
    <2> HIDE DEF rs
    <2>4. \A d \in Decisions : Staled(rs[d], routes'[d])
      BY <2>1, <2>3, PassStales
    <2>5. \A d \in Decisions : Staled(routes[d], routes'[d])
      BY <2>2, <2>4 DEF Staled, SameDecision
    <2> QED
      BY <1>2, <2>3, <2>5
  <1>5. ASSUME NEW g, NEW life, register_model(g, life) PROVE SameHistory
    BY <1>2, <1>5 DEF register_model, Staled, SameDecision
  <1>6. ASSUME NEW b, NEW k, NEW boot, NEW e, NEW t0, apply_evidence(b, k, boot, e, t0)
        PROVE  SameHistory
    <2>1. PICK c : routes' = stale_decisions_for_authority_change(c, routes, t0)
      BY <1>6 DEF apply_evidence
    <2> QED
      BY <1>1, <1>2, <1>6, <2>1, PassStales DEF apply_evidence
  <1>7. ASSUME NEW b, NEW e, set_trust(b, e) PROVE SameHistory
    <2>1. RestUnchanged /\ \E c : Apply(c)
      BY <1>7 DEF set_trust
    <2> QED
      BY <1>3, <2>1
  <1>8. ASSUME retire_model PROVE SameHistory
    BY <1>3, <1>8 DEF retire_model
  <1>9. ASSUME NEW b, NEW d, register_backend(b, d) PROVE SameHistory
    BY <1>3, <1>9 DEF register_backend
  <1>10. ASSUME NEW b, unregister_backend(b) PROVE SameHistory
    BY <1>4, <1>10 DEF unregister_backend
  <1>11. ASSUME NEW b, NEW g, NEW boot, fence_backend_boot(b, g, boot) PROVE SameHistory
    BY <1>4, <1>11 DEF fence_backend_boot
  <1>12. ASSUME NEW b, NEW boot, update_latency(b, boot) PROVE SameHistory
    BY <1>3, <1>12 DEF update_latency
  <1>13. ASSUME NEW b, NEW e, set_cost(b, e) PROVE SameHistory
    BY <1>3, <1>13 DEF set_cost
  <1>14. ASSUME NEW s, NEW g, NEW deny, set_snapshot(s, g, deny) PROVE SameHistory
    BY <1>3, <1>14 DEF set_snapshot
  <1> QED
    BY <1>5, <1>6, <1>7, <1>8, <1>9, <1>10, <1>11, <1>12, <1>13, <1>14 DEF CatalogCall

\* Every step but a commit keeps the history list and moves records as RecordMoves
\* says.
LEMMA RecordStep ==
    ASSUME TypeOK, [Next]_vars
    PROVE  SameHistory \/ \E t \in Threads : commit(t)
  <1>1. ASSUME routes' = routes, route_order' = route_order, next_decision' = next_decision
        PROVE  SameHistory
    BY <1>1 DEF SameHistory, RecordMoves, Staled, SameDecision
  <1>2. ASSUME Local PROVE SameHistory
    BY <1>1, <1>2 DEF Local, HistoryUnchanged
  <1>3. ASSUME NEW d \in Retained, SetStatus(d, "STALE"), HistoryUnchanged PROVE SameHistory
    <2>1. \A e \in Decisions : Staled(routes[e], routes'[e])
      BY <1>3, StatusMoves DEF RouteStatus, Staled
    <2> QED
      BY <1>3, <2>1 DEF SameHistory, RecordMoves, HistoryUnchanged
  <1>4. ASSUME NEW t \in Threads, ThreadCall(t), ~commit(t) PROVE SameHistory
    <2> DEFINE c == call[t]
    <2>1. CASE start(t) \/ start_publish(t)
      BY <1>1, <2>1 DEF start, start_publish, HistoryUnchanged
    <2>2. CASE revalidate_mark_stale(t)
      <3>1. CASE c.dec \in Retained
        BY <1>3, <2>2, <3>1 DEF revalidate_mark_stale
      <3>2. CASE c.dec \notin Retained
        BY <1>1, <2>2, <3>2 DEF revalidate_mark_stale, HistoryUnchanged
      <3> QED
        BY <3>1, <3>2
    <2>3. CASE revalidate_authorize(t)
      <3>1. HistoryUnchanged
        BY <2>3 DEF revalidate_authorize
      <3>2. CASE c.dec \notin Retained
        BY <1>1, <2>3, <3>1, <3>2 DEF revalidate_authorize, HistoryUnchanged
      <3>3. CASE c.dec \in Retained /\ ~reauthorized(c)
        BY <1>3, <2>3, <3>1, <3>3 DEF revalidate_authorize
      <3>4. CASE c.dec \in Retained /\ reauthorized(c)
        <4>1. SetStatus(c.dec, "CURRENT")
          BY <2>3, <3>4 DEF revalidate_authorize
        <4>2. /\ \A e \in Decisions \ {c.dec} : Staled(routes[e], routes'[e])
              /\ SameDecision(routes[c.dec], routes'[c.dec])
              /\ routes'[c.dec].status = "CURRENT"
              /\ routes'[c.dec].dispatch = routes[c.dec].dispatch
          BY <3>4, <4>1, StatusMoves DEF RouteStatus
        <4>3. \A e \in Decisions : RecordMoves(e)
          BY <2>3, <3>4, <4>2 DEF RecordMoves
        <4> QED
          BY <3>1, <4>3 DEF SameHistory, HistoryUnchanged
      <3> QED
        BY <3>2, <3>3, <3>4
    <2>4. CASE \E accepted \in BOOLEAN : dispatch_handoff(t, accepted)
      BY <1>1, <2>4 DEF dispatch_handoff
    <2>5. CASE dispatch_record(t)
      <3>1. c.dec \in Decisions /\ routes[c.dec].status # "ABSENT" /\ routes \in [Decisions -> RouteRecord]
        BY <2>5 DEF dispatch_record, Retained, TypeOK
      <3>2. \A e \in Decisions \ {c.dec} : routes'[e] = routes[e]
        BY <2>5, <3>1 DEF dispatch_record
      <3>3. /\ routes'[c.dec].auth = routes[c.dec].auth /\ routes'[c.dec].seen = routes[c.dec].seen
            /\ routes'[c.dec].via = routes[c.dec].via /\ routes'[c.dec].fresh = routes[c.dec].fresh
            /\ routes'[c.dec].status = "DISPATCHED" /\ routes'[c.dec].dispatch = next_dispatch
        BY <2>5, <3>1 DEF dispatch_record, RouteRecord
      <3>4. \A e \in Decisions : RecordMoves(e)
        BY <2>5, <3>1, <3>2, <3>3 DEF RecordMoves, SameDecision, Staled
      <3> QED
        BY <2>5, <3>4 DEF SameHistory, dispatch_record
    <2>6. CASE reroute_supersede(t)
      <3>1. CASE c.dec \in Retained
        <4>1. SetStatus(c.dec, "SUPERSEDED")
          BY <2>6, <3>1 DEF reroute_supersede
        <4>2. /\ \A e \in Decisions \ {c.dec} : Staled(routes[e], routes'[e])
              /\ SameDecision(routes[c.dec], routes'[c.dec])
              /\ routes'[c.dec].status = "SUPERSEDED"
              /\ routes'[c.dec].dispatch = routes[c.dec].dispatch
          BY <3>1, <4>1, StatusMoves DEF RouteStatus
        <4>3. \A e \in Decisions : RecordMoves(e)
          BY <2>6, <4>2 DEF RecordMoves
        <4> QED
          BY <2>6, <4>3 DEF SameHistory, HistoryUnchanged, reroute_supersede
      <3>2. CASE c.dec \notin Retained
        BY <1>1, <2>6, <3>2 DEF reroute_supersede, HistoryUnchanged
      <3> QED
        BY <3>1, <3>2
    <2>7. CASE Local
      BY <1>2, <2>7
    <2> QED
      BY <1>4, <2>1, <2>2, <2>3, <2>4, <2>5, <2>6, <2>7
      DEF ThreadCall, route, route_discover, route_bind, commit_refused, revalidate,
          revalidate_observe, dispatch, dispatch_revalidate, dispatch_snapshot, dispatch_resolve,
          dispatch_refused, reroute, reroute_fallback, reroute_exhausted, reroute_route
  <1>5. CASE shutdown
    <2>1. routes \in [Decisions -> RouteRecord]
      BY DEF TypeOK
    <2>2. ASSUME NEW d \in Decisions PROVE Staled(routes[d], routes'[d])
      <3>1. routes[d] \in RouteRecord
        BY <2>1
      <3>2. \/ routes'[d] = routes[d]
            \/ routes[d].status = "CURRENT" /\ routes'[d] = [routes[d] EXCEPT !.status = "STALE"]
        BY <1>5 DEF shutdown
      <3> QED
        BY <3>1, <3>2 DEF Staled, SameDecision, RouteRecord
    <2> QED
      BY <1>5, <2>2 DEF shutdown, SameHistory, RecordMoves, HistoryUnchanged
  <1>6. ASSUME NEW x, NEW d, NEW success, record_completion(x, d, success) PROVE SameHistory
    <2> DEFINE target == IF x = 0 THEN d ELSE dispatch_index[x]
               st == completion_status(success)
    <2>1. /\ target \in Retained /\ routes[target].status = "DISPATCHED"
          /\ SetStatus(target, st) /\ HistoryUnchanged
      BY <1>6 DEF record_completion, completable
    <2>2. st \in {"COMPLETED", "FAILED"}
      BY DEF completion_status
    <2> HIDE DEF target, st
    <2>3. /\ \A e \in Decisions \ {target} : Staled(routes[e], routes'[e])
          /\ SameDecision(routes[target], routes'[target])
          /\ routes'[target].status = st
          /\ routes'[target].dispatch = routes[target].dispatch
      BY <2>1, <2>2, StatusMoves DEF RouteStatus
    <2>4. \A e \in Decisions : RecordMoves(e)
      BY <2>1, <2>2, <2>3 DEF RecordMoves
    <2> QED
      BY <2>1, <2>4 DEF SameHistory, HistoryUnchanged
  <1>7. CASE Tick
    BY <1>1, <1>7 DEF Tick, HistoryUnchanged
  <1>8. CASE UNCHANGED vars
    BY <1>1, <1>8 DEF vars
  <1> QED
    BY <1>4, <1>5, <1>6, <1>7, <1>8, CatalogCallRecords DEF Next

-----------------------------------------------------------------------------
(* What one step may do to the calls in progress.                           *)

\* From local state c to n, in a step of the thread they belong to.
CallMoved(c, n) ==
    \/ n.pc \in {"idle", "fallback", "admit", "mark_stale", "publish"}
    \/ n.pc = "discover" /\ n.via = "route"
    \/ n.pc = "bind" /\ c.pc = "discover" /\ n.via = c.via
    \/ n.pc = "commit" /\ c.pc = "bind" /\ n.via = c.via
    \/ n.pc = "commit" /\ n.seen = n.auth.ev
    \/ /\ n.pc = "lookup" /\ n.dec \in Retained /\ n.auth = routes[n.dec].auth
       /\ n.gone => <<n.auth.backend, n.auth.boot>> \in catalog.fenced
    \/ /\ n.pc = "observe" /\ n.dec \in Retained
       /\ ~is_fenced(catalog, routes[n.dec].auth.backend, routes[n.dec].auth.boot)
       /\ n.gone => c.gone /\ c.pc = "lookup" /\ n.dec = c.dec
    \/ /\ <<c.pc, n.pc>> \in {<<"observe", "authorize">>, <<"authorize", "snapshot">>,
                              <<"snapshot", "resolve">>, <<"resolve", "handoff">>}
       /\ n.gone = c.gone
    \/ n.pc = "record" /\ (n.dec \in Decisions => handed'[n.dec] # 0)
    \/ /\ n.pc = "supersede" /\ c.pc = "commit" /\ n.dec = c.dec
       /\ next_decision \in Decisions /\ next_decision' = next_decision + 1
       /\ routes'[next_decision].fresh

\* Steps of route(), up to the refusal of its commit.
LEMMA RouteCalls ==
    ASSUME TypeOK, NEW t \in Threads,
           \/ \E q \in Requests : route(t, q)
           \/ reroute_route(t) \/ route_discover(t) \/ route_bind(t) \/ commit_refused(t)
    PROVE  \E n : Goto(t, n) /\ CallMoved(call[t], n)
  <1> DEFINE c == call[t]
  <1>1. c \in CallState /\ Idle \in CallState /\ Idle.pc = "idle"
    BY DefaultTypes DEF TypeOK, Idle
  <1>2. ASSUME Return(t) PROVE \E n : Goto(t, n) /\ CallMoved(c, n)
    BY <1>1, <1>2 DEF Return, CallMoved
  <1>3. ASSUME NEW k \in CallState, NEW t0
        PROVE  Admitted(k, t0).pc = "discover" /\ Admitted(k, t0).via = "route"
    BY DEF Admitted, CallState
  <1>4. ASSUME NEW q, route(t, q) PROVE \E n : Goto(t, n) /\ CallMoved(c, n)
    <2>1. PICK t0 : Goto(t, Admitted([Idle EXCEPT !.op = "route", !.req = q], t0))
      BY <1>4 DEF route
    <2>2. /\ Admitted([Idle EXCEPT !.op = "route", !.req = q], t0).pc = "discover"
          /\ Admitted([Idle EXCEPT !.op = "route", !.req = q], t0).via = "route"
      BY <1>1 DEF Admitted, CallState
    <2> QED
      BY <2>1, <2>2 DEF CallMoved
  <1>5. CASE reroute_route(t)
    <2>1. ASSUME NEW t0, Goto(t, Admitted(c, t0)) PROVE \E n : Goto(t, n) /\ CallMoved(c, n)
      BY <1>1, <1>3, <2>1 DEF CallMoved
    <2> QED
      BY <1>2, <1>5, <2>1 DEF reroute_route
  <1>6. CASE route_discover(t)
    <2>1. \/ Return(t)
          \/ \E seen, a, fb : Goto(t, [c EXCEPT !.pc = "bind", !.seen = seen, !.auth = a, !.fb = fb])
      BY <1>6 DEF route_discover
    <2>2. ASSUME NEW seen, NEW a, NEW fb,
                 Goto(t, [c EXCEPT !.pc = "bind", !.seen = seen, !.auth = a, !.fb = fb])
          PROVE  \E n : Goto(t, n) /\ CallMoved(c, n)
      <3> DEFINE k == [c EXCEPT !.pc = "bind", !.seen = seen, !.auth = a, !.fb = fb]
      <3>1. k.pc = "bind" /\ k.via = c.via /\ c.pc = "discover"
        BY <1>1, <1>6 DEF CallState, route_discover
      <3> HIDE DEF k
      <3>2. CallMoved(c, k)
        BY <3>1 DEF CallMoved
      <3> QED
        BY <2>2, <3>2 DEF k
    <2> QED
      BY <1>2, <2>1, <2>2
  <1>7. CASE route_bind(t)
    <2> DEFINE k == [c EXCEPT !.pc = "commit", !.auth.ev = bound_evidence(c.auth),
                              !.auth.breg = bound_registration(c.auth)]
    <2>1. k.pc = "commit" /\ k.via = c.via /\ c.pc = "bind"
      BY <1>1, <1>7 DEF CallState, route_bind
    <2>2. Goto(t, k)
      BY <1>7 DEF route_bind
    <2> HIDE DEF k
    <2> QED
      BY <2>1, <2>2 DEF CallMoved
  <1>8. CASE commit_refused(t)
    <2>1. after_commit(c, FALSE).pc \in {"fallback", "idle"}
      BY <1>1 DEF after_commit, CallState
    <2> QED
      BY <1>8, <2>1 DEF commit_refused, CallMoved
  <1> QED
    BY <1>4, <1>5, <1>6, <1>7, <1>8

\* A reroute supersedes only after the decision it committed was CURRENT.
LEMMA CommitCall ==
    ASSUME TypeOK, NEW t \in Threads, commit(t)
    PROVE  \E n : Goto(t, n) /\ CallMoved(call[t], n)
  <1> DEFINE c == call[t]
             current == is_authority_dispatchable(catalog, c.auth, c.now)
             n == after_commit(c, current)
  <1>1. c \in CallState /\ Idle.pc = "idle"
    BY DEF TypeOK, Idle
  <1>2. /\ next_decision \in Decisions /\ next_decision' = next_decision + 1
        /\ routes'[next_decision].fresh = current /\ c.pc = "commit" /\ Goto(t, n)
    BY DEF commit, allocate
  <1>3. CASE c.op = "reroute" /\ current
    <2>1. n = [c EXCEPT !.pc = "supersede"]
      BY <1>3 DEF after_commit
    <2>2. n.pc = "supersede" /\ n.dec = c.dec
      BY <1>1, <2>1 DEF CallState
    <2> HIDE DEF n
    <2> QED
      BY <1>2, <1>3, <2>2 DEF CallMoved
  <1>4. CASE ~(c.op = "reroute" /\ current)
    <2>1. n = Idle \/ n = [c EXCEPT !.pc = "fallback"]
      BY <1>4 DEF after_commit
    <2>2. n.pc \in {"idle", "fallback"}
      BY <1>1, <2>1 DEF CallState
    <2> HIDE DEF n
    <2> QED
      BY <1>2, <2>2 DEF CallMoved
  <1> QED
    BY <1>3, <1>4

\* revalidate() takes up a retained decision that is not fenced, and goes on to
\* the next critical section with the call's gone flag as it was.
LEMMA RevalidateCalls ==
    ASSUME TypeOK, NEW t \in Threads,
           \/ \E d \in Decisions : revalidate(t, d)
           \/ dispatch_revalidate(t) \/ revalidate_observe(t)
           \/ revalidate_mark_stale(t) \/ revalidate_authorize(t)
    PROVE  \E n : Goto(t, n) /\ CallMoved(call[t], n)
  <1> DEFINE c == call[t]
  <1>1. c \in CallState /\ Idle \in CallState /\ Idle.pc = "idle" /\ Idle.gone = FALSE
    BY DefaultTypes DEF TypeOK, Idle
  <1>2. ASSUME Return(t) PROVE \E n : Goto(t, n) /\ CallMoved(c, n)
    BY <1>1, <1>2 DEF Return, CallMoved
  <1>3. ASSUME NEW k \in CallState, NEW d, Lookup(t, k, d),
               k.gone => c.gone /\ c.pc = "lookup" /\ d = c.dec
        PROVE  \E n : Goto(t, n) /\ CallMoved(c, n)
    <2>1. CASE shutting_down \/ d \notin Retained \/ routes[d].status \in Terminal
      BY <1>2, <1>3, <2>1 DEF Lookup
    <2>2. CASE ~(shutting_down \/ d \notin Retained \/ routes[d].status \in Terminal)
      <3> DEFINE a == routes[d].auth
                 n == [k EXCEPT !.dec = d, !.auth = a, !.now = now,
                                !.pc = IF is_fenced(catalog, a.backend, a.boot)
                                       THEN "mark_stale" ELSE "observe"]
      <3>1. Goto(t, n)
        BY <1>3, <2>2 DEF Lookup
      <3>2. /\ n.dec = d /\ n.gone = k.gone
            /\ n.pc = IF is_fenced(catalog, a.backend, a.boot) THEN "mark_stale" ELSE "observe"
        BY DEF CallState
      <3> HIDE DEF n
      <3> QED
        BY <1>3, <2>2, <3>1, <3>2 DEF CallMoved
    <2> QED
      BY <2>1, <2>2
  <1>4. ASSUME NEW d, revalidate(t, d) PROVE \E n : Goto(t, n) /\ CallMoved(c, n)
    <2> DEFINE k == [Idle EXCEPT !.op = "revalidate"]
    <2>1. k \in CallState /\ k.gone = FALSE /\ Lookup(t, k, d)
      BY <1>1, <1>4 DEF CallState, Calls, revalidate
    <2> HIDE DEF k
    <2> QED
      BY <1>3, <2>1
  <1>5. CASE dispatch_revalidate(t)
    BY <1>1, <1>3, <1>5 DEF dispatch_revalidate
  <1>6. CASE revalidate_observe(t)
    <2>1. \/ \E t0, cmp : Goto(t, [c EXCEPT !.pc = "authorize", !.now = t0, !.cmp = cmp])
          \/ Goto(t, [c EXCEPT !.pc = "mark_stale"])
      BY <1>6 DEF revalidate_observe
    <2>2. ASSUME NEW t0, NEW cmp, Goto(t, [c EXCEPT !.pc = "authorize", !.now = t0, !.cmp = cmp])
          PROVE  \E n : Goto(t, n) /\ CallMoved(c, n)
      <3> DEFINE n == [c EXCEPT !.pc = "authorize", !.now = t0, !.cmp = cmp]
      <3>1. n.pc = "authorize" /\ n.gone = c.gone /\ c.pc = "observe"
        BY <1>1, <1>6 DEF CallState, revalidate_observe
      <3> HIDE DEF n
      <3>2. CallMoved(c, n)
        BY <3>1 DEF CallMoved
      <3> QED
        BY <2>2, <3>2 DEF n
    <2>3. [c EXCEPT !.pc = "mark_stale"].pc = "mark_stale"
      BY <1>1 DEF CallState
    <2> QED
      BY <2>1, <2>2, <2>3 DEF CallMoved
  <1>7. CASE revalidate_mark_stale(t)
    BY <1>2, <1>7 DEF revalidate_mark_stale
  <1>8. CASE revalidate_authorize(t)
    <2> DEFINE n == [c EXCEPT !.pc = "snapshot"]
    <2>1. n.pc = "snapshot" /\ n.gone = c.gone /\ c.pc = "authorize"
      BY <1>1, <1>8 DEF CallState, revalidate_authorize
    <2>2. Return(t) \/ Goto(t, n)
      BY <1>8 DEF revalidate_authorize
    <2> HIDE DEF n
    <2> QED
      BY <1>2, <2>1, <2>2 DEF CallMoved
  <1> QED
    BY <1>4, <1>5, <1>6, <1>7, <1>8

\* dispatch() copies its record's authority and notes whether it is fenced; it
\* records a dispatch only after a handoff.
LEMMA DispatchCalls ==
    ASSUME TypeOK, NEW t \in Threads,
           \/ \E d \in Decisions : dispatch(t, d)
           \/ dispatch_snapshot(t) \/ dispatch_resolve(t) \/ dispatch_refused(t)
           \/ \E accepted \in BOOLEAN : dispatch_handoff(t, accepted)
           \/ dispatch_record(t)
    PROVE  \E n : Goto(t, n) /\ CallMoved(call[t], n)
  <1> DEFINE c == call[t]
  <1>1. c \in CallState /\ Idle \in CallState /\ Idle.pc = "idle"
    BY DefaultTypes DEF TypeOK, Idle
  <1>2. ASSUME Return(t) PROVE \E n : Goto(t, n) /\ CallMoved(c, n)
    BY <1>1, <1>2 DEF Return, CallMoved
  <1>3. ASSUME NEW d, dispatch(t, d) PROVE \E n : Goto(t, n) /\ CallMoved(c, n)
    <2> DEFINE a == routes[d].auth
               g == <<a.backend, a.boot>> \in catalog.fenced
               n == [Idle EXCEPT !.op = "dispatch", !.pc = "lookup", !.dec = d, !.auth = a,
                                 !.gone = g]
    <2>1. Goto(t, n) /\ d \in Retained
      BY <1>3 DEF dispatch
    <2>2. n.pc = "lookup" /\ n.dec = d /\ n.auth = a /\ n.gone = g
      BY <1>1 DEF CallState
    <2> HIDE DEF n
    <2> QED
      BY <2>1, <2>2 DEF CallMoved
  <1>4. CASE dispatch_snapshot(t)
    <2> DEFINE n == [c EXCEPT !.pc = "resolve", !.snap = catalog.snap,
                              !.epoch = catalog.epoch, !.now = now]
    <2>1. Goto(t, n) /\ c.pc = "snapshot"
      BY <1>4 DEF dispatch_snapshot
    <2>2. n.pc = "resolve" /\ n.gone = c.gone
      BY <1>1 DEF CallState
    <2> HIDE DEF n
    <2> QED
      BY <2>1, <2>2 DEF CallMoved
  <1>5. CASE dispatch_resolve(t)
    <2> DEFINE n == [c EXCEPT !.pc = "handoff"]
    <2>1. (Goto(t, n) \/ Return(t)) /\ c.pc = "resolve"
      BY <1>5 DEF dispatch_resolve
    <2>2. n.pc = "handoff" /\ n.gone = c.gone
      BY <1>1 DEF CallState
    <2> HIDE DEF n
    <2> QED
      BY <1>2, <2>1, <2>2 DEF CallMoved
  <1>6. ASSUME NEW accepted, dispatch_handoff(t, accepted)
        PROVE  \E n : Goto(t, n) /\ CallMoved(c, n)
    <2> DEFINE n == [c EXCEPT !.pc = "record"]
    <2>1. Goto(t, n) \/ Return(t)
      BY <1>6 DEF dispatch_handoff
    <2>2. n.pc = "record" /\ n.dec = c.dec
      BY <1>1 DEF CallState
    <2>3. ASSUME c.dec \in Decisions PROVE handed'[c.dec] # 0
      <3>1. handed[c.dec] \in 0..2 /\ handed \in [Decisions -> 0..2]
        BY <2>3 DEF TypeOK
      <3>2. handed'[c.dec] = IF handed[c.dec] < 2 THEN handed[c.dec] + 1 ELSE handed[c.dec]
        BY <1>6, <2>3, <3>1 DEF dispatch_handoff
      <3> QED
        BY <3>1, <3>2
    <2> HIDE DEF n
    <2> QED
      BY <1>2, <2>1, <2>2, <2>3 DEF CallMoved
  <1>7. CASE dispatch_refused(t) \/ dispatch_record(t)
    BY <1>2, <1>7 DEF dispatch_refused, dispatch_record
  <1> QED
    BY <1>3, <1>4, <1>5, <1>6, <1>7

\* The fallback walk commits what it judged.
LEMMA RerouteCalls ==
    ASSUME TypeOK, NEW t \in Threads,
           \/ \E d \in Decisions, q \in Requests : reroute(t, d, q)
           \/ reroute_fallback(t) \/ reroute_exhausted(t) \/ reroute_supersede(t)
    PROVE  \E n : Goto(t, n) /\ CallMoved(call[t], n)
  <1> DEFINE c == call[t]
  <1>1. c \in CallState /\ Idle \in CallState /\ Idle.pc = "idle"
    BY DefaultTypes DEF TypeOK, Idle
  <1>2. ASSUME NEW d, NEW q, reroute(t, d, q) PROVE \E n : Goto(t, n) /\ CallMoved(c, n)
    <2> DEFINE n == [Idle EXCEPT !.op = "reroute", !.pc = "fallback", !.dec = d, !.req = q,
                                 !.epoch = catalog.epoch, !.now = now, !.snap = catalog.snap,
                                 !.rest = routes[d].fallbacks, !.fb = routes[d].fallbacks]
    <2>1. n.pc = "fallback"
      BY <1>1 DEF CallState
    <2>2. Goto(t, n)
      BY <1>2 DEF reroute
    <2> HIDE DEF n
    <2> QED
      BY <2>1, <2>2 DEF CallMoved
  <1>3. CASE reroute_fallback(t)
    <2> DEFINE b    == Head(c.rest).backend
               gens == Generations(catalog.backends[b])
               a    == authority(c, b, catalog.backends[b].reg, gens)
               next == [c EXCEPT !.rest = Tail(@)]
               n    == [next EXCEPT !.pc = after_judging, !.via = "fallback", !.auth = a,
                                    !.seen = gens]
    <2>1. (Goto(t, next) \/ Goto(t, n)) /\ c.pc = "fallback"
      BY <1>3 DEF reroute_fallback
    <2>2. a.ev = gens
      BY DEF authority
    <2> HIDE DEF a, gens
    <2>3. next.pc = c.pc /\ n.pc = "commit" /\ n.auth = a /\ n.seen = gens
      BY <1>1 DEF CallState, after_judging
    <2> HIDE DEF next, n
    <2> QED
      BY <2>1, <2>2, <2>3 DEF CallMoved
  <1>4. CASE reroute_exhausted(t)
    <2>1. [c EXCEPT !.pc = "admit"].pc = "admit"
      BY <1>1 DEF CallState
    <2> QED
      BY <1>4, <2>1 DEF reroute_exhausted, CallMoved
  <1>5. CASE reroute_supersede(t)
    BY <1>1, <1>5 DEF reroute_supersede, Return, CallMoved
  <1> QED
    BY <1>2, <1>3, <1>4, <1>5

\* A catalog mutation touches no call, no id and no history list.
LEMMA CatalogCallRest ==
    ASSUME CatalogCall
    PROVE  RestUnchanged
  <1>1. ASSUME NEW b, NEW boot, NEW erase, Retire(b, boot, erase) PROVE RestUnchanged
    BY <1>1 DEF Retire
  <1>2. ASSUME NEW b, unregister_backend(b) PROVE RestUnchanged
    BY <1>1, <1>2 DEF unregister_backend
  <1>3. ASSUME NEW b, NEW g, NEW boot, fence_backend_boot(b, g, boot) PROVE RestUnchanged
    BY <1>1, <1>3 DEF fence_backend_boot
  <1>4. ASSUME NEW b, NEW e, set_trust(b, e) PROVE RestUnchanged
    BY <1>4 DEF set_trust
  <1>5. ASSUME NEW g, NEW life, register_model(g, life) PROVE RestUnchanged
    BY <1>5 DEF register_model
  <1>6. ASSUME retire_model PROVE RestUnchanged
    BY <1>6 DEF retire_model
  <1>7. ASSUME NEW b, NEW d, register_backend(b, d) PROVE RestUnchanged
    BY <1>7 DEF register_backend
  <1>8. ASSUME NEW b, NEW k, NEW boot, NEW e, NEW t0, apply_evidence(b, k, boot, e, t0)
        PROVE  RestUnchanged
    BY <1>8 DEF apply_evidence
  <1>9. ASSUME NEW b, NEW boot, update_latency(b, boot) PROVE RestUnchanged
    BY <1>9 DEF update_latency
  <1>10. ASSUME NEW b, NEW e, set_cost(b, e) PROVE RestUnchanged
    BY <1>10 DEF set_cost
  <1>11. ASSUME NEW s, NEW g, NEW deny, set_snapshot(s, g, deny) PROVE RestUnchanged
    BY <1>11 DEF set_snapshot
  <1> QED
    BY <1>2, <1>3, <1>4, <1>5, <1>6, <1>7, <1>8, <1>9, <1>10, <1>11 DEF CatalogCall

\* Every step leaves a call alone or moves it as CallMoved says.
LEMMA CallStep ==
    ASSUME TypeOK, [Next]_vars, NEW u \in Threads
    PROVE  call'[u] = call[u] \/ CallMoved(call[u], call'[u])
  <1>1. ASSUME NEW t \in Threads, ThreadCall(t)
        PROVE  call'[u] = call[u] \/ CallMoved(call[u], call'[u])
    <2>1. CASE start(t) \/ start_publish(t)
      <3> DEFINE s == [Idle EXCEPT !.pc = "publish", !.op = "start"]
      <3>1. s.pc = "publish" /\ Idle.pc = "idle"
        BY DefaultTypes DEF Idle, CallState
      <3>2. Goto(t, s) \/ Goto(t, Idle)
        BY <2>1 DEF start, start_publish, Return
      <3> HIDE DEF s
      <3> QED
        BY <3>1, <3>2 DEF Goto, CallMoved, TypeOK
    <2>2. ASSUME \E n : Goto(t, n) /\ CallMoved(call[t], n)
          PROVE  call'[u] = call[u] \/ CallMoved(call[u], call'[u])
      <3>1. PICK n : Goto(t, n) /\ CallMoved(call[t], n)
        BY <2>2
      <3>2. call'[u] = IF u = t THEN n ELSE call[u]
        BY <3>1 DEF Goto, TypeOK
      <3> QED
        BY <3>1, <3>2
    <2> QED
      BY <1>1, <2>1, <2>2, RouteCalls, CommitCall, RevalidateCalls, DispatchCalls, RerouteCalls
      DEF ThreadCall
  <1>2. CASE CatalogCall
    BY <1>2, CatalogCallRest DEF RestUnchanged
  <1>3. CASE shutdown \/ Tick \/ UNCHANGED vars
    BY <1>3 DEF shutdown, Tick, vars
  <1>4. ASSUME NEW x, NEW d, NEW success, record_completion(x, d, success)
        PROVE  call'[u] = call[u]
    BY <1>4 DEF record_completion
  <1> QED
    BY <1>1, <1>2, <1>3, <1>4 DEF Next

-----------------------------------------------------------------------------
(* The invariants.                                                          *)

\* FallbackJudged relates fields that a record never changes; the call that is
\* about to commit a fallback has them related already, and only the fallback walk
\* reaches a commit with via = "fallback".
FallbackCall(c) ==
    /\ c.pc \in {"discover", "bind"} => c.via = "route"
    /\ c.pc = "commit" /\ c.via = "fallback" => c.seen = c.auth.ev
FallbackInv ==
    /\ \A t \in Threads : FallbackCall(call[t])
    /\ \A d \in Retained : routes[d].via = "fallback" => routes[d].seen = routes[d].auth.ev

\* A newer decision was committed as CURRENT, and may be evicted since.
Replaced(d) ==
    \E e \in Decisions : d < e /\ e < next_decision /\ (routes[e].fresh \/ e \notin Retained)
ReplacedInv ==
    /\ SupersededWasReplaced
    /\ \A t \in Threads : call[t].pc = "supersede" => Replaced(call[t].dec)

\* A dispatch that began after the fence does not pass its own revalidation: until
\* then it holds the authority of its record, whose incarnation stays fenced.
GoneCall(c) ==
    /\ c.pc \in {"observe", "authorize", "snapshot", "resolve", "handoff"} => ~c.gone
    /\ c.pc = "lookup" /\ c.gone =>
          /\ <<c.auth.backend, c.auth.boot>> \in catalog.fenced
          /\ c.dec \in Retained => c.auth = routes[c.dec].auth
GoneInv == \A t \in Threads : GoneCall(call[t])

\* Dispatch ids are issued once, and a call reaches its recording step only
\* through the handoff.
TraceableInv ==
    /\ CompletionTraceable
    /\ \A d \in Decisions : routes[d].status \in {"DISPATCHED", "COMPLETED", "FAILED"} =>
          routes[d].dispatch < next_dispatch
    /\ \A t \in Threads : call[t].pc = "record" /\ call[t].dec \in Decisions =>
          handed[call[t].dec] # 0

HistoryInv == FallbackInv /\ ReplacedInv /\ GoneInv /\ TraceableInv /\ HistoryConsistent

-----------------------------------------------------------------------------
(* Every step keeps the invariants.                                         *)

\* A commit inserts one record under an id that is not in use and evicts others.
LEMMA CommitFacts ==
    ASSUME TypeOK, BoundInv, NEW t \in Threads, commit(t)
    PROVE  /\ next_decision \in Decisions /\ next_decision \notin Retained
           /\ next_decision' = next_decision + 1
           /\ \A d \in Decisions \ {next_decision} : routes'[d] = routes[d] \/ routes'[d] = NoRoute
           /\ routes'[next_decision].auth = call[t].auth
           /\ routes'[next_decision].seen = call[t].seen
           /\ routes'[next_decision].via = call[t].via
           /\ routes'[next_decision].status \in {"CURRENT", "STALE"}
           /\ call[t].pc = "commit"
           /\ handed' = handed /\ dispatch_index' = dispatch_index /\ next_dispatch' = next_dispatch
  <1>1. next_decision \in Decisions /\ next_decision \in Nat
    BY DEF commit, TypeOK
  <1>2. next_decision \notin Retained
    BY <1>1 DEF BoundInv, Allocated
  <1> QED
    BY <1>1, <1>2 DEF commit, allocate

\* As long as an id stays retained it names the same decision, whatever is
\* committed or evicted.
LEMMA DecisionKept ==
    ASSUME TypeOK, BoundInv, [Next]_vars, NEW d \in Decisions, d < next_decision
    PROVE  SameDecision(routes[d], routes'[d]) \/ routes'[d] = NoRoute
  <1>1. CASE SameHistory
    BY <1>1 DEF SameHistory, RecordMoves, Staled
  <1>2. ASSUME NEW t \in Threads, commit(t)
        PROVE  SameDecision(routes[d], routes'[d]) \/ routes'[d] = NoRoute
    <2>1. d # next_decision
      BY DEF TypeOK, Decisions
    <2> QED
      BY <1>2, <2>1, CommitFacts DEF SameDecision
  <1> QED
    BY <1>1, <1>2, RecordStep

\* The fallback path commits exactly what it judged.
LEMMA FallbackStep ==
    ASSUME TypeOK, BoundInv, FallbackInv, [Next]_vars
    PROVE  FallbackInv'
  <1>1. ASSUME NEW u \in Threads PROVE FallbackCall(call'[u])
    <2>1. CASE call'[u] = call[u]
      BY <2>1 DEF FallbackInv
    <2>2. CASE CallMoved(call[u], call'[u])
      BY <2>2 DEF FallbackInv, FallbackCall, CallMoved
    <2> QED
      BY <2>1, <2>2, CallStep
  <1>2. ASSUME NEW d \in Retained', routes'[d].via = "fallback"
        PROVE  routes'[d].seen = routes'[d].auth.ev
    <2>1. CASE SameHistory
      <3>1. SameDecision(routes[d], routes'[d]) /\ d \in Retained
        BY <2>1 DEF SameHistory, RecordMoves, Staled, SameDecision, Retained
      <3> QED
        BY <1>2, <3>1 DEF FallbackInv, SameDecision
    <2>2. ASSUME NEW t \in Threads, commit(t) PROVE routes'[d].seen = routes'[d].auth.ev
      <3>1. CASE d = next_decision
        <4>1. /\ routes'[d].auth = call[t].auth /\ routes'[d].seen = call[t].seen
              /\ routes'[d].via = call[t].via /\ call[t].pc = "commit"
          BY <2>2, <3>1, CommitFacts
        <4> QED
          BY <1>2, <4>1 DEF FallbackInv, FallbackCall
      <3>2. CASE d # next_decision
        <4>1. d \in Decisions /\ routes'[d].status # "ABSENT"
          BY DEF Retained
        <4>2. routes'[d] = routes[d]
          BY <2>2, <3>2, <4>1, CommitFacts DEF NoRoute
        <4>3. d \in Retained
          BY <4>1, <4>2 DEF Retained
        <4> QED
          BY <1>2, <4>2, <4>3 DEF FallbackInv
      <3> QED
        BY <3>1, <3>2
    <2> QED
      BY <2>1, <2>2, RecordStep
  <1> QED
    BY <1>1, <1>2 DEF FallbackInv

\* A replacement stays one: its record keeps the fresh flag until it is evicted,
\* and its id is not issued again.
LEMMA ReplacedStays ==
    ASSUME TypeOK, BoundInv, [Next]_vars, NEW d \in Nat, Replaced(d)
    PROVE  Replaced(d)'
  <1>1. PICK e \in Decisions : d < e /\ e < next_decision /\ (routes[e].fresh \/ e \notin Retained)
    BY DEF Replaced
  <1>2. next_decision' \in Nat /\ next_decision <= next_decision' /\ next_decision \in Nat
    <2>1. CASE SameHistory
      BY <2>1 DEF SameHistory, TypeOK
    <2>2. ASSUME NEW t \in Threads, commit(t)
          PROVE  next_decision' \in Nat /\ next_decision <= next_decision'
      BY <2>2, CommitFacts DEF TypeOK
    <2> QED
      BY <2>1, <2>2, RecordStep DEF TypeOK
  <1>3. e < next_decision'
    BY <1>1, <1>2 DEF Decisions
  <1>4. routes'[e].fresh \/ e \notin Retained'
    <2>1. SameDecision(routes[e], routes'[e]) \/ routes'[e] = NoRoute
      BY <1>1, DecisionKept
    <2> QED
      BY <1>1, <2>1 DEF SameDecision, NoRoute, Retained
  <1> QED
    BY <1>1, <1>3, <1>4 DEF Replaced

\* A decision reads SUPERSEDED only once it was replaced.
LEMMA ReplacedStep ==
    ASSUME TypeOK, BoundInv, ReplacedInv, [Next]_vars
    PROVE  ReplacedInv'
  <1>1. ASSUME NEW u \in Threads, call'[u].pc = "supersede" PROVE Replaced(call[u].dec)'
    <2>1. call[u].dec \in Nat /\ call[u].dec < next_decision
      BY DEF BoundInv, Allocated, TypeOK, CallState
    <2>2. CASE call'[u] = call[u]
      BY <1>1, <2>1, <2>2, ReplacedStays DEF ReplacedInv
    <2>3. CASE CallMoved(call[u], call'[u])
      <3>1. /\ call'[u].dec = call[u].dec
            /\ next_decision \in Decisions /\ next_decision' = next_decision + 1
            /\ routes'[next_decision].fresh
        BY <1>1, <2>3 DEF CallMoved
      <3>2. next_decision < next_decision'
        BY <3>1 DEF TypeOK
      <3> QED
        BY <2>1, <3>1, <3>2 DEF Replaced
    <2> QED
      BY <2>2, <2>3, CallStep
  <1>2. ASSUME NEW d \in Decisions, routes'[d].status = "SUPERSEDED" PROVE Replaced(d)'
    <2>1. d \in Nat
      BY DEF Decisions
    <2>2. ASSUME routes[d].status = "SUPERSEDED" PROVE Replaced(d)'
      BY <2>1, <2>2, ReplacedStays DEF ReplacedInv, SupersededWasReplaced, Replaced
    <2>3. CASE SameHistory
      <3>1. CASE Staled(routes[d], routes'[d])
        BY <1>2, <2>2, <3>1 DEF Staled
      <3>2. ASSUME NEW t \in Threads, reroute_supersede(t), d = call[t].dec PROVE Replaced(d)'
        <4>1. call[t].pc = "supersede"
          BY <3>2 DEF reroute_supersede
        <4> QED
          BY <2>1, <3>2, <4>1, ReplacedStays DEF ReplacedInv
      <3> QED
        BY <1>2, <2>3, <3>1, <3>2 DEF SameHistory, RecordMoves
    <2>4. ASSUME NEW t \in Threads, commit(t) PROVE Replaced(d)'
      <3>1. d # next_decision /\ routes'[d] # NoRoute
        BY <1>2, <2>4, CommitFacts DEF NoRoute
      <3> QED
        BY <1>2, <2>2, <2>4, <3>1, CommitFacts
    <2> QED
      BY <2>3, <2>4, RecordStep
  <1> QED
    BY <1>1, <1>2 DEF ReplacedInv, SupersededWasReplaced, Replaced

\* A dispatch that begins after its incarnation is fenced does not get past its
\* lookup: the fence is still there, and the record still binds the incarnation.
LEMMA GoneStep ==
    ASSUME TypeOK, BoundInv, GoneInv, [Next]_vars
    PROVE  GoneInv'
  <1> SUFFICES ASSUME NEW u \in Threads PROVE GoneCall(call[u])'
    BY DEF GoneInv
  <1>1. catalog.fenced \subseteq catalog'.fenced
    BY StepAdvances DEF Advances
  <1>2. ASSUME NEW d \in Retained' \cap Retained PROVE routes'[d].auth = routes[d].auth
    <2>1. d \in Decisions /\ d < next_decision /\ routes'[d].status # "ABSENT"
      BY DEF Retained, BoundInv, Allocated
    <2> QED
      BY <2>1, DecisionKept DEF SameDecision, NoRoute
  <1>3. ASSUME NEW d \in Retained', d < next_decision PROVE d \in Retained
    <2>1. d \in Decisions /\ routes'[d].status # "ABSENT"
      BY DEF Retained
    <2> QED
      BY <1>3, <2>1, DecisionKept DEF SameDecision, NoRoute, Retained
  <1>4. CASE call'[u] = call[u]
    <2>1. call[u].dec < next_decision
      BY DEF BoundInv, Allocated
    <2> QED
      BY <1>1, <1>2, <1>3, <1>4, <2>1 DEF GoneInv, GoneCall
  <1>5. CASE CallMoved(call[u], call'[u])
    <2>1. CASE call'[u].pc = "lookup"
      <3>1. /\ call'[u].dec \in Retained /\ call'[u].auth = routes[call'[u].dec].auth
            /\ call'[u].gone =>
                  <<call'[u].auth.backend, call'[u].auth.boot>> \in catalog.fenced
        BY <1>5, <2>1 DEF CallMoved
      <3> QED
        BY <1>1, <1>2, <2>1, <3>1 DEF GoneCall
    <2>2. CASE call'[u].pc = "observe"
      <3>1. /\ call'[u].dec \in Retained
            /\ LET a == routes[call'[u].dec].auth IN <<a.backend, a.boot>> \notin catalog.fenced
            /\ call'[u].gone => call[u].gone /\ call[u].pc = "lookup" /\ call'[u].dec = call[u].dec
        BY <1>5, <2>2 DEF CallMoved, is_fenced
      <3>2. call[u].pc = "lookup" /\ call'[u].dec = call[u].dec => ~call[u].gone
        BY <3>1 DEF GoneInv, GoneCall
      <3> QED
        BY <2>2, <3>1, <3>2 DEF GoneCall
    <2>3. CASE call'[u].pc \in {"authorize", "snapshot", "resolve", "handoff"}
      BY <1>5, <2>3 DEF CallMoved, GoneInv, GoneCall
    <2> QED
      BY <2>1, <2>2, <2>3 DEF GoneCall
  <1> QED
    BY <1>4, <1>5, CallStep

\* The dispatch ledger moves only in dispatch_record, which issues a fresh id, and
\* a handoff is never forgotten.
LEMMA LedgerStep ==
    ASSUME TypeOK, [Next]_vars
    PROVE  /\ \/ dispatch_index' = dispatch_index /\ next_dispatch' = next_dispatch
              \/ \E t \in Threads : dispatch_record(t)
           /\ \A d \in Decisions : handed[d] # 0 => handed'[d] # 0
  <1>1. ASSUME HistoryUnchanged
        PROVE  dispatch_index' = dispatch_index /\ next_dispatch' = next_dispatch /\ handed' = handed
    BY <1>1 DEF HistoryUnchanged
  <1>2. ASSUME NEW t \in Threads, ThreadCall(t), ~dispatch_record(t)
        PROVE  /\ dispatch_index' = dispatch_index /\ next_dispatch' = next_dispatch
               /\ \A d \in Decisions : handed[d] # 0 => handed'[d] # 0
    <2>1. ASSUME NEW accepted, dispatch_handoff(t, accepted)
          PROVE  /\ dispatch_index' = dispatch_index /\ next_dispatch' = next_dispatch
                 /\ \A d \in Decisions : handed[d] # 0 => handed'[d] # 0
      <3>1. dispatch_index' = dispatch_index /\ next_dispatch' = next_dispatch
        BY <2>1 DEF dispatch_handoff
      <3>2. ASSUME NEW d \in Decisions, handed[d] # 0 PROVE handed'[d] # 0
        <4>1. handed \in [Decisions -> 0..2]
          BY DEF TypeOK
        <4>2. handed' = [handed EXCEPT ![call[t].dec] = IF @ < 2 THEN @ + 1 ELSE @]
          BY <2>1 DEF dispatch_handoff
        <4> QED
          BY <3>2, <4>1, <4>2
      <3> QED
        BY <3>1, <3>2
    <2>2. ASSUME Local
          PROVE  dispatch_index' = dispatch_index /\ next_dispatch' = next_dispatch /\ handed' = handed
      BY <1>1, <2>2 DEF Local
    <2>3. CASE commit(t)
      BY <2>3 DEF commit
    <2>4. CASE \/ start(t) \/ start_publish(t) \/ revalidate_mark_stale(t)
               \/ revalidate_authorize(t) \/ reroute_supersede(t)
      BY <1>1, <2>4
      DEF start, start_publish, revalidate_mark_stale, revalidate_authorize, reroute_supersede
    <2>5. CASE Local
      BY <2>2, <2>5
    <2> QED
      BY <1>2, <2>1, <2>3, <2>4, <2>5
      DEF ThreadCall, route, route_discover, route_bind, commit_refused, revalidate,
          revalidate_observe, dispatch, dispatch_revalidate, dispatch_snapshot, dispatch_resolve,
          dispatch_refused, reroute, reroute_fallback, reroute_exhausted, reroute_route
  <1>3. ASSUME NEW t \in Threads, dispatch_record(t) PROVE handed' = handed
    BY <1>3 DEF dispatch_record
  <1>4. CASE CatalogCall
    BY <1>4, CatalogCallRest DEF RestUnchanged
  <1>5. CASE shutdown \/ Tick
    BY <1>1, <1>5 DEF shutdown, Tick
  <1>6. ASSUME NEW x, NEW d, NEW success, record_completion(x, d, success)
        PROVE  dispatch_index' = dispatch_index /\ next_dispatch' = next_dispatch /\ handed' = handed
    BY <1>1, <1>6 DEF record_completion
  <1>7. CASE UNCHANGED vars
    BY <1>7 DEF vars
  <1> QED
    BY <1>2, <1>3, <1>4, <1>5, <1>6, <1>7 DEF Next

\* What TraceableInv says of one decision.
Traceable(d) ==
    /\ routes[d].dispatch \in Dispatches /\ routes[d].dispatch < next_dispatch
    /\ dispatch_index[routes[d].dispatch] = d
    /\ handed[d] # 0

\* A decision that was dispatched stays traceable while its dispatch id is its own.
LEMMA TraceableStays ==
    ASSUME TypeOK, [Next]_vars, NEW d \in Decisions, Traceable(d),
           routes'[d].dispatch = routes[d].dispatch
    PROVE  Traceable(d)'
  <1>1. handed'[d] # 0
    BY LedgerStep DEF Traceable
  <1>2. CASE dispatch_index' = dispatch_index /\ next_dispatch' = next_dispatch
    BY <1>1, <1>2 DEF Traceable
  <1>3. ASSUME NEW t \in Threads, dispatch_record(t) PROVE Traceable(d)'
    <2>1. /\ next_dispatch \in Nat /\ next_dispatch' = next_dispatch + 1
          /\ dispatch_index' = [dispatch_index EXCEPT ![next_dispatch] = call[t].dec]
      BY <1>3 DEF dispatch_record, allocate, TypeOK
    <2>2. routes[d].dispatch \in Nat /\ routes[d].dispatch # next_dispatch
      BY <2>1 DEF Traceable, Dispatches
    <2>3. routes[d].dispatch < next_dispatch'
      BY <2>1, <2>2 DEF Traceable
    <2>4. dispatch_index'[routes[d].dispatch] = d
      BY <2>1, <2>2 DEF Traceable, TypeOK
    <2> QED
      BY <1>1, <2>3, <2>4 DEF Traceable
  <1> QED
    BY <1>2, <1>3, LedgerStep

\* A record reads DISPATCHED only after its call's handoff, and COMPLETED or
\* FAILED only after DISPATCHED.
LEMMA TraceableStep ==
    ASSUME TypeOK, BoundInv, TraceableInv, [Next]_vars
    PROVE  TraceableInv'
  <1> DEFINE Done == {"DISPATCHED", "COMPLETED", "FAILED"}
  <1>1. \A d \in Decisions : routes[d].status \in Done => Traceable(d)
    BY DEF TraceableInv, CompletionTraceable, Traceable
  <1>2. ASSUME NEW d \in Decisions, routes'[d].status \in Done PROVE Traceable(d)'
    <2>1. CASE SameHistory
      <3>1. CASE routes[d].status \in Done /\ routes'[d].dispatch = routes[d].dispatch
        BY <1>1, <3>1, TraceableStays
      <3>2. ASSUME NEW t \in Threads, dispatch_record(t), d = call[t].dec,
                   routes'[d].dispatch = next_dispatch
            PROVE  Traceable(d)'
        <4>1. handed[d] # 0
          BY <3>2 DEF TraceableInv, dispatch_record
        <4>2. /\ next_dispatch \in Dispatches /\ next_dispatch' = next_dispatch + 1
              /\ dispatch_index' = [dispatch_index EXCEPT ![next_dispatch] = d]
          BY <3>2 DEF dispatch_record, allocate
        <4>3. next_dispatch < next_dispatch'
          BY <4>2 DEF TypeOK
        <4>4. dispatch_index'[next_dispatch] = d
          BY <4>2 DEF TypeOK
        <4>5. handed'[d] # 0
          BY <4>1, LedgerStep
        <4> QED
          BY <3>2, <4>2, <4>3, <4>4, <4>5 DEF Traceable
      <3> QED
        BY <1>2, <2>1, <3>1, <3>2 DEF SameHistory, RecordMoves, Staled
    <2>2. ASSUME NEW t \in Threads, commit(t) PROVE Traceable(d)'
      <3>1. routes'[d] = routes[d]
        BY <1>2, <2>2, CommitFacts DEF NoRoute
      <3> QED
        BY <1>1, <1>2, <3>1, TraceableStays
    <2> QED
      BY <2>1, <2>2, RecordStep
  <1>3. ASSUME NEW u \in Threads, call'[u].pc = "record", call'[u].dec \in Decisions
        PROVE  handed'[call'[u].dec] # 0
    <2>1. CASE call'[u] = call[u]
      BY <1>3, <2>1, LedgerStep DEF TraceableInv
    <2>2. CASE CallMoved(call[u], call'[u])
      BY <1>3, <2>2 DEF CallMoved
    <2> QED
      BY <2>1, <2>2, CallStep
  <1> QED
    BY <1>2, <1>3 DEF TraceableInv, CompletionTraceable, Traceable

\* The positions of the history list after a commit: the survivors, then the new id.
LEMMA OrderAfterCommit ==
    ASSUME TypeOK, NEW t \in Threads, commit(t)
    PROVE  LET x == excess(route_order)
               n == Len(route_order)
           IN  /\ n \in Nat /\ x \in 0..n
               /\ DOMAIN route_order = 1..n
               /\ DOMAIN route_order' = 1..(n - x + 1)
               /\ Len(route_order') = n - x + 1
               /\ route_order'[n - x + 1] = next_decision
               /\ \A i \in 1..(n - x) : route_order'[i] = route_order[x + i]
  <1> DEFINE x == excess(route_order)
             n == Len(route_order)
             kept == SubSeq(route_order, x + 1, n)
  <1>1. route_order \in Seq(Decisions) /\ n \in Nat /\ DOMAIN route_order = 1..n
    BY LenProperties DEF TypeOK
  <1>2. x \in 0..n
    BY <1>1, ExcessType
  <1>3. next_decision \in Decisions /\ route_order' = Append(kept, next_decision)
    BY DEF commit
  <1> HIDE DEF x, n
  <1>4. x + 1 \in 1..n+1 /\ n \in 0..n /\ x + 1 \in Int /\ n \in Int
    BY <1>1, <1>2
  <1>5. kept \in Seq(Decisions)
    BY <1>1, <1>4, CutType DEF n
  <1>6. Len(kept) = n - x /\ \A i \in 1..(n - x) : kept[i] = route_order[x + i]
    <2>1. \A i \in (x + 1)..n : route_order[i] \in Decisions
      <3>1. \A i \in (x + 1)..n : i \in 1..n
        BY <1>1, <1>2
      <3> QED
        BY <1>1, <3>1, ElementOfSeq DEF n
    <2>2. /\ Len(kept) = IF x + 1 <= n THEN n - (x + 1) + 1 ELSE 0
          /\ \A i \in 1..(n - (x + 1) + 1) : kept[i] = route_order[(x + 1) + i - 1]
      BY <1>4, <2>1, SubSeqProperties
    <2>3. n - (x + 1) + 1 = n - x /\ (IF x + 1 <= n THEN n - (x + 1) + 1 ELSE 0) = n - x
      BY <1>1, <1>2
    <2>4. \A i \in 1..(n - x) : (x + 1) + i - 1 = x + i
      BY <1>1, <1>2
    <2> QED
      BY <2>2, <2>3, <2>4
  <1> HIDE DEF kept
  <1>7. /\ route_order' \in Seq(Decisions) /\ Len(route_order') = Len(kept) + 1
        /\ \A i \in 1..Len(kept) : route_order'[i] = kept[i]
        /\ route_order'[Len(kept) + 1] = next_decision
    BY <1>3, <1>5, AppendProperties
  <1>8. DOMAIN route_order' = 1..(n - x + 1) /\ Len(route_order') = n - x + 1
    BY <1>6, <1>7, LenProperties
  <1> QED
    BY <1>1, <1>2, <1>6, <1>7, <1>8 DEF x, n

\* Eviction and insertion keep the list and the records describing the same
\* decisions.
LEMMA HistoryStep ==
    ASSUME TypeOK, BoundInv, HistoryConsistent, [Next]_vars
    PROVE  HistoryConsistent'
  <1>1. CASE SameHistory
    <2>1. Retained' = Retained
      BY <1>1 DEF SameHistory, RecordMoves, Staled, SameDecision, Retained
    <2> QED
      BY <1>1, <2>1 DEF SameHistory, HistoryConsistent
  <1>2. ASSUME NEW t \in Threads, commit(t) PROVE HistoryConsistent'
    <2> DEFINE x == excess(route_order)
               n == Len(route_order)
               order == route_order
               fresh == next_decision
    <2>1. /\ n \in Nat /\ x \in 0..n
          /\ DOMAIN order = 1..n /\ DOMAIN route_order' = 1..(n - x + 1)
          /\ Len(route_order') = n - x + 1
          /\ route_order'[n - x + 1] = fresh
          /\ \A i \in 1..(n - x) : route_order'[i] = order[x + i]
      BY <1>2, OrderAfterCommit
    <2>2. /\ \A i, j \in 1..n : order[i] = order[j] => i = j
          /\ {order[i] : i \in 1..n} = Retained
          /\ n <= MaxHistory
      BY <2>1 DEF HistoryConsistent
    <2>3. fresh \in Decisions /\ fresh \notin Retained
      BY <1>2, CommitFacts
    <2>4. x = IF n < MaxHistory THEN 0 ELSE n - MaxHistory + 1
      BY DEF excess
    <2>5. \A d \in Decisions : routes'[d].status # "ABSENT" <=>
             d = fresh \/ (d \in Retained /\ ~\E i \in 1..x : order[i] = d)
      <3>1. \A d \in Decisions \ {fresh} :
               routes'[d] = IF \E i \in 1..x : order[i] = d THEN NoRoute ELSE routes[d]
        BY <1>2 DEF commit, victims
      <3>2. routes'[fresh].status # "ABSENT"
        BY <1>2, CommitFacts
      <3> QED
        BY <3>1, <3>2 DEF NoRoute, Retained
    <2> HIDE DEF x, n, order, fresh
    <2>6. n - x + 1 <= MaxHistory
      BY <2>1, <2>2, <2>4, RouterAssumption
    <2>7. \A i, j \in 1..(n - x + 1) : route_order'[i] = route_order'[j] => i = j
      <3> SUFFICES ASSUME NEW i \in 1..(n - x + 1), NEW j \in 1..(n - x + 1),
                          route_order'[i] = route_order'[j]
                   PROVE  i = j
        OBVIOUS
      <3>1. \A k \in 1..(n - x) : x + k \in 1..n /\ k \in Nat
        BY <2>1
      <3>2. \A k \in 1..(n - x) : route_order'[k] # fresh
        BY <2>1, <2>2, <2>3, <3>1
      <3>3. \A k \in 1..(n - x + 1) : k = n - x + 1 \/ k \in 1..(n - x)
        BY <2>1
      <3>4. CASE i \in 1..(n - x) /\ j \in 1..(n - x)
        <4>1. x + i = x + j
          BY <2>1, <2>2, <3>1, <3>4
        <4> QED
          BY <2>1, <3>1, <3>4, <4>1
      <3> QED
        BY <2>1, <3>2, <3>3, <3>4
    <2>8. {route_order'[i] : i \in 1..(n - x + 1)} = Retained'
      <3>1. ASSUME NEW i \in 1..(n - x + 1) PROVE route_order'[i] \in Retained'
        <4>1. CASE i = n - x + 1
          BY <2>1, <2>3, <2>5, <4>1 DEF Retained
        <4>2. CASE i \in 1..(n - x)
          <5>1. x + i \in 1..n /\ \A k \in 1..x : k # x + i /\ k \in 1..n
            BY <2>1, <4>2
          <5>2. order[x + i] \in Retained /\ ~\E k \in 1..x : order[k] = order[x + i]
            BY <2>2, <5>1
          <5> QED
            BY <2>1, <2>5, <4>2, <5>2 DEF Retained
        <4> QED
          BY <2>1, <4>1, <4>2
      <3>2. ASSUME NEW d \in Retained' PROVE \E i \in 1..(n - x + 1) : route_order'[i] = d
        <4>1. CASE d = fresh
          <5>1. n - x + 1 \in 1..(n - x + 1)
            BY <2>1
          <5> QED
            BY <2>1, <4>1, <5>1
        <4>2. CASE d # fresh
          <5>1. d \in Retained /\ ~\E i \in 1..x : order[i] = d
            BY <2>5, <4>2 DEF Retained
          <5>2. PICK k \in 1..n : order[k] = d
            BY <2>2, <5>1
          <5>3. k \notin 1..x
            BY <5>1, <5>2
          <5>4. k - x \in 1..(n - x) /\ x + (k - x) = k /\ k - x \in 1..(n - x + 1)
            BY <2>1, <5>2, <5>3
          <5> QED
            BY <2>1, <5>2, <5>4
        <4> QED
          BY <4>1, <4>2
      <3> QED
        BY <3>1, <3>2
    <2> QED
      BY <2>1, <2>6, <2>7, <2>8 DEF HistoryConsistent
  <1> QED
    BY <1>1, <1>2, RecordStep

-----------------------------------------------------------------------------
(* The theorems.                                                            *)

\* The history is empty and no call is in progress when the router starts.
LEMMA InitHistory == Init => HistoryInv
  <1> SUFFICES ASSUME Init PROVE HistoryInv
    OBVIOUS
  <1>1. /\ \A d \in Decisions : routes[d].status = "ABSENT"
        /\ \A t \in Threads : call[t].pc = "idle"
        /\ route_order = <<>>
    BY DEF Init, NoRoute, Idle
  <1>2. Retained = {}
    BY <1>1 DEF Retained
  <1>3. DOMAIN route_order = {} /\ Len(route_order) = 0
    BY <1>1
  <1>4. HistoryConsistent
    BY <1>2, <1>3, RouterAssumption DEF HistoryConsistent
  <1>5. FallbackInv /\ GoneInv
    BY <1>1, <1>2 DEF FallbackInv, FallbackCall, GoneInv, GoneCall
  <1>6. ReplacedInv /\ TraceableInv
    BY <1>1 DEF ReplacedInv, SupersededWasReplaced, TraceableInv, CompletionTraceable
  <1> QED
    BY <1>4, <1>5, <1>6 DEF HistoryInv

\* The inductive invariant holds throughout.
LEMMA HistoryHolds == Spec => [](TypeOK /\ BoundInv /\ HistoryInv)
  <1>1. Init => TypeOK /\ BoundInv /\ HistoryInv
    BY InitType, InitBound, InitHistory
  <1>2. TypeOK /\ BoundInv /\ HistoryInv /\ [Next]_vars => (TypeOK /\ BoundInv /\ HistoryInv)'
    <2> SUFFICES ASSUME TypeOK, BoundInv, HistoryInv, [Next]_vars
                 PROVE  (TypeOK /\ BoundInv /\ HistoryInv)'
      OBVIOUS
    <2>1. TypeOK' /\ BoundInv'
      BY NextType, NextBound
    <2>2. FallbackInv' /\ ReplacedInv' /\ GoneInv' /\ TraceableInv' /\ HistoryConsistent'
      BY FallbackStep, ReplacedStep, GoneStep, TraceableStep, HistoryStep DEF HistoryInv
    <2> QED
      BY <2>1, <2>2 DEF HistoryInv
  <1> QED
    BY <1>1, <1>2, PTL DEF Spec

\* The order list and the route map describe the same decisions, none twice, and
\* no more than max_route_history, whatever threads commit and evict concurrently.
THEOREM HistoryStaysConsistent == Spec => []HistoryConsistent
  <1>1. HistoryInv => HistoryConsistent
    BY DEF HistoryInv
  <1> QED
    BY <1>1, HistoryHolds, PTL

\* Every decision recorded as dispatched, completed or failed was handed to the
\* dispatch provider, and its dispatch id still leads back to it, even though
\* ids and records are written by different calls of different threads.
THEOREM CompletionsTraceable == Spec => []CompletionTraceable
  <1>1. HistoryInv => CompletionTraceable
    BY DEF HistoryInv, TraceableInv
  <1> QED
    BY <1>1, HistoryHolds, PTL

\* A CURRENT decision of the fallback path binds the evidence generations its
\* candidate was judged on.
THEOREM FallbackBindsWhatItJudged == Spec => []FallbackJudged
  <1>1. HistoryInv => FallbackJudged
    BY DEF HistoryInv, FallbackInv, FallbackJudged, Retained
  <1> QED
    BY <1>1, HistoryHolds, PTL

\* A decision that reroute has superseded has a successor that was committed as
\* CURRENT.
THEOREM SupersededHasSuccessor == Spec => []SupersededWasReplaced
  <1>1. HistoryInv => SupersededWasReplaced
    BY DEF HistoryInv, ReplacedInv
  <1> QED
    BY <1>1, HistoryHolds, PTL

\* A dispatch that begins after its incarnation was fenced never reaches the
\* dispatch provider.
THEOREM FencedIsNotHandedOff == Spec => []NoHandoffAfterFence
  <1>1. HistoryInv => NoHandoffAfterFence
    BY DEF HistoryInv, GoneInv, GoneCall, NoHandoffAfterFence
  <1> QED
    BY <1>1, HistoryHolds, PTL

\* What OldEpochNeverRevived says of one step.
NotRevived ==
    \A d \in Retained : routes[d].status # "CURRENT" /\ routes[d].auth.epoch # catalog.epoch =>
        routes'[d].status # "CURRENT"

\* A decision of an older epoch that is not CURRENT does not become CURRENT again:
\* only a revalidation could make it so, and it compares the epoch of its copy,
\* which is the record's, under the lock that marks the record.
THEOREM OldEpochStaysOut == Spec => OldEpochNeverRevived
  <1>1. TypeOK /\ BoundInv /\ HistoryInv /\ [Next]_vars => [NotRevived]_vars
    <2> SUFFICES ASSUME TypeOK, BoundInv, [Next]_vars, NEW d \in Retained,
                        routes[d].status # "CURRENT", routes[d].auth.epoch # catalog.epoch,
                        routes'[d].status = "CURRENT"
                 PROVE  FALSE
      BY DEF NotRevived
    <2>1. d \in Decisions
      BY DEF Retained
    <2>2. CASE SameHistory
      <3>1. PICK t \in Threads : revalidate_authorize(t) /\ reauthorized(call[t]) /\ d = call[t].dec
        BY <2>1, <2>2 DEF SameHistory, RecordMoves, Staled
      <3>2. call[t].auth = routes[d].auth
        BY <3>1 DEF revalidate_authorize, BoundInv, JudgesItsRecord
      <3>3. call[t].auth.epoch = catalog.epoch
        BY <3>1 DEF reauthorized, is_authority_dispatchable, compare_authority
      <3> QED
        BY <3>2, <3>3
    <2>3. ASSUME NEW t \in Threads, commit(t) PROVE FALSE
      BY <2>1, <2>3, CommitFacts DEF NoRoute
    <2> QED
      BY <2>2, <2>3, RecordStep
  <1>2. [][NotRevived]_vars => OldEpochNeverRevived
    BY DEF NotRevived, OldEpochNeverRevived
  <1> QED
    BY <1>1, <1>2, HistoryHolds, PTL DEF Spec

-----------------------------------------------------------------------------
(* The trust index.                                                         *)

\* A pair belongs to the scan of catalog c.
Scanned(c, p) ==
    \E b \in Backends : registered(c, b) /\ p = <<c.backends[b].ev["trust"].st, b>>

\* IndexMatchesScan, pair by pair.
Indexed(i, c) == \A p : p \in i <=> Scanned(c, p)

\* A scan depends only on which backends are registered and on their trust verdicts.
LEMMA SameScan ==
    ASSUME NEW i, NEW c, NEW n, Indexed(i, c),
           \A b \in Backends : /\ registered(n, b) <=> registered(c, b)
                               /\ n.backends[b].ev["trust"].st = c.backends[b].ev["trust"].st
    PROVE  Indexed(i, n)
  BY DEF Indexed, Scanned

\* Removing a backend under its old verdict and adding it under its new one.
LEMMA IndexReplaced ==
    ASSUME NEW i, NEW c, NEW n, Indexed(i, c), NEW b \in Backends, NEW d,
           registered(n, b), n.backends[b] = d,
           \A x \in Backends \ {b} : n.backends[x] = c.backends[x]
    PROVE  Indexed(index_add_backend(index_remove_backend(i, b, c.backends[b]), b, d), n)
  <1> SUFFICES ASSUME NEW p
               PROVE  p \in index_add_backend(index_remove_backend(i, b, c.backends[b]), b, d)
                          <=> Scanned(n, p)
    BY DEF Indexed
  <1>1. \A x \in Backends \ {b} : registered(n, x) <=> registered(c, x)
    BY DEF registered
  <1>2. Scanned(n, p) <=> \/ p = <<d.ev["trust"].st, b>>
                          \/ \E x \in Backends \ {b} : registered(c, x)
                                 /\ p = <<c.backends[x].ev["trust"].st, x>>
    BY <1>1 DEF Scanned
  <1>3. p \in i <=> \/ registered(c, b) /\ p = <<c.backends[b].ev["trust"].st, b>>
                    \/ \E x \in Backends \ {b} : registered(c, x)
                           /\ p = <<c.backends[x].ev["trust"].st, x>>
    BY DEF Indexed, Scanned
  <1>4. c.backends[b].reg = 0 <=> ~registered(c, b)
    BY DEF registered
  <1>5. \A x \in Backends \ {b} :
           <<c.backends[x].ev["trust"].st, x>> # <<c.backends[b].ev["trust"].st, b>>
    OBVIOUS
  <1> QED
    BY <1>2, <1>3, <1>4, <1>5 DEF index_add_backend, index_remove_backend

\* Removing a backend that is erased.
LEMMA IndexErased ==
    ASSUME NEW i, NEW c, NEW n, Indexed(i, c), NEW b \in Backends, ~registered(n, b),
           \A x \in Backends \ {b} : n.backends[x] = c.backends[x]
    PROVE  Indexed(index_remove_backend(i, b, c.backends[b]), n)
  <1> SUFFICES ASSUME NEW p
               PROVE  p \in index_remove_backend(i, b, c.backends[b]) <=> Scanned(n, p)
    BY DEF Indexed
  <1>1. \A x \in Backends \ {b} : registered(n, x) <=> registered(c, x)
    BY DEF registered
  <1>2. Scanned(n, p) <=> \E x \in Backends \ {b} : registered(c, x)
                              /\ p = <<c.backends[x].ev["trust"].st, x>>
    BY <1>1 DEF Scanned
  <1>3. p \in i <=> \/ registered(c, b) /\ p = <<c.backends[b].ev["trust"].st, b>>
                    \/ \E x \in Backends \ {b} : registered(c, x)
                           /\ p = <<c.backends[x].ev["trust"].st, x>>
    BY DEF Indexed, Scanned
  <1>4. c.backends[b].reg = 0 <=> ~registered(c, b)
    BY DEF registered
  <1>5. \A x \in Backends \ {b} :
           <<c.backends[x].ev["trust"].st, x>> # <<c.backends[b].ev["trust"].st, b>>
    OBVIOUS
  <1> QED
    BY <1>2, <1>3, <1>4, <1>5 DEF index_remove_backend

\* The index that registrations, retirements, fences and trust publications
\* maintain incrementally is the scan of the catalog, in every reachable state.
THEOREM IndexStaysExact == Spec => []IndexMatchesScan
  <1>1. IndexMatchesScan <=> Indexed(index, catalog)
    BY DEF IndexMatchesScan, Indexed, Scanned
  <1>2. IndexMatchesScan' <=> Indexed(index', catalog')
    BY DEF IndexMatchesScan, Indexed, Scanned
  <1>3. Init => IndexMatchesScan
    BY DEF Init, IndexMatchesScan
  <1>4. TypeOK /\ IndexMatchesScan /\ [Next]_vars => IndexMatchesScan'
    <2> SUFFICES ASSUME TypeOK, Indexed(index, catalog), [Next]_vars
                 PROVE  Indexed(index', catalog')
      BY <1>1, <1>2
    <2>1. catalog \in Catalog /\ catalog.backends \in [Backends -> Descriptor]
      BY DEF TypeOK, Catalog
    <2>2. ASSUME index' = index, catalog'.backends = catalog.backends
          PROVE  Indexed(index', catalog')
      BY <2>2, SameScan DEF registered
    <2>3. ASSUME NEW b \in Backends, NEW k \in Kinds \ {"trust"}, NEW e, index' = index,
                 catalog' = [catalog EXCEPT !.backends[b].ev[k] = e]
          PROVE  Indexed(index', catalog')
      <3>1. /\ catalog'.backends =
                  [catalog.backends EXCEPT ![b] = [catalog.backends[b] EXCEPT !.ev[k] = e]]
            /\ catalog.backends[b] \in Descriptor
        BY <2>1, <2>3 DEF Catalog
      <3>2. \A x \in Backends : /\ catalog'.backends[x].reg = catalog.backends[x].reg
                                /\ catalog'.backends[x].ev["trust"] = catalog.backends[x].ev["trust"]
        BY <2>1, <3>1 DEF Descriptor
      <3>3. \A x \in Backends : registered(catalog', x) <=> registered(catalog, x)
        BY <3>2 DEF registered
      <3>4. \A x \in Backends :
               catalog'.backends[x].ev["trust"].st = catalog.backends[x].ev["trust"].st
        BY <3>2
      <3>5. Indexed(index, catalog')
        BY <3>3, <3>4, SameScan
      <3> QED
        BY <2>3, <3>5
    <2>4. ASSUME NEW b \in Backends, NEW d, d.reg # 0,
                 index' = index_add_backend(index_remove_backend(index, b, catalog.backends[b]),
                                            b, d),
                 catalog' = [catalog EXCEPT !.backends[b] = d]
          PROVE  Indexed(index', catalog')
      <3>1. /\ catalog'.backends[b] = d /\ registered(catalog', b)
            /\ \A x \in Backends \ {b} : catalog'.backends[x] = catalog.backends[x]
        BY <2>1, <2>4 DEF Catalog, registered
      <3> QED
        BY <2>4, <3>1, IndexReplaced
    <2>5. ASSUME NEW b \in Backends, NEW boot, NEW erase \in BOOLEAN, Retire(b, boot, erase)
          PROVE  Indexed(index', catalog')
      <3>1. \A x \in Backends : catalog'.backends[x] = IF x = b /\ erase THEN Unregistered
                                                       ELSE catalog.backends[x]
        BY <2>1, <2>5 DEF Retire, Catalog
      <3>2. CASE erase
        <4>1. ~registered(catalog', b)
          BY <3>1, <3>2 DEF registered, Unregistered
        <4>2. index' = index_remove_backend(index, b, catalog.backends[b])
          BY <2>5, <3>2 DEF Retire
        <4> QED
          BY <3>1, <4>1, <4>2, IndexErased
      <3>3. CASE ~erase
        <4>1. \A x \in Backends : registered(catalog', x) <=> registered(catalog, x)
          BY <3>1, <3>3 DEF registered
        <4>2. index' = index
          BY <2>5, <3>3 DEF Retire
        <4> QED
          BY <3>1, <3>3, <4>1, <4>2, SameScan
      <3> QED
        BY <3>2, <3>3
    <2>6. CASE CatalogCall
      <3>1. ASSUME NEW g, NEW life, register_model(g, life) PROVE Indexed(index', catalog')
        BY <2>1, <2>2, <3>1 DEF register_model, Catalog
      <3>2. CASE retire_model
        BY <2>1, <2>2, <3>2 DEF retire_model, Apply, Catalog
      <3>3. ASSUME NEW b \in Backends, NEW d, d.reg # 0, register_backend(b, d)
            PROVE  Indexed(index', catalog')
        BY <2>4, <3>3 DEF register_backend, Apply
      <3>4. ASSUME NEW b \in Backends, unregister_backend(b) PROVE Indexed(index', catalog')
        BY <2>5, <3>4 DEF unregister_backend
      <3>5. ASSUME NEW b \in Backends, NEW g, NEW boot, fence_backend_boot(b, g, boot)
            PROVE  Indexed(index', catalog')
        <4>1. retires_current(catalog.backends[b], g, boot) \in BOOLEAN
          BY DEF retires_current
        <4> QED
          BY <2>5, <3>5, <4>1 DEF fence_backend_boot
      <3>6. ASSUME NEW b \in Backends, NEW k \in BootKinds, NEW boot, NEW e, NEW t0,
                   apply_evidence(b, k, boot, e, t0)
            PROVE  Indexed(index', catalog')
        <4>1. k \in Kinds \ {"trust"}
          BY RouterAssumption DEF Kinds
        <4> QED
          BY <2>3, <3>6, <4>1 DEF apply_evidence
      <3>7. ASSUME NEW b, NEW boot, update_latency(b, boot) PROVE Indexed(index', catalog')
        BY <2>2, <3>7 DEF update_latency, Apply
      <3>8. ASSUME NEW b \in Backends, NEW e, set_trust(b, e) PROVE Indexed(index', catalog')
        <4> DEFINE n == [catalog.backends[b] EXCEPT !.ev["trust"] = e]
        <4>1. n.reg = catalog.backends[b].reg
          BY <2>1 DEF Descriptor
        <4>2. CASE registered(catalog, b)
          <5>1. /\ index' = index_add_backend(
                                index_remove_backend(index, b, catalog.backends[b]), b, n)
                /\ catalog' = [catalog EXCEPT !.backends[b] = n]
            BY <3>8, <4>2 DEF set_trust, Apply
          <5> HIDE DEF n
          <5> QED
            BY <2>4, <4>1, <4>2, <5>1 DEF registered
        <4>3. CASE ~registered(catalog, b)
          BY <2>2, <3>8, <4>3 DEF set_trust, Apply
        <4> QED
          BY <4>2, <4>3
      <3>9. ASSUME NEW b \in Backends, NEW e, set_cost(b, e) PROVE Indexed(index', catalog')
        <4>1. "price" \in Kinds \ {"trust"}
          BY DEF Kinds
        <4> QED
          BY <2>3, <3>9, <4>1 DEF set_cost, Apply
      <3>10. ASSUME NEW s, NEW g, NEW deny, set_snapshot(s, g, deny)
             PROVE  Indexed(index', catalog')
        BY <2>1, <2>2, <3>10 DEF set_snapshot, Apply, Catalog
      <3>11. ASSUME NEW reg \in 1..MaxReg PROVE reg # 0
        OBVIOUS
      <3> QED
        BY <2>6, <3>1, <3>2, <3>3, <3>4, <3>5, <3>6, <3>7, <3>8, <3>9, <3>10, <3>11
        DEF CatalogCall
    <2>7. CASE ~CatalogCall
      <3>1. index' = index
        <4>1. ASSUME NEW t \in Threads, ThreadCall(t) PROVE CatalogUnchanged
          BY <4>1
          DEF ThreadCall, start, start_publish, route, route_discover, route_bind, commit,
              commit_refused, revalidate, revalidate_observe, revalidate_mark_stale,
              revalidate_authorize, dispatch, dispatch_revalidate, dispatch_snapshot,
              dispatch_resolve, dispatch_handoff, dispatch_refused, dispatch_record, reroute,
              reroute_fallback, reroute_exhausted, reroute_route, reroute_supersede,
              Local, Marks
        <4> QED
          BY <2>7, <4>1
          DEF Next, shutdown, record_completion, Tick, Marks, CatalogUnchanged, vars
      <3> QED
        BY <2>2, <2>7, <3>1, OnlyCatalogCallsRegister
    <2> QED
      BY <2>6, <2>7
  <1> QED
    BY <1>3, <1>4, TypeCorrect, PTL DEF Spec

=============================================================================
