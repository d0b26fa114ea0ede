--------------------------- MODULE RecoveryProofs ---------------------------
(***************************************************************************)
(* Theorems about Recovery, for every number of boots, processes, epochs,  *)
(* identities and, except in SavedFencesHold, of concurrent saves.         *)
(***************************************************************************)
EXTENDS Recovery, FiniteSetTheorems, TLAPS

-----------------------------------------------------------------------------
(* The inductive invariant.                                                 *)

\* A retained decision is no newer than the epoch and the identities of the process, and
\* one that binds the present epoch was made by this process.
RoutesBound ==
    \A r \in st.routes : /\ r.epoch <= st.epoch
                         /\ r.id <= highest
                         /\ r.epoch = st.epoch => r.by = process

\* The larger of the two limits on incarnations a process may have.
Allowed == Max({MaxIncarnations, DefaultIncarnations})

\* The file is whole; what a load needs besides is only that it is within the limits.
Decoded == file.kind = "image"

\* An image that may be in a file: within the limits, and newer than its decisions.
Sound(i) == /\ validate(i, Allowed)
            /\ \A r \in i.routes : r.epoch <= i.epoch /\ r.id <= i.highest

\* What a save writes is such an image, of this process.
SavesSound ==
    \A t \in Savers : saver[t].pc # "idle" =>
        /\ saver[t].image.kind = "image"
        /\ Sound(saver[t].image.image)
        /\ saver[t].image.image.highest <= highest

\* A temporary file that may be renamed is such an image too, unless someone has it open.
TmpSound ==
    \A t \in Savers : saver[t].pc = "written" =>
        \/ tmp = NoFile
        \/ \E u \in Savers : Writing(u)
        \/ tmp.kind = "image" /\ Sound(tmp.image) /\ tmp.image.highest <= highest

\* So is the state file.
FileSound == file = NoFile \/ (file.kind = "image" /\ Sound(file.image))

\* A process has observed the identities of the file, and one that is down saves nothing.
Observed ==
    /\ up # "down" /\ file # NoFile => file.image.highest <= highest
    /\ up = "down" => \A t \in Savers : saver[t].pc = "idle"

RecoveryInv ==
    RoutesBound /\ RecoveredNeverCurrent /\ SavesSound /\ TmpSound /\ FileSound /\ Observed

\* With one thread that saves: the file holds the durable fences, and the process has them
\* and those of the save in progress.
FencesKept ==
    /\ file = NoFile => durable = {}
    /\ file # NoFile => file.kind = "image" /\ durable = file.image.fenced
    /\ up # "down" /\ ~st.loaded => durable \subseteq st.fenced
    /\ \A t \in Savers : /\ saver[t].pc # "idle" /\ ~st.loaded
                              => saver[t].image.image.fenced \subseteq st.fenced
                         /\ saver[t].pc # "idle" => saver[t].image.kind = "image"
                         /\ saver[t].pc = "written" => tmp = saver[t].image
    /\ up = "down" => \A t \in Savers : saver[t].pc = "idle"

-----------------------------------------------------------------------------
(* Operators the actions are built from.                                    *)

\* observe() returns an identity that is at least both.
LEMMA ObserveBound ==
    ASSUME NEW h \in Nat, NEW seen \in Nat
    PROVE  observe(h, seen) \in Nat /\ h <= observe(h, seen) /\ seen <= observe(h, seen)
  <1> DEFINE S == {h, seen}
             P(x) == x \in S /\ \A y \in S : x >= y
  <1>1. \E x : P(x)
    <2>1. CASE h >= seen
      BY <2>1
    <2>2. CASE ~(h >= seen)
      BY <2>2
    <2> QED
      BY <2>1, <2>2
  <1>2. P(CHOOSE x : P(x))
    BY <1>1
  <1>3. observe(h, seen) = CHOOSE x \in S : \A y \in S : x >= y
    BY DEF observe, Max
  <1>4. observe(h, seen) \in S /\ \A y \in S : observe(h, seen) >= y
    BY <1>1, <1>3
  <1> QED
    BY <1>4

\* A set of boots within a process' limit is within the larger one.
LEMMA RaisedLimit ==
    ASSUME NEW S \in SUBSET Boots, NEW limit \in {MaxIncarnations, DefaultIncarnations},
           Cardinality(S) <= limit
    PROVE  Cardinality(S) <= Allowed
  <1>1. Cardinality(S) \in Nat
    <2>1. IsFiniteSet(Boots)
      BY RecoveryAssumption, FS_Interval DEF Boots
    <2>2. IsFiniteSet(S)
      BY <2>1, FS_Subset
    <2> QED
      BY <2>2, FS_CardinalityType
  <1>2. Allowed = observe(MaxIncarnations, DefaultIncarnations)
    BY DEF Allowed, observe
  <1>3. Allowed \in Nat /\ MaxIncarnations <= Allowed /\ DefaultIncarnations <= Allowed
    BY <1>2, RecoveryAssumption, ObserveBound
  <1> QED
    BY <1>1, <1>3, RecoveryAssumption

\* A file is absent, torn or an image, and its kind says which.
LEMMA FileKinds ==
    ASSUME NEW f \in Files
    PROVE  /\ f.kind = "image" => f.image \in Image /\ f # NoFile /\ f # Torn
           /\ f # NoFile /\ f # Torn => f.kind = "image"
           /\ NoFile.kind # "image" /\ Torn.kind # "image"
  BY DEF Files, Images, NoFile, Torn

\* A save in progress has an image.
LEMMA SaveImages ==
    ASSUME TypeOK, NEW t \in Savers, saver[t].image.kind = "image"
    PROVE  saver[t].image.image \in Image
  BY DEF TypeOK, Saves, Images, NoFile

\* A decision with another status is the same decision.
Same(r, q) == r.id = q.id /\ r.epoch = q.epoch /\ r.by = q.by

LEMMA Marked ==
    ASSUME NEW q \in Route
    PROVE  LET r == [q EXCEPT !.status = "STALE"]
           IN  r \in Route /\ r.status = "STALE" /\ Same(r, q)
  BY DEF Route, Same

\* The passes over the retained decisions only mark them.
LEMMA StaleMarks ==
    ASSUME NEW rs \in SUBSET Route
    PROVE  /\ Stale(rs) \in SUBSET Route
           /\ \A r \in Stale(rs) : r.status = "STALE" /\ \E q \in rs : Same(r, q)
  <1> SUFFICES ASSUME NEW r \in Stale(rs)
               PROVE  r \in Route /\ r.status = "STALE" /\ \E q \in rs : Same(r, q)
    OBVIOUS
  <1>1. PICK q \in rs : r = [q EXCEPT !.status = "STALE"]
    BY Zenon DEF Stale
  <1>2. q \in Route
    OBVIOUS
  <1> QED
    BY <1>1, <1>2, Marked

LEMMA StaleBootMarks ==
    ASSUME NEW rs \in SUBSET Route, NEW boot
    PROVE  /\ StaleBoot(rs, boot) \in SUBSET Route
           /\ \A r \in StaleBoot(rs, boot) :
                 \E q \in rs : Same(r, q) /\ (r.status = "CURRENT" => r = q)
  <1> SUFFICES ASSUME NEW r \in StaleBoot(rs, boot)
               PROVE  /\ r \in Route
                      /\ \E q \in rs : Same(r, q) /\ (r.status = "CURRENT" => r = q)
    OBVIOUS
  <1>1. PICK q \in rs : r = IF q.boot = boot THEN [q EXCEPT !.status = "STALE"] ELSE q
    BY Zenon DEF StaleBoot
  <1>2. q \in Route
    OBVIOUS
  <1>3. r = q \/ r = [q EXCEPT !.status = "STALE"]
    BY <1>1, Zenon
  <1>4. r \in Route /\ Same(r, q) /\ (r.status = "CURRENT" => r = q)
    BY <1>2, <1>3, Marked DEF Same
  <1> QED
    BY <1>4

LEMMA StaleOthersMarks ==
    ASSUME NEW rs \in SUBSET Route, NEW boot
    PROVE  /\ StaleOthers(rs, boot) \in SUBSET Route
           /\ \A r \in StaleOthers(rs, boot) :
                 \E q \in rs : Same(r, q) /\ (r.status = "CURRENT" => r = q)
  <1> SUFFICES ASSUME NEW r \in StaleOthers(rs, boot)
               PROVE  /\ r \in Route
                      /\ \E q \in rs : Same(r, q) /\ (r.status = "CURRENT" => r = q)
    OBVIOUS
  <1>1. PICK q \in rs : r = IF q.boot = boot THEN q ELSE [q EXCEPT !.status = "STALE"]
    BY Zenon DEF StaleOthers
  <1>2. q \in Route
    OBVIOUS
  <1>3. r = q \/ r = [q EXCEPT !.status = "STALE"]
    BY <1>1, Zenon
  <1>4. r \in Route /\ Same(r, q) /\ (r.status = "CURRENT" => r = q)
    BY <1>2, <1>3, Marked DEF Same
  <1> QED
    BY <1>4

\* What the import of an image yields.
LEMMA ImportYields ==
    ASSUME NEW i \in Image
    PROVE  /\ Imported(i) \in States
           /\ Imported(i).fenced = i.fenced
           /\ Imported(i).epoch = i.epoch + 1
           /\ Imported(i).loaded = FALSE
           /\ \A r \in Imported(i).routes : r.status = "STALE" /\ \E q \in i.routes : Same(r, q)
  <1>1. /\ i.fenced \in SUBSET Boots /\ i.epoch \in Nat /\ i.boot \in Boots \cup {0}
        /\ i.routes \in SUBSET Route /\ i.highest \in Nat
    BY DEF Image
  <1>2. /\ recovered_routes(i) \in SUBSET Route
        /\ \A r \in recovered_routes(i) : r.status = "STALE" /\ \E q \in i.routes : Same(r, q)
    BY <1>1, StaleMarks DEF recovered_routes
  <1> QED
    BY <1>1, <1>2 DEF Imported, recovered_fences, States

\* A commit adds one decision to some of the retained ones.
LEMMA RouteCommits ==
    ASSUME st.routes \in SUBSET Route, route
    PROVE  \E kept \in SUBSET st.routes :
              st' = [st EXCEPT !.routes = kept \cup
                       {[id |-> next_id(highest), epoch |-> st.epoch, boot |-> st.boot,
                         status |-> "CURRENT", by |-> process]}]
  <1> DEFINE r == [id |-> next_id(highest), epoch |-> st.epoch, boot |-> st.boot,
                   status |-> "CURRENT", by |-> process]
             before == IF Cardinality(st.routes) < MaxHistory THEN st.routes
                       ELSE st.routes \ {Oldest(st.routes)}
             kept == {q \in before : q.id # r.id}
  <1>1. st' = [st EXCEPT !.routes = kept \cup {r}]
    BY Zenon DEF route
  <1>2. kept \in SUBSET st.routes
    OBVIOUS
  <1> QED
    BY <1>1, <1>2, Zenon

-----------------------------------------------------------------------------
(* Types.                                                                   *)

\* Every variable keeps its type: the state of a process, the two files, the saves.
THEOREM TypeCorrect == Spec => []TypeOK
  <1>1. Init => TypeOK
    BY DEF Init, TypeOK, States, Fresh, IdleSave, Files, Saves
  <1>2. TypeOK /\ [Next]_vars => TypeOK'
    <2> SUFFICES ASSUME TypeOK, [Next]_vars PROVE TypeOK'
      OBVIOUS
    <2>1. st \in States /\ highest \in Nat /\ process \in Nat /\ st.routes \in SUBSET Route
      BY DEF TypeOK, States
    <2>2. ASSUME st' \in States, highest' \in Nat, Works PROVE TypeOK'
      BY <2>2 DEF TypeOK, States, Works
    <2>3. ASSUME NEW b \in Boots, register_backend(b) PROVE TypeOK'
      <3>1. StaleOthers(st.routes, b) \in SUBSET Route
        BY <2>1, StaleOthersMarks
      <3> QED
        BY <2>1, <2>2, <2>3, <3>1 DEF register_backend, States
    <2>4. ASSUME NEW b \in Boots, fence_backend_boot(b) PROVE TypeOK'
      <3>1. StaleBoot(st.routes, b) \in SUBSET Route
        BY <2>1, StaleBootMarks
      <3> QED
        BY <2>1, <2>2, <2>4, <3>1 DEF fence_backend_boot, States
    <2>5. CASE unregister_backend
      <3>1. StaleBoot(st.routes, st.boot) \in SUBSET Route
        BY <2>1, StaleBootMarks
      <3> QED
        BY <2>1, <2>2, <2>5, <3>1 DEF unregister_backend, States
    <2>6. CASE route
      <3> DEFINE r == [id |-> next_id(highest), epoch |-> st.epoch, boot |-> st.boot,
                       status |-> "CURRENT", by |-> process]
      <3>1. r \in Route /\ highest' \in Nat
        BY <2>1, <2>6 DEF route, Route, next_id, States
      <3>2. PICK kept \in SUBSET Route : st' = [st EXCEPT !.routes = kept \cup {r}]
        BY <2>1, <2>6, RouteCommits
      <3> QED
        BY <2>1, <2>2, <2>6, <3>1, <3>2 DEF route, States
    <2>7. ASSUME NEW r \in st.routes, revalidate(r) PROVE TypeOK'
      <3> DEFINE q == [r EXCEPT !.status = IF Dispatchable(r) THEN "CURRENT" ELSE "STALE"]
      <3>1. q \in Route
        BY <2>1 DEF Route
      <3>2. st' = [st EXCEPT !.routes = (@ \ {r}) \cup {q}] /\ highest' = highest /\ Works
        BY <2>7, Zenon DEF revalidate
      <3> QED
        BY <2>1, <2>2, <3>1, <3>2 DEF States
    <2>8. ASSUME NEW t \in Savers, save(t) PROVE TypeOK'
      <3>1. export_persistent_state \in Image
        BY <2>1 DEF export_persistent_state, Image, States
      <3>2. File(export_persistent_state) \in Images
        BY <3>1 DEF File, Images
      <3>3. [pc |-> "exported", image |-> File(export_persistent_state)] \in Saves
        BY <3>2 DEF Saves
      <3> QED
        BY <2>8, <3>3 DEF save, TypeOK, States
    <2>9. NoFile \in Files /\ Torn \in Files /\ Images \subseteq Files /\ IdleSave \in Saves
      BY DEF Files, IdleSave, Saves
    <2>10. ASSUME NEW t \in Savers, saver[t].pc # "idle"
           PROVE  /\ saver[t].image \in Images /\ saver[t].image.image.fenced \in SUBSET Boots
                  /\ \A pc \in {"writing", "written"} : [saver[t] EXCEPT !.pc = pc] \in Saves
      <3>1. saver[t] \in [pc : {"exported", "writing", "written"}, image : Images]
        BY <2>10 DEF TypeOK, States, Saves
      <3> QED
        BY <3>1 DEF Images, Image, Saves
    <2>11. ASSUME NEW t \in Savers, write_open(t) PROVE TypeOK'
      <3>1. saver' = [saver EXCEPT ![t] = [saver[t] EXCEPT !.pc = "writing"]]
        BY <2>11 DEF write_open, TypeOK, States
      <3>2. saver[t].pc # "idle"
        BY <2>11 DEF write_open
      <3> QED
        BY <2>9, <2>10, <2>11, <3>1, <3>2 DEF write_open, TypeOK, States
    <2>12. ASSUME NEW t \in Savers, write_close(t) PROVE TypeOK'
      <3>1. saver' = [saver EXCEPT ![t] = [saver[t] EXCEPT !.pc = "written"]]
        BY <2>12 DEF write_close, TypeOK, States
      <3>2. saver[t].pc # "idle"
        BY <2>12 DEF write_close, Writing
      <3> QED
        BY <2>9, <2>10, <2>12, <3>1, <3>2 DEF write_close, TypeOK, States
    <2>13. ASSUME NEW t \in Savers, write_failed(t) PROVE TypeOK'
      BY <2>9, <2>13 DEF write_failed, TypeOK, States
    <2>14. ASSUME NEW t \in Savers, write_rename(t) PROVE TypeOK'
      <3>1. saver[t].pc # "idle"
        BY <2>14 DEF write_rename
      <3> QED
        BY <2>9, <2>10, <2>14, <3>1 DEF write_rename, TypeOK, States
    <2>15. ASSUME Decoded
           PROVE  /\ Imported(file.image) \in States /\ file.image.highest \in Nat
                  /\ [Imported(file.image) EXCEPT !.loaded = TRUE] \in States
                  /\ [Imported(file.image) EXCEPT !.epoch = @ + 1] \in States
                  /\ [Imported(file.image) EXCEPT !.epoch = @ + 1, !.loaded = TRUE] \in States
      <3>1. file.image \in Image
        BY <2>15, FileKinds DEF Decoded, TypeOK, States
      <3>2. Imported(file.image) \in States /\ file.image.highest \in Nat
        BY <3>1, ImportYields DEF Image
      <3>3. ASSUME NEW s \in States
            PROVE  /\ [s EXCEPT !.loaded = TRUE] \in States
                   /\ [s EXCEPT !.epoch = @ + 1] \in States
                   /\ [s EXCEPT !.epoch = @ + 1, !.loaded = TRUE] \in States
        <4>1. [s EXCEPT !.loaded = TRUE] \in States
          BY DEF States
        <4>2. [s EXCEPT !.epoch = @ + 1] \in States
          BY DEF States
        <4>3. ASSUME NEW n \in Nat PROVE [s EXCEPT !.epoch = n, !.loaded = TRUE] \in States
          BY DEF States
        <4>4. s.epoch + 1 \in Nat
          BY DEF States
        <4> QED
          BY <4>1, <4>2, <4>3, <4>4
      <3> QED
        BY <3>2, <3>3
    <2>16. ASSUME st' \in States, highest' \in Nat, process' \in Nat,
                  up' \in {"down", "stopped", "running", "stuck"},
                  UNCHANGED <<file, tmp, durable>>,
                  saver' = saver \/ saver' = [t \in Savers |-> IdleSave]
           PROVE  TypeOK'
      BY <2>9, <2>16 DEF TypeOK, States
    <2>17. CASE boot_process
      <3>1. [Fresh EXCEPT !.epoch = 1] \in States
        BY DEF Fresh, States
      <3>2. st' \in States /\ highest' \in Nat
        BY <2>15, <2>17, <3>1, ObserveBound DEF boot_process, Loadable, Decoded
      <3> QED
        BY <2>1, <2>16, <2>17, <3>2 DEF boot_process, Loadable, Decoded
    <2>18. CASE start
      <3>1. [st EXCEPT !.epoch = @ + 1] \in States
        BY <2>1 DEF States
      <3>2. st' \in States /\ highest' \in Nat
        BY <2>1, <2>15, <2>18, <3>1, ObserveBound DEF start, Loadable, Decoded
      <3> QED
        BY <2>1, <2>16, <2>18, <3>2 DEF start, Loadable, Decoded
    <2>19. CASE load
      <3>1. st' \in States /\ highest' \in Nat
        BY <2>1, <2>15, <2>19, ObserveBound DEF load, Loadable, Decoded
      <3>2. up' \in {"down", "stopped", "running", "stuck"} /\ process' \in Nat
        BY <2>19 DEF load, Loadable, Decoded, TypeOK, States
      <3> QED
        BY <2>16, <2>19, <3>1, <3>2 DEF load, Loadable, Decoded
    <2>20. CASE shutdown
      <3>1. Stale(st.routes) \in SUBSET Route
        BY <2>1, StaleMarks
      <3>2. st' \in States
        BY <2>1, <2>20, <3>1 DEF shutdown, States
      <3> QED
        BY <2>1, <2>16, <2>20, <3>2 DEF shutdown, States
    <2>21. CASE crash
      <3>1. Fresh \in States
        BY DEF Fresh, States
      <3> QED
        BY <2>1, <2>16, <2>21, <3>1 DEF crash
    <2>22. CASE UNCHANGED vars
      BY <2>22 DEF vars, TypeOK, States
    <2> QED
      BY <2>3, <2>4, <2>5, <2>6, <2>7, <2>8, <2>11, <2>12, <2>13, <2>14, <2>17, <2>18, <2>19,
         <2>20, <2>21, <2>22 DEF Next, Catalog
  <1> QED
    BY <1>1, <1>2, PTL DEF Spec

-----------------------------------------------------------------------------
(* Decisions across restarts.                                               *)

\* A pass that only marks keeps the invariant of the decisions.
LEMMA MarkingKeeps ==
    ASSUME TypeOK, TypeOK', RoutesBound, RecoveredNeverCurrent,
           process' = process, highest' = highest, st'.epoch = st.epoch,
           \A r \in st'.routes : \E q \in st.routes : Same(r, q) /\ (r.status = "CURRENT" => r = q)
    PROVE  RoutesBound' /\ RecoveredNeverCurrent'
  <1> SUFFICES ASSUME NEW r \in st'.routes
               PROVE  /\ r.epoch <= st'.epoch /\ r.id <= highest'
                      /\ r.epoch = st'.epoch => r.by = process'
                      /\ r.status = "CURRENT" => r.by = process'
    BY DEF RoutesBound, RecoveredNeverCurrent
  <1>1. PICK q \in st.routes : Same(r, q) /\ (r.status = "CURRENT" => r = q)
    OBVIOUS
  <1> QED
    BY <1>1 DEF Same, RoutesBound, RecoveredNeverCurrent

\* Decisions from a file are STALE and of an epoch that is over.
LEMMA ImportKeeps ==
    ASSUME TypeOK, FileSound, Decoded,
           st'.routes = Imported(file.image).routes,
           st'.epoch \in Nat, file.image.epoch < st'.epoch,
           highest' \in Nat, file.image.highest <= highest'
    PROVE  RoutesBound' /\ RecoveredNeverCurrent'
  <1>1. file.image \in Image /\ Sound(file.image)
    BY FileKinds DEF Decoded, TypeOK, States, FileSound
  <1>2. /\ file.image.routes \in SUBSET Route /\ file.image.epoch \in Nat
        /\ file.image.highest \in Nat
    BY <1>1 DEF Image
  <1> SUFFICES ASSUME NEW r \in st'.routes
               PROVE  /\ r.epoch <= st'.epoch /\ r.id <= highest' /\ r.epoch # st'.epoch
                      /\ r.status # "CURRENT"
    BY DEF RoutesBound, RecoveredNeverCurrent
  <1>3. r.status = "STALE" /\ \E q \in file.image.routes : Same(r, q)
    BY <1>1, ImportYields
  <1>4. PICK q \in file.image.routes : Same(r, q)
    BY <1>3
  <1>5. q.epoch \in Nat /\ q.id \in Nat /\ q.epoch <= file.image.epoch /\ q.id <= file.image.highest
    BY <1>1, <1>2, <1>4 DEF Sound, Route
  <1> QED
    BY <1>2, <1>3, <1>4, <1>5 DEF Same

\* No step makes a decision current that this process did not make.
LEMMA DecisionsStep ==
    ASSUME TypeOK, TypeOK', RecoveryInv, [Next]_vars
    PROVE  RoutesBound' /\ RecoveredNeverCurrent'
  <1>1. /\ RoutesBound /\ RecoveredNeverCurrent /\ FileSound
        /\ st.routes \in SUBSET Route /\ st.epoch \in Nat /\ highest \in Nat /\ process \in Nat
    BY DEF RecoveryInv, TypeOK, States
  <1>2. ASSUME UNCHANGED <<st, highest, process>> PROVE RoutesBound' /\ RecoveredNeverCurrent'
    BY <1>1, <1>2 DEF RoutesBound, RecoveredNeverCurrent
  <1>3. ASSUME NEW b \in Boots, register_backend(b) PROVE RoutesBound' /\ RecoveredNeverCurrent'
    <2>1. /\ process' = process /\ highest' = highest /\ st'.epoch = st.epoch
          /\ st'.routes = StaleOthers(st.routes, b)
      BY <1>3 DEF register_backend, Works, TypeOK, States
    <2> QED
      BY <1>1, <2>1, StaleOthersMarks, MarkingKeeps
  <1>4. ASSUME NEW b, process' = process, highest' = highest, st'.epoch = st.epoch,
               st'.routes = StaleBoot(st.routes, b)
        PROVE  RoutesBound' /\ RecoveredNeverCurrent'
    BY <1>1, <1>4, StaleBootMarks, MarkingKeeps
  <1>5. ASSUME NEW b \in Boots, fence_backend_boot(b) PROVE RoutesBound' /\ RecoveredNeverCurrent'
    BY <1>4, <1>5 DEF fence_backend_boot, Works, TypeOK, States
  <1>6. CASE unregister_backend
    BY <1>4, <1>6 DEF unregister_backend, Works, TypeOK, States
  <1>7. CASE route
    <2> DEFINE r == [id |-> next_id(highest), epoch |-> st.epoch, boot |-> st.boot,
                     status |-> "CURRENT", by |-> process]
    <2>1. PICK kept \in SUBSET st.routes : st' = [st EXCEPT !.routes = kept \cup {r}]
      BY <1>1, <1>7, RouteCommits
    <2>2. st'.routes = kept \cup {r} /\ st'.epoch = st.epoch
      BY <2>1 DEF TypeOK, States
    <2>3. process' = process /\ highest' = highest + 1
      BY <1>7 DEF route, Works, next_id
    <2>4. r.id = highest + 1 /\ r.epoch = st.epoch /\ r.by = process
      BY DEF next_id
    <2>5. \A q \in kept : q.id \in Nat /\ q \in st.routes
      BY <1>1 DEF Route
    <2> QED
      BY <1>1, <2>2, <2>3, <2>4, <2>5 DEF RoutesBound, RecoveredNeverCurrent
  <1>8. ASSUME NEW r \in st.routes, revalidate(r) PROVE RoutesBound' /\ RecoveredNeverCurrent'
    <2> DEFINE q == [r EXCEPT !.status = IF Dispatchable(r) THEN "CURRENT" ELSE "STALE"]
    <2>1. st' = [st EXCEPT !.routes = (@ \ {r}) \cup {q}] /\ highest' = highest /\ Works
      BY <1>8, Zenon DEF revalidate
    <2>2. /\ st'.routes = (st.routes \ {r}) \cup {q} /\ st'.epoch = st.epoch
          /\ process' = process
      BY <2>1 DEF TypeOK, States, Works
    <2>3. r \in Route
      BY <1>1
    <2>4. q.id = r.id /\ q.epoch = r.epoch /\ q.by = r.by
      BY <2>3 DEF Route
    <2>5. q.status = "CURRENT" => Dispatchable(r)
      BY <2>3 DEF Route
    <2>6. q.status = "CURRENT" => r.epoch = st.epoch
      BY <2>5 DEF Dispatchable
    <2>7. /\ q.epoch <= st.epoch /\ q.id <= highest
          /\ q.epoch = st.epoch => q.by = process
          /\ q.status = "CURRENT" => q.by = process
      BY <1>1, <2>4, <2>6 DEF RoutesBound
    <2> HIDE DEF q
    <2> QED
      BY <1>1, <2>1, <2>2, <2>7 DEF RoutesBound, RecoveredNeverCurrent
  <1>9. ASSUME Decoded
        PROVE  /\ file.image.highest \in Nat /\ file.image.epoch \in Nat
               /\ Imported(file.image).epoch = file.image.epoch + 1
               /\ LET s == [Imported(file.image) EXCEPT !.epoch = @ + 1, !.loaded = TRUE]
                  IN  s.routes = Imported(file.image).routes /\ s.epoch = file.image.epoch + 2
               /\ LET s == [Imported(file.image) EXCEPT !.epoch = @ + 1]
                  IN  s.routes = Imported(file.image).routes /\ s.epoch = file.image.epoch + 2
               /\ LET s == [Imported(file.image) EXCEPT !.loaded = TRUE]
                  IN  s.routes = Imported(file.image).routes /\ s.epoch = file.image.epoch + 1
    <2>1. file.image \in Image
      BY <1>9, FileKinds DEF Decoded, TypeOK, States
    <2>2. /\ file.image.highest \in Nat /\ file.image.epoch \in Nat
          /\ Imported(file.image).epoch = file.image.epoch + 1
          /\ Imported(file.image) \in States
      BY <2>1, ImportYields DEF Image
    <2> QED
      BY <2>2
  <1>10. CASE boot_process
    <2>1. CASE st'.routes = {}
      BY <2>1 DEF RoutesBound, RecoveredNeverCurrent
    <2>2. CASE st' = [Fresh EXCEPT !.epoch = 1]
      BY <2>1, <2>2 DEF Fresh
    <2>3. CASE /\ Decoded /\ st' = [Imported(file.image) EXCEPT !.epoch = @ + 1]
               /\ highest' = observe(0, file.image.highest)
      BY <1>1, <1>9, <2>3, ObserveBound, ImportKeeps
    <2> QED
      BY <1>10, <2>2, <2>3 DEF boot_process, Loadable, Decoded
  <1>11. CASE start
    <2>1. CASE st' = [st EXCEPT !.epoch = @ + 1] /\ highest' = highest
      <3>1. st'.routes = st.routes /\ st'.epoch = st.epoch + 1 /\ process' = process
        BY <1>11, <2>1 DEF TypeOK, States, start
      <3>2. \A r \in st.routes : r.epoch \in Nat
        BY <1>1 DEF Route
      <3> QED
        BY <1>1, <2>1, <3>1, <3>2 DEF RoutesBound, RecoveredNeverCurrent
    <2>2. CASE /\ Decoded
               /\ st' = [Imported(file.image) EXCEPT !.epoch = @ + 1, !.loaded = TRUE]
               /\ highest' = observe(highest, file.image.highest)
      BY <1>1, <1>9, <2>2, ObserveBound, ImportKeeps
    <2> QED
      BY <1>11, <2>1, <2>2 DEF start, Loadable, Decoded
  <1>12. CASE load
    BY <1>1, <1>9, <1>12, ObserveBound, ImportKeeps DEF load, Loadable, Decoded
  <1>13. CASE shutdown
    <2>1. /\ process' = process /\ highest' = highest /\ st'.epoch = st.epoch
          /\ st'.routes = Stale(st.routes)
      BY <1>13 DEF shutdown, TypeOK, States
    <2>2. \A r \in st'.routes : \E q \in st.routes : Same(r, q) /\ (r.status = "CURRENT" => r = q)
      BY <1>1, <2>1, StaleMarks
    <2> QED
      BY <1>1, <2>1, <2>2, MarkingKeeps
  <1>14. CASE crash
    BY <1>14 DEF crash, Fresh, RoutesBound, RecoveredNeverCurrent
  <1>15. ASSUME NEW t \in Savers,
                \/ save(t) \/ write_open(t) \/ write_close(t) \/ write_failed(t) \/ write_rename(t)
         PROVE  RoutesBound' /\ RecoveredNeverCurrent'
    BY <1>2, <1>15 DEF save, write_open, write_close, write_failed, write_rename
  <1>16. CASE UNCHANGED vars
    BY <1>2, <1>16 DEF vars
  <1> QED
    BY <1>3, <1>5, <1>6, <1>7, <1>8, <1>10, <1>11, <1>12, <1>13, <1>14, <1>15, <1>16
    DEF Next, Catalog

-----------------------------------------------------------------------------
(* The files.                                                               *)

\* Steps that touch no file, with savers that keep their images or give up.
LEMMA FilesUntouched ==
    ASSUME TypeOK, TypeOK', SavesSound, TmpSound, FileSound,
           file' = file, tmp' = tmp, saver' = saver, highest <= highest'
    PROVE  SavesSound' /\ TmpSound' /\ FileSound'
  <1>1. highest \in Nat /\ highest' \in Nat
    BY DEF TypeOK
  <1>2. SavesSound'
    <2> SUFFICES ASSUME NEW t \in Savers, saver[t].pc # "idle"
                 PROVE  saver[t].image.image.highest <= highest'
      BY DEF SavesSound, Sound, validate
    <2>1. saver[t].image.image.highest <= highest /\ saver[t].image.kind = "image"
      BY DEF SavesSound
    <2>2. saver[t].image.image.highest \in Nat
      BY <2>1, SaveImages DEF Image
    <2> QED
      BY <1>1, <2>1, <2>2
  <1>3. TmpSound'
    <2> SUFFICES ASSUME NEW t \in Savers, saver[t].pc = "written", tmp # NoFile,
                        ~\E u \in Savers : Writing(u)
                 PROVE  tmp.kind = "image" /\ Sound(tmp.image) /\ tmp.image.highest <= highest'
      BY DEF TmpSound, Writing, Sound, validate
    <2>1. tmp.kind = "image" /\ Sound(tmp.image) /\ tmp.image.highest <= highest
      BY DEF TmpSound
    <2>2. tmp.image.highest \in Nat
      BY <2>1, FileKinds DEF TypeOK, Image
    <2> QED
      BY <1>1, <2>1, <2>2
  <1>4. FileSound'
    BY DEF FileSound, Sound, validate
  <1> QED
    BY <1>2, <1>3, <1>4

\* What a save writes, what it may rename and what is in the state file stay sound.
LEMMA FilesStep ==
    ASSUME TypeOK, TypeOK', RecoveryInv, [Next]_vars
    PROVE  SavesSound' /\ TmpSound' /\ FileSound' /\ Observed'
  <1> DEFINE Goal == SavesSound' /\ TmpSound' /\ FileSound' /\ Observed'
  <1>1. /\ SavesSound /\ TmpSound /\ FileSound /\ Observed /\ RoutesBound
        /\ highest \in Nat /\ highest' \in Nat
    BY DEF RecoveryInv, TypeOK
  <1>2. file # NoFile => file.image.highest \in Nat
    BY <1>1, FileKinds DEF FileSound, TypeOK, Image
  <1>3. ASSUME file' = file, tmp' = tmp, saver' = saver, highest <= highest',
               up' # "down", up # "down"
        PROVE  Goal
    <2>1. Observed'
      BY <1>1, <1>2, <1>3 DEF Observed
    <2> QED
      BY <1>1, <1>3, <2>1, FilesUntouched
  <1>4. CASE Catalog
    <2>1. /\ file' = file /\ tmp' = tmp /\ saver' = saver /\ up' = up /\ up # "down"
          /\ highest' = highest \/ highest' = highest + 1
      BY <1>4 DEF Catalog, register_backend, fence_backend_boot, unregister_backend, route,
                  revalidate, Works, Alive, next_id
    <2> QED
      BY <1>1, <1>3, <2>1
  <1>5. ASSUME NEW t \in Savers, save(t) PROVE Goal
    <2> DEFINE i == export_persistent_state
    <2>1. /\ validate(i, st.limit) /\ up # "down" /\ up' = up /\ highest' = highest
          /\ file' = file /\ tmp' = tmp /\ saver[t].pc = "idle"
          /\ saver' = [saver EXCEPT ![t] = [pc |-> "exported", image |-> File(i)]]
      BY <1>5 DEF save, Alive
    <2>2. i.routes = st.routes /\ i.epoch = st.epoch /\ i.highest = highest
      BY DEF export_persistent_state
    <2>3. Sound(i) /\ i.highest <= highest
      <3>1. i.fenced = st.fenced /\ st.fenced \subseteq Boots /\ Boots = 1..MaxBoot
        BY DEF export_persistent_state, TypeOK, States, Boots
      <3>2. validate(i, Allowed)
        BY <2>1, <3>1, RaisedLimit DEF validate, TypeOK, States
      <3> QED
        BY <1>1, <2>1, <2>2, <3>2 DEF Sound, RoutesBound
    <2>4. saver'[t].pc = "exported" /\ saver'[t].image.kind = "image" /\ saver'[t].image.image = i
      BY <2>1 DEF TypeOK, File
    <2>5. \A u \in Savers : u # t => saver'[u] = saver[u]
      BY <2>1 DEF TypeOK
    <2> HIDE DEF i
    <2>6. SavesSound'
      BY <1>1, <2>1, <2>3, <2>4, <2>5 DEF SavesSound, Sound, validate
    <2>7. \A u \in Savers : Writing(u) => Writing(u)'
      BY <2>1, <2>5 DEF Writing
    <2>8. TmpSound'
      BY <1>1, <2>1, <2>4, <2>5, <2>7 DEF TmpSound, Sound, validate
    <2> QED
      BY <1>1, <2>1, <2>6, <2>8 DEF FileSound, Observed, Sound, validate
  <1>6. ASSUME NEW t \in Savers, write_open(t) PROVE Goal
    <2>1. /\ up' = up /\ highest' = highest /\ file' = file
          /\ saver[t].pc = "exported" /\ saver' = [saver EXCEPT ![t].pc = "writing"]
      BY <1>6 DEF write_open
    <2>2. /\ saver'[t].pc = "writing" /\ saver'[t].image = saver[t].image
          /\ \A u \in Savers : u # t => saver'[u] = saver[u]
      BY <2>1 DEF TypeOK, Saves
    <2>3. SavesSound'
      BY <1>1, <2>1, <2>2 DEF SavesSound, Sound, validate
    <2>4. Writing(t)'
      BY <2>2 DEF Writing
    <2>5. TmpSound'
      BY <2>4 DEF TmpSound
    <2>6. Observed'
      BY <1>1, <2>1, <2>2 DEF Observed
    <2> QED
      BY <1>1, <2>1, <2>3, <2>5, <2>6 DEF FileSound, Sound, validate
  <1>7. ASSUME NEW t \in Savers, write_close(t) PROVE Goal
    <2>1. /\ up' = up /\ highest' = highest /\ file' = file /\ tmp' = saver[t].image
          /\ saver[t].pc = "writing" /\ saver' = [saver EXCEPT ![t].pc = "written"]
      BY <1>7 DEF write_close, Writing
    <2>2. /\ saver'[t].pc = "written" /\ saver'[t].image = saver[t].image
          /\ \A u \in Savers : u # t => saver'[u] = saver[u]
      BY <2>1 DEF TypeOK, Saves
    <2>3. SavesSound'
      BY <1>1, <2>1, <2>2 DEF SavesSound, Sound, validate
    <2>4. tmp'.kind = "image" /\ Sound(tmp'.image) /\ tmp'.image.highest <= highest'
      BY <1>1, <2>1 DEF SavesSound
    <2>5. TmpSound'
      BY <2>4 DEF TmpSound, Sound, validate
    <2>6. Observed'
      BY <1>1, <2>1, <2>2 DEF Observed
    <2> QED
      BY <1>1, <2>1, <2>3, <2>5, <2>6 DEF FileSound, Sound, validate
  <1>8. ASSUME NEW t \in Savers, write_failed(t) PROVE Goal
    <2>1. /\ up' = up /\ highest' = highest /\ file' = file
          /\ tmp' = IF saver[t].pc = "exported" \/ Busy(t) THEN tmp ELSE NoFile
          /\ saver[t].pc # "idle" /\ saver' = [saver EXCEPT ![t] = IdleSave]
      BY <1>8 DEF write_failed
    <2>2. /\ saver'[t].pc = "idle"
          /\ \A u \in Savers : u # t => saver'[u] = saver[u]
      BY <2>1 DEF TypeOK, IdleSave
    <2>3. SavesSound'
      BY <1>1, <2>1, <2>2 DEF SavesSound, Sound, validate
    <2>4. \A u \in Savers \ {t} : Writing(u) <=> Writing(u)'
      BY <2>2 DEF Writing
    <2>5. CASE Busy(t)
      <3>1. \E u \in Savers : Writing(u)'
        BY <2>4, <2>5 DEF Busy
      <3> QED
        BY <1>1, <2>1, <2>2, <2>3, <3>1 DEF TmpSound, FileSound, Observed, Sound, validate
    <2>6. CASE saver[t].pc = "exported" /\ ~Busy(t)
      <3>1. ~Writing(t) /\ tmp' = tmp
        BY <2>1, <2>6 DEF Writing
      <3>2. TmpSound'
        BY <1>1, <2>1, <2>2, <2>4, <3>1 DEF TmpSound, Sound, validate
      <3> QED
        BY <1>1, <2>1, <2>2, <2>3, <3>2 DEF FileSound, Observed, Sound, validate
    <2>7. CASE saver[t].pc # "exported" /\ ~Busy(t)
      <3>1. tmp' = NoFile
        BY <2>1, <2>7
      <3> QED
        BY <1>1, <2>1, <2>2, <2>3, <3>1 DEF TmpSound, FileSound, Observed, Sound, validate
    <2> QED
      BY <2>5, <2>6, <2>7
  <1>9. ASSUME NEW t \in Savers, write_rename(t) PROVE Goal
    <2>1. /\ up' = up /\ highest' = highest /\ file' = tmp /\ tmp' = NoFile
          /\ tmp # NoFile /\ ~Busy(t)
          /\ saver[t].pc = "written" /\ saver' = [saver EXCEPT ![t] = IdleSave]
      BY <1>9 DEF write_rename
    <2>2. /\ saver'[t].pc = "idle"
          /\ \A u \in Savers : u # t => saver'[u] = saver[u]
      BY <2>1 DEF TypeOK, IdleSave
    <2>3. SavesSound'
      BY <1>1, <2>1, <2>2 DEF SavesSound, Sound, validate
    <2>4. ~\E u \in Savers : Writing(u)
      BY <2>1 DEF Busy, Writing
    <2>5. tmp.kind = "image" /\ Sound(tmp.image) /\ tmp.image.highest <= highest
      BY <1>1, <2>1, <2>4 DEF TmpSound
    <2>6. FileSound'
      BY <2>1, <2>5 DEF FileSound, Sound, validate
    <2>7. up # "down"
      BY <1>1, <2>1 DEF Observed
    <2> QED
      BY <2>1, <2>3, <2>5, <2>6, <2>7 DEF TmpSound, Observed
  <1>10. CASE boot_process
    <2>1. /\ file' = file /\ tmp' = tmp /\ saver' = saver /\ up' = "running"
          /\ \A t \in Savers : saver[t].pc = "idle"
      BY <1>1, <1>10 DEF boot_process, Loadable, Decoded, Observed
    <2>2. file # NoFile => file.image.highest <= highest'
      BY <1>2, <1>10, ObserveBound DEF boot_process, Loadable, Decoded
    <2> QED
      BY <1>1, <2>1, <2>2 DEF SavesSound, TmpSound, FileSound, Observed, Sound, validate
  <1>11. ASSUME up = "stopped", up' # "down", file' = file, tmp' = tmp, saver' = saver,
                \/ highest' = highest
                \/ Decoded /\ highest' = observe(highest, file.image.highest)
         PROVE  Goal
    <2>1. ASSUME Decoded, highest' = observe(highest, file.image.highest)
          PROVE  highest <= highest'
      <3>1. file.image.highest \in Nat
        BY <1>2, <2>1, FileKinds DEF Decoded, TypeOK
      <3> QED
        BY <1>1, <2>1, <3>1, ObserveBound
    <2>2. highest <= highest'
      BY <1>1, <1>11, <2>1
    <2> QED
      BY <1>3, <1>11, <2>2
  <1>12. CASE start
    BY <1>11, <1>12 DEF start, Loadable, Decoded
  <1>13. CASE load
    BY <1>11, <1>13 DEF load, Loadable, Decoded
  <1>14. CASE shutdown
    BY <1>1, <1>3, <1>14 DEF shutdown
  <1>15. CASE crash
    <2>1. file' = file /\ up' = "down" /\ \A t \in Savers : saver'[t].pc = "idle"
      BY <1>15 DEF crash, IdleSave
    <2> QED
      BY <1>1, <2>1 DEF SavesSound, TmpSound, FileSound, Observed, Sound, validate
  <1>16. CASE UNCHANGED vars
    BY <1>1, <1>16 DEF vars, SavesSound, TmpSound, FileSound, Observed, Sound, validate, Writing
  <1> QED
    BY <1>4, <1>5, <1>6, <1>7, <1>8, <1>9, <1>10, <1>12, <1>13, <1>14, <1>15, <1>16 DEF Next

-----------------------------------------------------------------------------
(* The results.                                                             *)

\* The invariant holds, for every number of concurrent saves.
LEMMA Invariant == Spec => [](TypeOK /\ RecoveryInv)
  <1>1. Init => RecoveryInv
    BY DEF Init, RecoveryInv, RoutesBound, RecoveredNeverCurrent, SavesSound, TmpSound,
           FileSound, Observed, Fresh, IdleSave
  <1>2. TypeOK /\ TypeOK' /\ RecoveryInv /\ [Next]_vars => RecoveryInv'
    BY DecisionsStep, FilesStep DEF RecoveryInv
  <1> QED
    BY <1>1, <1>2, TypeCorrect, PTL DEF Spec

\* No sequence of saves, crashes, loads, restarts, registrations and revalidations makes a
\* decision current again that an earlier process made (import_persistent_state).
THEOREM RecoveredStaysStale == Spec => []RecoveredNeverCurrent
  <1>1. RecoveryInv => RecoveredNeverCurrent
    BY DEF RecoveryInv
  <1> QED
    BY <1>1, Invariant, PTL

\* Wherever a process ends, and however many threads save at once, the state file is
\* absent or whole and within the larger of the two limits a process may have, so that
\* load() accepts it under that limit (write_image_atomic), where an open temporary file
\* excludes the other saves.
THEOREM StateFileLoads == Spec => []FileLoads
  <1>1. RecoveryInv => FileLoads
    BY DEF RecoveryInv, FileSound, FileLoads, Loadable, Sound, Allowed
  <1> QED
    BY <1>1, Invariant, PTL

\* An identity that is in the state file is not issued again, in any process: a process
\* has observed the highest identity of the file before it issues its own.
THEOREM DurableIdsStay == Spec => DurableIdNotReissued
  <1> DEFINE Kept == \A r \in st'.routes \ st.routes :
                        file.kind = "image" /\ r.status = "CURRENT" /\ r.id \notin Ids(st)
                            => r.id \notin Ids(file.image)
  <1>1. TypeOK /\ RecoveryInv /\ [Next]_vars => [Kept]_vars
    <2> SUFFICES ASSUME TypeOK, RecoveryInv, Next PROVE Kept
      OBVIOUS
    <2>1. st.routes \in SUBSET Route /\ highest \in Nat
      BY DEF TypeOK, States
    <2>2. ASSUME \A r \in st'.routes : r.status = "CURRENT" => \E q \in st.routes : Same(r, q)
          PROVE  Kept
      <3> SUFFICES ASSUME NEW r \in st'.routes, r.status = "CURRENT" PROVE r.id \in Ids(st)
        OBVIOUS
      <3>1. PICK q \in st.routes : Same(r, q)
        BY <2>2
      <3> QED
        BY <3>1 DEF Same, Ids
    <2>3. ASSUME NEW b, st'.routes = StaleBoot(st.routes, b) PROVE Kept
      BY <2>1, <2>2, <2>3, StaleBootMarks
    <2>4. ASSUME NEW b \in Boots, register_backend(b) PROVE Kept
      <3>1. st'.routes = StaleOthers(st.routes, b)
        BY <2>4 DEF register_backend, TypeOK, States
      <3> QED
        BY <2>1, <2>2, <3>1, StaleOthersMarks
    <2>5. ASSUME NEW b \in Boots, fence_backend_boot(b) PROVE Kept
      BY <2>3, <2>5 DEF fence_backend_boot, TypeOK, States
    <2>6. CASE unregister_backend
      BY <2>3, <2>6 DEF unregister_backend, TypeOK, States
    <2>7. CASE route
      <3> DEFINE n == [id |-> next_id(highest), epoch |-> st.epoch, boot |-> st.boot,
                       status |-> "CURRENT", by |-> process]
      <3>1. PICK kept \in SUBSET st.routes : st' = [st EXCEPT !.routes = kept \cup {n}]
        BY <2>1, <2>7, RouteCommits
      <3>2. st'.routes = kept \cup {n}
        BY <3>1 DEF TypeOK, States
      <3> SUFFICES ASSUME file.kind = "image", n.id \in Ids(file.image) PROVE FALSE
        BY <3>2
      <3>3. PICK q \in file.image.routes : q.id = n.id
        BY DEF Ids
      <3>4. file.image \in Image /\ file # NoFile /\ Sound(file.image)
        BY FileKinds DEF TypeOK, RecoveryInv, FileSound
      <3>5. q.id \in Nat /\ file.image.highest \in Nat /\ q.id <= file.image.highest
        BY <3>4 DEF Image, Route, Sound
      <3>6. up # "down"
        BY <2>7 DEF route
      <3>7. file.image.highest <= highest
        BY <3>4, <3>6 DEF RecoveryInv, Observed
      <3>8. n.id = highest + 1
        BY DEF next_id
      <3> QED
        BY <2>1, <3>3, <3>5, <3>7, <3>8
    <2>8. ASSUME NEW r \in st.routes, revalidate(r) PROVE Kept
      <3> DEFINE q == [r EXCEPT !.status = IF Dispatchable(r) THEN "CURRENT" ELSE "STALE"]
      <3>1. st' = [st EXCEPT !.routes = (@ \ {r}) \cup {q}]
        BY <2>8, Zenon DEF revalidate
      <3>2. st'.routes = (st.routes \ {r}) \cup {q}
        BY <3>1 DEF TypeOK, States
      <3>3. r \in Route
        BY <2>1
      <3>4. Same(q, r)
        BY <3>3 DEF Route, Same
      <3>5. \A x : Same(x, x)
        BY DEF Same
      <3> HIDE DEF q
      <3> QED
        BY <2>2, <3>2, <3>4, <3>5
    <2>9. ASSUME \A r \in st'.routes : r.status = "STALE" PROVE Kept
      BY <2>9
    <2>10. ASSUME Decoded, st'.routes = Imported(file.image).routes PROVE Kept
      <3>1. file.image \in Image
        BY <2>10, FileKinds DEF Decoded, TypeOK
      <3> QED
        BY <2>9, <2>10, <3>1, ImportYields
    <2>11. ASSUME Decoded
           PROVE  /\ [Imported(file.image) EXCEPT !.epoch = @ + 1, !.loaded = TRUE].routes
                        = Imported(file.image).routes
                  /\ [Imported(file.image) EXCEPT !.epoch = @ + 1].routes
                        = Imported(file.image).routes
                  /\ [Imported(file.image) EXCEPT !.loaded = TRUE].routes
                        = Imported(file.image).routes
      BY DEF Imported
    <2>12. CASE boot_process
      <3>1. [Fresh EXCEPT !.epoch = 1].routes = {}
        BY DEF Fresh
      <3> QED
        BY <2>9, <2>10, <2>11, <2>12, <3>1 DEF boot_process, Loadable, Decoded
    <2>13. ASSUME st'.routes = st.routes PROVE Kept
      BY <2>13
    <2>14. CASE start
      <3>1. [st EXCEPT !.epoch = @ + 1].routes = st.routes
        BY DEF TypeOK, States
      <3> QED
        BY <2>10, <2>11, <2>13, <2>14, <3>1 DEF start, Loadable, Decoded
    <2>15. CASE load
      BY <2>10, <2>11, <2>15 DEF load, Loadable, Decoded
    <2>16. CASE shutdown
      <3>1. st'.routes = Stale(st.routes)
        BY <2>16 DEF shutdown, TypeOK, States
      <3> QED
        BY <2>1, <2>9, <3>1, StaleMarks
    <2>17. CASE crash
      BY <2>9, <2>17 DEF crash, Fresh
    <2>18. ASSUME NEW t \in Savers,
                  \/ save(t) \/ write_open(t) \/ write_close(t) \/ write_failed(t) \/ write_rename(t)
           PROVE  Kept
      BY <2>13, <2>18 DEF save, write_open, write_close, write_failed, write_rename
    <2> QED
      BY <2>4, <2>5, <2>6, <2>7, <2>8, <2>12, <2>14, <2>15, <2>16, <2>17, <2>18
      DEF Next, Catalog
  <1>2. [][Kept]_vars => DurableIdNotReissued
    BY DEF DurableIdNotReissued
  <1> QED
    BY <1>1, <1>2, Invariant, PTL DEF Spec

\* The steps that leave the files, the saves and the durable fences alone.
LEMMA FencesUntouched ==
    ASSUME FencesKept, UNCHANGED <<file, tmp, saver, durable>>,
           up # "down", up' # "down",
           st'.loaded \/ (~st.loaded /\ st.fenced \subseteq st'.fenced)
    PROVE  FencesKept'
  BY DEF FencesKept

\* With at most one thread that saves, a fence that save() has reported written holds in
\* every later process, and in the one that saved it unless load() replaced its state.
THEOREM SavedFencesHold ==
    ASSUME \A t, u \in Savers : t = u
    PROVE  Spec => []SavedFencesSurvive
  <1>1. Init => FencesKept
    BY DEF Init, FencesKept, IdleSave
  <1>2. TypeOK /\ FencesKept /\ [Next]_vars => FencesKept'
    <2> SUFFICES ASSUME TypeOK, FencesKept, [Next]_vars PROVE FencesKept'
      OBVIOUS
    <2>1. CASE Catalog
      <3>1. /\ UNCHANGED <<file, tmp, saver, durable>> /\ up' = up /\ up # "down"
            /\ st'.loaded = st.loaded /\ st.fenced \subseteq st'.fenced
        <4>1. ASSUME NEW b \in Boots, register_backend(b)
              PROVE  st'.loaded = st.loaded /\ st.fenced \subseteq st'.fenced
          BY <4>1 DEF register_backend, TypeOK, States
        <4>2. ASSUME NEW b \in Boots, fence_backend_boot(b)
              PROVE  st'.loaded = st.loaded /\ st.fenced \subseteq st'.fenced
          BY <4>2 DEF fence_backend_boot, TypeOK, States
        <4>3. ASSUME unregister_backend
              PROVE  st'.loaded = st.loaded /\ st.fenced \subseteq st'.fenced
          BY <4>3 DEF unregister_backend, TypeOK, States
        <4>4. ASSUME route PROVE st'.loaded = st.loaded /\ st.fenced \subseteq st'.fenced
          <5>1. PICK kept : st' = [st EXCEPT !.routes = kept]
            BY <4>4, Zenon DEF route
          <5> QED
            BY <5>1 DEF TypeOK, States
        <4>5. ASSUME NEW r \in st.routes, revalidate(r)
              PROVE  st'.loaded = st.loaded /\ st.fenced \subseteq st'.fenced
          <5>1. PICK new : st' = [st EXCEPT !.routes = new]
            BY <4>5, Zenon DEF revalidate
          <5> QED
            BY <5>1 DEF TypeOK, States
        <4>6. UNCHANGED <<file, tmp, saver, durable>> /\ up' = up /\ up # "down"
          BY <2>1 DEF Catalog, register_backend, fence_backend_boot, unregister_backend, route,
                      revalidate, Works, Alive
        <4> QED
          BY <2>1, <4>1, <4>2, <4>3, <4>4, <4>5, <4>6 DEF Catalog
      <3> QED
        BY <3>1, FencesUntouched
    <2>2. ASSUME NEW t \in Savers, save(t) PROVE FencesKept'
      <3>1. /\ UNCHANGED <<up, st, file, tmp, durable>> /\ up # "down"
            /\ saver' = [saver EXCEPT ![t] = [pc |-> "exported",
                                              image |-> File(export_persistent_state)]]
        BY <2>2 DEF save, Alive
      <3>2. /\ saver'[t].pc = "exported" /\ saver'[t].image.kind = "image"
            /\ saver'[t].image.image.fenced = st.fenced
        BY <3>1 DEF TypeOK, File, export_persistent_state
      <3> QED
        BY <3>1, <3>2 DEF FencesKept
    <2>3. ASSUME NEW t \in Savers, write_open(t) PROVE FencesKept'
      <3>1. /\ UNCHANGED <<up, st, file, durable>> /\ saver[t].pc = "exported"
            /\ saver' = [saver EXCEPT ![t].pc = "writing"]
        BY <2>3 DEF write_open
      <3>2. saver'[t].pc = "writing" /\ saver'[t].image = saver[t].image
        BY <3>1 DEF TypeOK, Saves
      <3> QED
        BY <3>1, <3>2 DEF FencesKept
    <2>4. ASSUME NEW t \in Savers, write_close(t) PROVE FencesKept'
      <3>1. /\ UNCHANGED <<up, st, file, durable>> /\ saver[t].pc = "writing"
            /\ saver' = [saver EXCEPT ![t].pc = "written"] /\ tmp' = saver[t].image
        BY <2>4 DEF write_close, Writing
      <3>2. saver'[t].pc = "written" /\ saver'[t].image = saver[t].image
        BY <3>1 DEF TypeOK, Saves
      <3> QED
        BY <3>1, <3>2 DEF FencesKept
    <2>5. ASSUME NEW t \in Savers, write_failed(t) PROVE FencesKept'
      <3>1. UNCHANGED <<up, st, file, durable>> /\ saver' = [saver EXCEPT ![t] = IdleSave]
        BY <2>5 DEF write_failed
      <3>2. saver'[t].pc = "idle"
        BY <3>1 DEF TypeOK, IdleSave
      <3> QED
        BY <3>1, <3>2 DEF FencesKept
    <2>6. ASSUME NEW t \in Savers, write_rename(t) PROVE FencesKept'
      <3>1. /\ UNCHANGED <<up, st>> /\ file' = tmp /\ durable' = saver[t].image.image.fenced
            /\ tmp # NoFile /\ saver[t].pc = "written"
            /\ saver' = [saver EXCEPT ![t] = IdleSave]
        BY <2>6 DEF write_rename
      <3>2. saver'[t].pc = "idle" /\ tmp = saver[t].image /\ saver[t].image.kind = "image"
        BY <3>1 DEF TypeOK, IdleSave, FencesKept
      <3> QED
        BY <3>1, <3>2 DEF FencesKept
    <2>7. ASSUME Decoded
          PROVE  /\ [Imported(file.image) EXCEPT !.epoch = @ + 1].fenced = file.image.fenced
                 /\ [Imported(file.image) EXCEPT !.epoch = @ + 1, !.loaded = TRUE].loaded = TRUE
                 /\ [Imported(file.image) EXCEPT !.loaded = TRUE].loaded = TRUE
      BY DEF Imported, recovered_fences
    <2>8. CASE boot_process
      <3>1. /\ UNCHANGED <<file, tmp, saver, durable>> /\ up' = "running"
            /\ \A t \in Savers : saver[t].pc = "idle"
        BY <2>8 DEF boot_process, Loadable, Decoded, FencesKept
      <3>2. durable \subseteq st'.fenced
        <4>1. CASE file = NoFile
          BY <4>1 DEF FencesKept
        <4>2. CASE Decoded /\ st' = [Imported(file.image) EXCEPT !.epoch = @ + 1]
          <5>1. file # NoFile
            BY <4>2 DEF Decoded, NoFile
          <5> QED
            BY <2>7, <4>2, <5>1 DEF FencesKept
        <4> QED
          BY <2>8, <4>1, <4>2 DEF boot_process, Loadable, Decoded
      <3> QED
        BY <3>1, <3>2 DEF FencesKept
    <2>9. CASE start
      <3>1. [st EXCEPT !.epoch = @ + 1].fenced = st.fenced
            /\ [st EXCEPT !.epoch = @ + 1].loaded = st.loaded
        BY DEF TypeOK, States
      <3>2. st'.loaded \/ (~st.loaded /\ st.fenced \subseteq st'.fenced)
        BY <2>7, <2>9, <3>1 DEF start, Loadable, Decoded
      <3> QED
        BY <2>9, <3>2, FencesUntouched DEF start, Loadable, Decoded
    <2>10. CASE load
      <3>1. st'.loaded
        BY <2>7, <2>10 DEF load, Loadable, Decoded
      <3> QED
        BY <2>10, <3>1, FencesUntouched DEF load, Loadable, Decoded
    <2>11. CASE shutdown
      <3>1. st'.loaded = st.loaded /\ st'.fenced = st.fenced
        BY <2>11 DEF shutdown, TypeOK, States
      <3> QED
        BY <2>11, <3>1, FencesUntouched DEF shutdown
    <2>12. CASE crash
      <3>1. \A t \in Savers : saver'[t].pc = "idle"
        BY <2>12 DEF crash, IdleSave
      <3> QED
        BY <2>12, <3>1 DEF crash, FencesKept
    <2>13. CASE UNCHANGED vars
      BY <2>13 DEF vars, FencesKept
    <2> QED
      BY <2>1, <2>2, <2>3, <2>4, <2>5, <2>6, <2>8, <2>9, <2>10, <2>11, <2>12, <2>13 DEF Next
  <1>3. FencesKept => SavedFencesSurvive
    BY DEF FencesKept, SavedFencesSurvive
  <1> QED
    BY <1>1, <1>2, <1>3, TypeCorrect, PTL DEF Spec

=============================================================================
