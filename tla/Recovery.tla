------------------------------- MODULE Recovery -------------------------------
(***************************************************************************)
(* Durable state of the router across crashes and restarts: export, the    *)
(* replacement of the state file, import and start of the next process     *)
(* (src/src/router_persist.cpp, the file operations of                     *)
(* src/src/persistence.cpp, start() and shutdown() of src/src/router.cpp). *)
(*                                                                         *)
(* One backend, whose incarnations are its boots.  Between two saves the   *)
(* router registers, fences, routes and revalidates as in module Router,   *)
(* reduced to what is persisted or decides what a restart makes current.   *)
(***************************************************************************)
EXTENDS Integers, FiniteSets, FiniteSetsExt

CONSTANTS Savers,          \* threads that call save()
          SaveOnShutdown,  \* options.save_on_shutdown
          MaxIncarnations, \* limits.max_backend_incarnations of the router's options
          DefaultIncarnations, \* limits.max_backend_incarnations of ResourceLimits{}
          MaxHistory,      \* limits.max_route_history, in the image and so kept by a load
          MaxBoot,         \* bound: boots of the backend
          MaxId,           \* bound: identities a process issues
          MaxProcess,      \* bound: router processes
          MaxEpoch         \* bound: router epochs

ASSUME RecoveryAssumption ==
    /\ SaveOnShutdown \in BOOLEAN
    /\ MaxIncarnations \in Nat /\ DefaultIncarnations \in Nat
    /\ MaxHistory \in Nat \ {0}
    /\ MaxBoot \in Nat /\ MaxId \in Nat /\ MaxProcess \in Nat
    /\ MaxEpoch \in Nat

Boots == 1..MaxBoot

\* A retained decision: the epoch and boot its authority binds, and the process that
\* made it (history, never read).
Route == [id : Nat, epoch : Nat, boot : Boots, status : {"CURRENT", "STALE"}, by : Nat]

\* RouterPersistentState.
Image == [epoch : Nat, highest : Nat, boot : Boots \cup {0},
          fenced : SUBSET Boots, routes : SUBSET Route]

NoFile == [kind |-> "none"]
Torn == [kind |-> "torn"]
File(i) == [kind |-> "image", image |-> i]

VARIABLES process,  \* number of the running process, history
          up,       \* "down", "stopped", "running"; "stuck" holds the router's lock
          st,       \* CanonicalState of the running process
          highest,  \* IdAllocator::highest_issued() of the running process
          file, tmp,  \* the state file and the temporary file beside it
          saver,    \* save() in progress
          durable   \* history: fences in the last image save() reported written

vars == <<process, up, st, highest, file, tmp, saver, durable>>

\* `boot' is the registered incarnation, or 0, and its registration generation (a newer
\* incarnation registers with a newer one); `fresh' stands for the dynamic
\* evidence a registration or a publication brings and a restart never restores;
\* `limit' is state.limits.max_backend_incarnations; `loaded' (history) says that
\* load() replaced the state this process had.
Fresh == [epoch |-> 0, boot |-> 0, fresh |-> FALSE, fenced |-> {}, routes |-> {},
          limit |-> MaxIncarnations, loaded |-> FALSE]

States == [epoch : Nat, boot : Boots \cup {0}, fresh : BOOLEAN,
           fenced : SUBSET Boots, routes : SUBSET Route,
           limit : {MaxIncarnations, DefaultIncarnations}, loaded : BOOLEAN]

IdleSave == [pc |-> "idle", image |-> NoFile]

Images == [kind : {"image"}, image : Image]
Files == Images \cup {NoFile, Torn}
Saves == [pc : {"idle"}, image : {NoFile}]
            \cup [pc : {"exported", "writing", "written"}, image : Images]

\* The types of the variables: files, images and saves in progress, and the catalog.
TypeOK ==
    /\ process \in Nat
    /\ up \in {"down", "stopped", "running", "stuck"}
    /\ st \in States
    /\ highest \in Nat
    /\ file \in Files /\ tmp \in Files
    /\ saver \in [Savers -> Saves]
    /\ durable \in SUBSET Boots

Init ==
    /\ process = 0
    /\ up = "down"
    /\ st = Fresh
    /\ highest = 0
    /\ file = NoFile /\ tmp = NoFile
    /\ saver = [t \in Savers |-> IdleSave]
    /\ durable = {}

Alive == up \in {"stopped", "running"}
Ids(i) == {r.id : r \in i.routes}

-----------------------------------------------------------------------------
(***************************************************************************)
(* The catalog and the decisions, while the process is alive.              *)
(***************************************************************************)
Stale(rs) == {[r EXCEPT !.status = "STALE"] : r \in rs}
StaleBoot(rs, boot) == {IF r.boot = boot THEN [r EXCEPT !.status = "STALE"] ELSE r : r \in rs}
StaleOthers(rs, boot) == {IF r.boot = boot THEN r ELSE [r EXCEPT !.status = "STALE"] : r \in rs}

Works == UNCHANGED <<process, up, file, tmp, saver, durable>>

\* register_backend: refused for a fenced boot and for a registration that does not
\* advance; the stale pass leaves only decisions of the registered boot CURRENT.
register_backend(boot) ==
    /\ up = "running"
    /\ boot \notin st.fenced
    /\ boot > st.boot
    /\ st' = [st EXCEPT !.boot = boot, !.fresh = TRUE,
                        !.routes = StaleOthers(@, boot)]
    /\ UNCHANGED highest
    /\ Works

\* fence_backend_boot, at most max_backend_incarnations of them, after shutdown() too;
\* the registered boot leaves the catalog.
fence_backend_boot(boot) ==
    /\ Alive
    /\ boot \notin st.fenced
    /\ Cardinality(st.fenced) < st.limit
    /\ st' = [st EXCEPT !.fenced = @ \cup {boot},
                        !.boot = IF st.boot = boot THEN 0 ELSE @,
                        !.fresh = @ /\ st.boot # boot,
                        !.routes = StaleBoot(@, boot)]
    /\ UNCHANGED highest
    /\ Works

\* Mutant: a backend that is not registered is fenced like one that is.
unregister_backend_unchecked ==
    /\ up = "running"
    /\ st' = [st EXCEPT !.fenced = @ \cup {st.boot}, !.boot = 0, !.fresh = FALSE]
    /\ UNCHANGED highest
    /\ Works

\* unregister_backend fences the boot too, without looking at the limit.
unregister_backend ==
    /\ up = "running"
    /\ st.boot # 0
    /\ st' = [st EXCEPT !.fenced = @ \cup {st.boot}, !.boot = 0, !.fresh = FALSE,
                        !.routes = StaleBoot(@, st.boot)]
    /\ UNCHANGED highest
    /\ Works

Dispatchable(r) == r.epoch = st.epoch /\ st.boot # 0 /\ r.boot = st.boot
                   /\ st.fresh /\ st.boot \notin st.fenced

\* IdAllocator::next.
next_id(h) == h + 1

Oldest(rs) == CHOOSE r \in rs : \A q \in rs : r.id <= q.id

\* route: a new decision on the registered boot, the oldest evicted at the limit.
route ==
    /\ up = "running"
    /\ st.boot # 0 /\ st.fresh /\ st.boot \notin st.fenced
    /\ highest < MaxId
    /\ highest' = next_id(highest)
    /\ LET r == [id |-> next_id(highest), epoch |-> st.epoch, boot |-> st.boot,
                 status |-> "CURRENT", by |-> process]
           kept == IF Cardinality(st.routes) < MaxHistory THEN st.routes
                   ELSE st.routes \ {Oldest(st.routes)}
       IN  st' = [st EXCEPT !.routes = {q \in kept : q.id # r.id} \cup {r}]
    /\ Works

\* revalidate: a retained decision is CURRENT exactly if its authority compares.
revalidate(r) ==
    /\ up = "running"
    /\ st' = [st EXCEPT !.routes = (@ \ {r}) \cup
                {[r EXCEPT !.status = IF Dispatchable(r) THEN "CURRENT" ELSE "STALE"]}]
    /\ UNCHANGED highest
    /\ Works

-----------------------------------------------------------------------------
(***************************************************************************)
(* Saving.                                                                 *)
(***************************************************************************)
export_persistent_state ==
    [epoch |-> st.epoch, highest |-> highest, boot |-> st.boot,
     fenced |-> st.fenced, routes |-> st.routes]

\* RouterPersistentState::validate, the limits only.
validate(i, limit) == Cardinality(i.fenced) <= limit /\ Cardinality(i.routes) <= MaxHistory

\* save: the image is exported under the shared lock and encoded; one that does not
\* validate is refused and nothing is written.
save(t) ==
    /\ Alive
    /\ saver[t].pc = "idle"
    /\ validate(export_persistent_state, st.limit)
    /\ saver' = [saver EXCEPT ![t] = [pc |-> "exported", image |-> File(export_persistent_state)]]
    /\ UNCHANGED <<process, up, st, highest, file, tmp, durable>>

\* Mutant: the state file itself is truncated and written.
write_open_in_place(t) ==
    /\ saver[t].pc = "exported"
    /\ file' = Torn
    /\ saver' = [saver EXCEPT ![t].pc = "writing"]
    /\ UNCHANGED <<process, up, st, highest, tmp, durable>>

Writing(t) == saver[t].pc = "writing"
Busy(t) == \E u \in Savers \ {t} : Writing(u)

\* write_image_atomic, up to the open of the one temporary file, which truncates it.  With
\* fopen_s an open file is exclusive: while another save has it open, the open fails.
write_open(t) ==
    /\ saver[t].pc = "exported"
    /\ ~Busy(t)
    /\ tmp' = Torn
    /\ saver' = [saver EXCEPT ![t].pc = "writing"]
    /\ UNCHANGED <<process, up, st, highest, file, durable>>

\* The image is written, flushed and closed.
write_close(t) ==
    /\ Writing(t)
    /\ tmp' = saver[t].image
    /\ saver' = [saver EXCEPT ![t].pc = "written"]
    /\ UNCHANGED <<process, up, st, highest, file, durable>>

\* The open fails; or a write, a flush, the close or the rename does, and the temporary
\* file is removed, unless another save has it open.
write_failed(t) ==
    /\ saver[t].pc # "idle"
    /\ tmp' = IF saver[t].pc = "exported" \/ Busy(t) THEN tmp ELSE NoFile
    /\ saver' = [saver EXCEPT ![t] = IdleSave]
    /\ UNCHANGED <<process, up, st, highest, file, durable>>

\* The rename, of whatever the temporary file now is.  It needs one that nobody has open.
write_rename(t) ==
    /\ saver[t].pc = "written"
    /\ tmp # NoFile /\ ~Busy(t)
    /\ file' = tmp
    /\ tmp' = NoFile
    /\ durable' = saver[t].image.image.fenced
    /\ saver' = [saver EXCEPT ![t] = IdleSave]
    /\ UNCHANGED <<process, up, st, highest>>

-----------------------------------------------------------------------------
(***************************************************************************)
(* Loading and the life of a process.                                      *)
(***************************************************************************)
\* decode refuses a torn image (checksums, lengths, digest) and one that does not
\* validate under the limit of the router that loads it.
Loadable(limit) == file.kind = "image" /\ validate(file.image, limit)

\* Mutants: decisions come back with the status they were saved with; fences do not
\* come back.
routes_as_saved(i) == i.routes
fences_forgotten(i) == {}

\* import_persistent_state: identity and history come back, every decision STALE, no
\* dynamic evidence, and the epoch after the saved one.  The image has no field for
\* max_backend_incarnations: the decoded limits, which replace the router's, have its
\* default.
recovered_routes(i) == Stale(i.routes)
recovered_fences(i) == i.fenced
Imported(i) == [epoch |-> i.epoch + 1, boot |-> i.boot, fresh |-> FALSE,
                fenced |-> recovered_fences(i), routes |-> recovered_routes(i),
                limit |-> DefaultIncarnations, loaded |-> FALSE]

\* Mutant: the saved identities are not taken into account.
observe_nothing(h, seen) == h

\* IdAllocator::observe.  The plans that import rebuilds take identities of the same
\* counter, which only makes gaps.
observe(h, seen) == Max({h, seen})

\* start of a router that was shut down: with load_on_start the file replaces its state,
\* and the epoch advances either way.
start ==
    /\ up = "stopped"
    /\ up' = "running"
    /\ \/ /\ st.epoch < MaxEpoch
          /\ st' = [st EXCEPT !.epoch = @ + 1]
          /\ UNCHANGED highest
       \/ /\ Loadable(st.limit)
          /\ file.image.epoch + 2 <= MaxEpoch
          /\ st' = [Imported(file.image) EXCEPT !.epoch = @ + 1, !.loaded = TRUE]
          /\ highest' = observe(highest, file.image.highest)
    /\ UNCHANGED <<process, file, tmp, saver, durable>>

\* A new process and its start().  With a state file it has load_on_start and runs only
\* if the file loads; the epoch advances once in the import and once in start().
boot_process ==
    /\ up = "down"
    /\ process < MaxProcess
    /\ process' = process + 1
    /\ \/ /\ file = NoFile
          /\ st' = [Fresh EXCEPT !.epoch = 1]
          /\ highest' = 0
          /\ up' = "running"
       \/ /\ Loadable(MaxIncarnations)
          /\ file.image.epoch + 2 <= MaxEpoch
          /\ st' = [Imported(file.image) EXCEPT !.epoch = @ + 1]
          /\ highest' = observe(0, file.image.highest)
          /\ up' = "running"
    /\ UNCHANGED <<file, tmp, saver, durable>>

\* load: only into a router that is not running.
load ==
    /\ up = "stopped"
    /\ Loadable(st.limit)
    /\ file.image.epoch < MaxEpoch
    /\ st' = [Imported(file.image) EXCEPT !.loaded = TRUE]
    /\ highest' = observe(highest, file.image.highest)
    /\ UNCHANGED <<process, up, file, tmp, saver, durable>>

\* shutdown: every CURRENT decision goes STALE.  With save_on_shutdown it then exports
\* under the lock it holds itself, and never gets further.
shutdown ==
    /\ up = "running"
    /\ st' = [st EXCEPT !.routes = Stale(@)]
    /\ up' = IF SaveOnShutdown THEN "stuck" ELSE "stopped"
    /\ UNCHANGED <<process, highest, file, tmp, saver, durable>>

\* The process ends, by a crash or an exit, between any two steps.
crash ==
    /\ up # "down"
    /\ up' = "down"
    /\ st' = Fresh
    /\ highest' = 0
    /\ saver' = [t \in Savers |-> IdleSave]
    /\ UNCHANGED <<process, file, tmp, durable>>

Catalog ==
    \/ \E b \in Boots : register_backend(b)
    \/ \E b \in Boots : fence_backend_boot(b)
    \/ unregister_backend
    \/ route
    \/ \E r \in st.routes : revalidate(r)

Next ==
    \/ Catalog
    \/ \E t \in Savers : \/ save(t)
                         \/ write_open(t)
                         \/ write_close(t)
                         \/ write_failed(t)
                         \/ write_rename(t)
    \/ boot_process
    \/ start
    \/ load
    \/ shutdown
    \/ crash

Spec == Init /\ [][Next]_vars

-----------------------------------------------------------------------------
\* Whatever is interrupted where, the state file is absent or whole, and load() of a
\* router that allows as many incarnations as the options and the defaults do accepts
\* it.  (Options below the default are not enough: after a load the process lives
\* under the default and saves what the next one, under its options, refuses.)
FileLoads == file = NoFile \/ Loadable(Max({MaxIncarnations, DefaultIncarnations}))

\* A decision that is CURRENT was made by this process: no sequence of saves, crashes,
\* loads, restarts, registrations and revalidations revives one from a state file.
RecoveredNeverCurrent ==
    \A r \in st.routes : r.status = "CURRENT" => r.by = process

\* A fence that a completed save() has written holds in every later process, and in the
\* one that saved it unless load() threw away what that process had.
SavedFencesSurvive == up = "running" /\ ~st.loaded => durable \subseteq st.fenced

\* An identity that is in the state file is not issued again, in any process.
DurableIdNotReissued ==
    [][\A r \in st'.routes \ st.routes :
          file.kind = "image" /\ r.status = "CURRENT" /\ r.id \notin Ids(st)
              => r.id \notin Ids(file.image)]_vars

=============================================================================
