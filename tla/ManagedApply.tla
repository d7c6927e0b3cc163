---------------------------- MODULE ManagedApply ----------------------------
(***************************************************************************)
(* The manager-owned configuration store and the operations that change    *)
(* it: apply (create, update), adoption of an external file, enable,       *)
(* disable and delete (internal/manager/apply.go, adopt.go, lifecycle.go,  *)
(* managed_store.go, configurations.go).                                   *)
(*                                                                         *)
(* An apply is prepared by the owner, dry-run by a goroutine outside the   *)
(* owner, and finished by the owner; other commands run in between.  What  *)
(* the owner then does is a sequence of durable writes (content file,      *)
(* metadata file, registry of external files), and the manager may stop    *)
(* between any two of them.  A write may fail before or after the new file *)
(* is in place.                                                            *)
(*                                                                         *)
(* A body is the digest of a rendered configuration.  Supervision is       *)
(* reduced to which content revision of a configuration a child runs; what *)
(* keeps a child from running is the subject of Supervisor.  There is one  *)
(* external file, named by its digest.                                     *)
(***************************************************************************)
EXTENDS Naturals, FiniteSets

CONSTANTS
  Ids,         \* configuration IDs the manager may draw
  Jobs,        \* apply and adopt requests
  Bodies,      \* digests of rendered configurations
  Sources,     \* digests of the external file
  None,
  MaxRev,      \* bound: revisions of a configuration
  MaxMishaps,  \* bound: failed writes and stops of the manager together
  MaxEdits     \* bound: edits of the external file or of the store by others

ASSUME ApplyAssumption ==
  /\ None \notin Ids \cup Jobs \cup Bodies \cup Sources
  /\ MaxRev \in Nat \ {0}
  /\ MaxMishaps \in Nat
  /\ MaxEdits \in Nat

VARIABLES
  up,        \* the manager is running
  configs,   \* m.managedConfigs
  disk,      \* the metadata files
  content,   \* the content files of each configuration, by content revision
  source,    \* the external file
  ext,       \* its entry in m.externalConfigs
  registry,  \* its entry in the registry file
  child,     \* content revision the child of each configuration runs, 0: none
  job,       \* the request goroutines
  owner,     \* where the owner stands in a command
  drawn,     \* IDs handed out
  suspect,   \* history: IDs whose store a stale commit, a failed write or
             \* another program touched
  faults, crashes, edits

store == <<configs, disk, content>>
extern == <<source, ext, registry>>
bounds == <<faults, crashes, edits>>
vars == <<up, store, extern, child, job, owner, drawn, suspect, bounds>>

Revs == 1 .. MaxRev

NoConfig == [rev |-> 0, crev |-> 0, active |-> 0, body |-> None, enabled |-> FALSE]

Exists(c) == c.rev # 0

\* Equal but for the active revision, which is written after the fact.
Same(c, d) == [c EXCEPT !.active = 0] = [d EXCEPT !.active = 0]

NoExternal == [sig |-> None, by |-> None]

NewJob == [at |-> "new", id |-> None, cfg |-> NoConfig, prev |-> NoConfig,
           live |-> FALSE, sig |-> None, verdict |-> "none"]

Idle == [at |-> "idle", job |-> None, id |-> None]

Config == [rev: 0 .. MaxRev, crev: 0 .. MaxRev, active: 0 .. MaxRev,
           body: Bodies \cup {None}, enabled: BOOLEAN]
External == [sig: Sources \cup {None}, by: Ids \cup {None}]
Verdicts == {"none", "stale", "rejected", "succeeded", "failed", "rolled_back", "lost"}

Request == [at: {"new", "prepared", "checked", "finishing", "done"}, id: Ids \cup {None},
            cfg: Config, prev: Config, live: BOOLEAN, sig: Sources \cup {None},
            verdict: Verdicts]

\* Where the owner stands in an apply, and in another command.
ApplyPlaces == {"content", "metadata", "adopt", "undo", "activate", "rollback", "remove",
                "settle", "restore", "restart"}
OtherPlaces == {"lifecycle", "delete", "deleted", "purge"}

Place == [at: {"idle"} \cup ApplyPlaces \cup OtherPlaces,
          job: Jobs \cup {None}, id: Ids \cup {None}]

\* Shape of the state; a configuration's content revision never exceeds its revision.
TypeOK ==
  /\ up \in BOOLEAN
  /\ configs \in [Ids -> Config]
  /\ disk \in [Ids -> Config]
  /\ \A i \in Ids : configs[i].crev <= configs[i].rev /\ disk[i].crev <= disk[i].rev
  /\ content \in [Ids -> [Revs -> Bodies \cup {None}]]
  /\ source \in Sources \cup {None}
  /\ ext \in External
  /\ registry \in External
  /\ child \in [Ids -> 0 .. MaxRev]
  /\ job \in [Jobs -> Request]
  /\ owner \in Place
  /\ drawn \subseteq Ids
  /\ suspect \subseteq Ids
  /\ faults \in Nat /\ crashes \in Nat
  /\ faults + crashes <= MaxMishaps
  /\ edits \in 0 .. MaxEdits

Init ==
  /\ up = TRUE
  /\ configs = [i \in Ids |-> NoConfig]
  /\ disk = configs
  /\ content = [i \in Ids |-> [r \in Revs |-> None]]
  /\ source \in Sources
  /\ ext = NoExternal
  /\ registry = NoExternal
  /\ child = [i \in Ids |-> 0]
  /\ job = [j \in Jobs |-> NewJob]
  /\ owner = Idle
  /\ drawn = {}
  /\ suspect = {}
  /\ faults = 0 /\ crashes = 0 /\ edits = 0

-----------------------------------------------------------------------------
(* Durable writes.                                                         *)

Fault ==
  /\ faults + crashes < MaxMishaps
  /\ faults' = faults + 1
  /\ UNCHANGED <<crashes, edits>>

\* writeAtomicFile failed: the old file or, after the rename, the new one.
Either(old, new) == {old, new}

\* managedConfigurationIntact: the content file matches the metadata.
Intact(i, c) == content[i][c.crev] = c.body

\* refreshExternalConfigurationRegistry: an edited source is no longer adopted.
Refreshed == [sig |-> source, by |-> IF ext.sig = source THEN ext.by ELSE None]

Refresh ==
  /\ ext' = Refreshed
  /\ UNCHANGED source
  /\ \/ registry' = Refreshed /\ UNCHANGED bounds
     \/ registry' \in Either(registry, Refreshed) /\ Fault

\* configurationPaths: what reconciliation may run.
Runnable(i) == Exists(configs[i]) /\ configs[i].enabled /\ Intact(i, configs[i])

\* One reconciliation: refresh the registry, start and stop children, record
\* the active revision of children found healthy now (those of confirmed) or
\* already running before.
ReconcileConfirming(confirmed) ==
  /\ Refresh
  /\ child' \in {f \in [Ids -> 0 .. MaxRev] : \A i \in Ids :
                   f[i] \in {0} \cup (IF Runnable(i) THEN {configs[i].crev} ELSE {})}
  /\ \A i \in confirmed : child'[i] # 0
  /\ \E due \in SUBSET {i \in Ids : child'[i] # 0 /\ (child[i] = child'[i] \/ i \in confirmed)} :
       LET written(f) == [i \in Ids |->
             IF i \in due THEN [configs[i] EXCEPT !.active = configs[i].crev] ELSE f[i]]
       IN  configs' = written(configs) /\ disk' = written(disk)

Reconcile == ReconcileConfirming({})

OwnerIdle == up /\ owner = Idle

LoopReconcile ==
  /\ OwnerIdle
  /\ Reconcile
  /\ UNCHANGED <<up, content, job, owner, drawn, suspect>>

-----------------------------------------------------------------------------
(* prepareManagedApply and prepareExternalAdoption.                        *)

Prepared(j, i, cfg, prev, sig) ==
  job' = [job EXCEPT ![j] = [NewJob EXCEPT !.at = "prepared", !.id = i, !.cfg = cfg,
            !.prev = prev, !.sig = sig,
            !.live = Exists(prev) /\ child[i] = prev.crev]]

Ended(j, verdict) == [job EXCEPT ![j].at = "done", ![j].verdict = verdict]

New(body) == [rev |-> 1, crev |-> 1, active |-> 0, body |-> body, enabled |-> TRUE]

\* A new configuration gets an ID never used before.
PrepareCreate(j, i, body) ==
  /\ OwnerIdle
  /\ job[j].at = "new"
  /\ i \notin drawn
  /\ drawn' = drawn \cup {i}
  /\ Prepared(j, i, New(body), NoConfig, None)
  /\ UNCHANGED <<up, store, extern, child, owner, suspect, bounds>>

PrepareUpdate_InPlace(j, i, body, expected) ==  \* mutation: reuses the content file
  /\ OwnerIdle
  /\ job[j].at = "new"
  /\ Exists(configs[i]) /\ configs[i].rev = expected /\ expected < MaxRev
  /\ Intact(i, configs[i])
  /\ Prepared(j, i, [configs[i] EXCEPT !.rev = expected + 1, !.body = body],
              configs[i], None)
  /\ UNCHANGED <<up, store, extern, child, owner, drawn, suspect, bounds>>

\* expected is the revision the client read before.
PrepareUpdate(j, i, body, expected) ==
  /\ OwnerIdle
  /\ job[j].at = "new"
  /\ Exists(configs[i])
  /\ configs[i].rev < MaxRev
  /\ LET c == configs[i]
         next == [c EXCEPT !.rev = c.rev + 1, !.crev = c.rev + 1, !.body = body]
     IN  IF expected # c.rev THEN job' = Ended(j, "stale")
         ELSE IF ~Intact(i, c) THEN job' = Ended(j, "rejected")
         ELSE Prepared(j, i, next, c, None)
  /\ UNCHANGED <<up, store, extern, child, owner, drawn, suspect, bounds>>

PrepareAdopt(j, i, body) ==
  /\ OwnerIdle
  /\ job[j].at = "new"
  /\ i \notin drawn
  /\ Refresh
  /\ Refreshed.sig # None
  /\ IF Refreshed.by = None
     THEN /\ drawn' = drawn \cup {i}
          /\ Prepared(j, i, New(body), NoConfig, source)
     ELSE job' = Ended(j, "rejected") /\ UNCHANGED drawn
  /\ UNCHANGED <<up, store, child, owner, suspect>>

\* The dry-run, outside the owner; a negative verdict is final.
DryRun(j, accepted) ==
  /\ job[j].at = "prepared"
  /\ job' = [job EXCEPT ![j].at = "checked",
                        ![j].verdict = IF accepted THEN "none" ELSE "rejected"]
  /\ UNCHANGED <<up, store, extern, child, owner, drawn, suspect, bounds>>

\* The mailbox is full: the second command is never executed.
FinishLost(j) ==
  /\ job[j].at = "checked"
  /\ job' = Ended(j, "lost")
  /\ UNCHANGED <<up, store, extern, child, owner, drawn, suspect, bounds>>

-----------------------------------------------------------------------------
(* finishManagedApply.                                                     *)

Go(at, j) == owner' = [at |-> at, job |-> j, id |-> job[j].id]

Finish(j, verdict) == owner' = Idle /\ job' = Ended(j, verdict)

At(at, j) == up /\ owner.at = at /\ owner.job = j

\* The keyboard is resolved and its claims are checked again (ok); the revision
\* is not.
StartFinish(j, ok) ==
  /\ OwnerIdle
  /\ job[j].at = "checked"
  /\ IF ok /\ job[j].verdict = "none"
     THEN Go("content", j) /\ job' = [job EXCEPT ![j].at = "finishing"]
     ELSE Finish(j, "rejected")
  /\ UNCHANGED <<up, store, extern, child, drawn, suspect, bounds>>

WriteContent(j) ==
  LET i == job[j].id
      new == [content EXCEPT ![i][job[j].cfg.crev] = job[j].cfg.body] IN
  /\ At("content", j)
  /\ \/ content' = new /\ Go("metadata", j) /\ UNCHANGED <<job, bounds>>
     \/ content' \in Either(content, new) /\ Fault /\ Finish(j, "rejected")
  /\ suspect' = IF Same(configs[i], job[j].prev) THEN suspect ELSE suspect \cup {i}
  /\ UNCHANGED <<up, configs, disk, extern, child, drawn>>

\* What follows the commit of an apply.
AfterCommit(j) ==
  IF job[j].sig # None THEN Go("adopt", j) /\ UNCHANGED job
  ELSE IF job[j].cfg.enabled THEN Go("activate", j) /\ UNCHANGED job
  ELSE Finish(j, "succeeded")

WriteMetadata(j) ==
  LET i == job[j].id
      new == [disk EXCEPT ![i] = job[j].cfg] IN
  /\ At("metadata", j)
  /\ \/ /\ disk' = new
        /\ configs' = [configs EXCEPT ![i] = job[j].cfg]
        /\ AfterCommit(j)
        /\ UNCHANGED <<suspect, bounds>>
     \/ /\ disk' \in Either(disk, new)
        /\ Fault
        /\ Finish(j, "rejected")
        /\ suspect' = suspect \cup {i}
        /\ UNCHANGED configs
  /\ UNCHANGED <<up, content, extern, child, drawn>>

\* markExternalConfigurationAdopted, if the source is still the one prepared.
MarkAdopted(j) ==
  LET new == [sig |-> job[j].sig, by |-> job[j].id] IN
  /\ At("adopt", j)
  /\ IF ext.sig = job[j].sig /\ source = job[j].sig
     THEN \/ ext' = new /\ registry' = new /\ Go("activate", j) /\ UNCHANGED bounds
          \/ /\ ext' = [ext EXCEPT !.by = None]
             /\ registry' \in Either(registry, new)
             /\ Fault
             /\ Go("undo", j)
     ELSE Go("undo", j) /\ UNCHANGED <<ext, registry, bounds>>
  /\ UNCHANGED <<up, store, source, child, job, drawn, suspect>>

\* removeManagedConfigurationMetadata: the file may be gone although it failed.
RemoveMetadata(i) ==
  LET without(f) == [f EXCEPT ![i] = NoConfig] IN
  \/ disk' = without(disk) /\ configs' = without(configs) /\ UNCHANGED bounds
  \/ disk' = without(disk) /\ configs' = without(configs) /\ Fault
  \/ UNCHANGED <<disk, configs>> /\ Fault

\* The hand-off failed; whether the metadata could be removed is not checked.
UndoStore(j) ==
  /\ At("undo", j)
  /\ RemoveMetadata(job[j].id)
  /\ Finish(j, "rejected")
  /\ UNCHANGED <<up, content, extern, child, drawn, suspect>>

\* Reconcile with the validated snapshot; the child is confirmed or it is not.
Activate(j) ==
  /\ At("activate", j)
  /\ \/ ReconcileConfirming({job[j].id}) /\ Finish(j, "succeeded")
     \/ Reconcile /\ Go("rollback", j) /\ UNCHANGED job
  /\ UNCHANGED <<up, content, drawn, suspect>>

-----------------------------------------------------------------------------
(* rollbackManagedApply.                                                   *)

\* The new child is stopped.  A new configuration first gives its source back.
Rollback(j) ==
  LET i == job[j].id
      free == [ext EXCEPT !.by = None] IN
  /\ At("rollback", j)
  /\ child' = [child EXCEPT ![i] = 0]
  /\ IF Exists(job[j].prev)
     THEN Go("restore", j) /\ UNCHANGED <<ext, registry, job, bounds>>
     ELSE IF job[j].sig = None \/ ext.by # i
     THEN Go("remove", j) /\ UNCHANGED <<ext, registry, job, bounds>>
     ELSE \/ ext' = free /\ registry' = free /\ Go("remove", j) /\ UNCHANGED <<job, bounds>>
          \/ /\ registry' \in Either(registry, free)
             /\ Fault
             /\ Finish(j, "failed")
             /\ UNCHANGED ext
  /\ UNCHANGED <<up, store, source, drawn, suspect>>

RemoveNew(j) ==
  /\ At("remove", j)
  /\ RemoveMetadata(job[j].id)
  /\ Go("settle", j)
  /\ UNCHANGED <<up, content, extern, child, job, drawn, suspect>>

Settle(j) ==
  /\ At("settle", j)
  /\ Reconcile
  /\ Finish(j, "failed")
  /\ UNCHANGED <<up, content, drawn, suspect>>

RestorePrevious_InMemory(j) ==  \* mutation: does not write the metadata back
  /\ At("restore", j)
  /\ configs' = [configs EXCEPT ![job[j].id] = job[j].prev]
  /\ Go("restart", j)
  /\ UNCHANGED <<up, disk, content, extern, child, job, drawn, suspect, bounds>>

RestorePrevious(j) ==
  LET i == job[j].id
      old == [disk EXCEPT ![i] = job[j].prev] IN
  /\ At("restore", j)
  /\ \/ /\ disk' = old
        /\ configs' = [configs EXCEPT ![i] = job[j].prev]
        /\ Go("restart", j)
        /\ UNCHANGED <<job, suspect, bounds>>
     \/ /\ disk' \in Either(disk, old)
        /\ Fault
        /\ Finish(j, "failed")
        /\ suspect' = suspect \cup {i}
        /\ UNCHANGED configs
  /\ UNCHANGED <<up, content, extern, child, drawn>>

RestartPrevious_Optimistic(j) ==  \* mutation: does not look at the child
  /\ At("restart", j)
  /\ Reconcile
  /\ Finish(j, "rolled_back")
  /\ UNCHANGED <<up, content, drawn, suspect>>

\* Rolled back, if the previous revision did not run or runs again.
RestartPrevious(j) ==
  LET i == job[j].id IN
  /\ At("restart", j)
  /\ Reconcile
  /\ Finish(j, IF ~job[j].live \/ child'[i] = job[j].prev.crev
               THEN "rolled_back" ELSE "failed")
  /\ UNCHANGED <<up, content, drawn, suspect>>

-----------------------------------------------------------------------------
(* Lifecycle commands.  A revision other than the current one is refused.  *)

SetEnabled(i, enabled, expected) ==
  LET c == configs[i]
      new == [c EXCEPT !.enabled = enabled, !.rev = c.rev + 1] IN
  /\ OwnerIdle
  /\ Exists(c) /\ c.rev = expected /\ c.rev < MaxRev
  /\ enabled => Intact(i, c)
  /\ c.enabled # enabled
  /\ \/ /\ disk' = [disk EXCEPT ![i] = new]
        /\ configs' = [configs EXCEPT ![i] = new]
        /\ owner' = [at |-> "lifecycle", job |-> None, id |-> i]
        /\ UNCHANGED <<suspect, bounds>>
     \/ /\ disk' \in Either(disk, [disk EXCEPT ![i] = new])
        /\ Fault
        /\ suspect' = suspect \cup {i}
        /\ UNCHANGED <<configs, owner>>
  /\ UNCHANGED <<up, content, extern, child, job, drawn>>

SettleLifecycle ==
  /\ up
  /\ owner.at = "lifecycle"
  /\ Reconcile
  /\ owner' = Idle
  /\ UNCHANGED <<up, content, job, drawn, suspect>>

Delete_KeepsAdoption(i, expected) ==  \* mutation: forgets the adopted source
  /\ OwnerIdle
  /\ Exists(configs[i]) /\ configs[i].rev = expected
  /\ owner' = [at |-> "delete", job |-> None, id |-> i]
  /\ UNCHANGED <<up, store, extern, child, job, drawn, suspect, bounds>>

\* Delete gives the source back before anything else.
Delete(i, expected) ==
  LET free == [ext EXCEPT !.by = None] IN
  /\ OwnerIdle
  /\ Exists(configs[i]) /\ configs[i].rev = expected
  /\ IF ext.by # i
     THEN UNCHANGED <<ext, registry, bounds>> /\ owner' = [at |-> "delete", job |-> None, id |-> i]
     ELSE \/ /\ ext' = free /\ registry' = free /\ UNCHANGED bounds
             /\ owner' = [at |-> "delete", job |-> None, id |-> i]
          \/ registry' \in Either(registry, free) /\ Fault /\ UNCHANGED <<ext, owner>>
  /\ UNCHANGED <<up, store, source, child, job, drawn, suspect>>

\* An error, even of the final directory sync, ends the command here.
DeleteMetadata ==
  /\ up
  /\ owner.at = "delete"
  /\ RemoveMetadata(owner.id)
  /\ owner' = IF faults' = faults THEN [owner EXCEPT !.at = "deleted"] ELSE Idle
  /\ UNCHANGED <<up, content, extern, child, job, drawn, suspect>>

SettleDeletion ==
  /\ up
  /\ owner.at = "deleted"
  /\ Reconcile
  /\ owner' = [owner EXCEPT !.at = "purge"]
  /\ UNCHANGED <<up, content, job, drawn, suspect>>

NoContent(i) == \A r \in Revs : content[i][r] = None

\* The content files go one by one, in any order, and the rest may stay.
DeleteContent ==
  /\ up
  /\ owner.at = "purge"
  /\ \/ \E r \in Revs :
          /\ content[owner.id][r] # None
          /\ content' = [content EXCEPT ![owner.id][r] = None]
          /\ UNCHANGED <<owner, bounds>>
     \/ NoContent(owner.id) /\ owner' = Idle /\ UNCHANGED <<content, bounds>>
     \/ Fault /\ owner' = Idle /\ UNCHANGED content
  /\ UNCHANGED <<up, configs, disk, extern, child, job, drawn, suspect>>

-----------------------------------------------------------------------------
\* The manager stops anywhere; children end with it.
Crash ==
  /\ up
  /\ faults + crashes < MaxMishaps
  /\ crashes' = crashes + 1
  /\ up' = FALSE
  /\ configs' = [i \in Ids |-> NoConfig]
  /\ ext' = NoExternal
  /\ child' = [i \in Ids |-> 0]
  /\ job' = [j \in Jobs |-> IF job[j].at = "new" THEN job[j]
                            ELSE [job[j] EXCEPT !.at = "done"]]
  /\ owner' = Idle
  /\ UNCHANGED <<disk, content, source, registry, drawn, suspect, faults, edits>>

\* openManagedConfigurationStore and loadExternalConfigurationRegistry.
Restart ==
  /\ ~up
  /\ up' = TRUE
  /\ configs' = disk
  /\ ext' = registry
  /\ UNCHANGED <<disk, content, source, registry, child, job, owner, drawn, suspect, bounds>>

EditSource(s) ==
  /\ edits < MaxEdits
  /\ edits' = edits + 1
  /\ s # source
  /\ source' = s
  /\ UNCHANGED <<up, store, ext, registry, child, job, owner, drawn, suspect,
                 faults, crashes>>

\* Another program removes a content file.
Tamper(i, r) ==
  /\ edits < MaxEdits
  /\ edits' = edits + 1
  /\ content[i][r] # None
  /\ content' = [content EXCEPT ![i][r] = None]
  /\ suspect' = suspect \cup {i}
  /\ UNCHANGED <<up, configs, disk, extern, child, job, owner, drawn, faults, crashes>>

-----------------------------------------------------------------------------
Apply(j) ==
  \/ \E i \in Ids, b \in Bodies : PrepareCreate(j, i, b) \/ PrepareAdopt(j, i, b)
  \/ \E i \in Ids, b \in Bodies, r \in Revs : PrepareUpdate(j, i, b, r)
  \/ \E ok \in BOOLEAN : DryRun(j, ok) \/ StartFinish(j, ok)
  \/ FinishLost(j)
  \/ WriteContent(j)
  \/ WriteMetadata(j)
  \/ MarkAdopted(j)
  \/ UndoStore(j)
  \/ Activate(j)
  \/ Rollback(j)
  \/ RemoveNew(j)
  \/ Settle(j)
  \/ RestorePrevious(j)
  \/ RestartPrevious(j)

Next ==
  \/ \E j \in Jobs : Apply(j)
  \/ LoopReconcile
  \/ \E i \in Ids, e \in BOOLEAN, r \in Revs : SetEnabled(i, e, r)
  \/ SettleLifecycle
  \/ \E i \in Ids, r \in Revs : Delete(i, r)
  \/ DeleteMetadata
  \/ SettleDeletion
  \/ DeleteContent
  \/ Crash
  \/ Restart
  \/ \E s \in Sources \cup {None} : EditSource(s)
  \/ \E i \in Ids, r \in Revs : Tamper(i, r)

Spec == Init /\ [][Next]_vars

-----------------------------------------------------------------------------
\* Wherever the manager stops, each stored configuration is loadable: its
\* metadata names a content file with the recorded digest (content is written
\* before metadata, never over a revision in use).  Excepted are configurations
\* another program touched, that a write failed on, or that an apply committed
\* over a revision it had not seen.
StoreIntact ==
  /\ TypeOK
  /\ \A i \in Ids \ suspect : Exists(disk[i]) => Intact(i, disk[i])

\* An adopted source, which reconciliation hides, belongs to a configuration
\* that exists: adoption is marked after the store and cleared before the
\* removal, so neither a stop nor a failed write leaves a keyboard without
\* both.
AdoptionBacked == up /\ ext.by # None => Exists(configs[ext.by])

\* Finished jobs tell the truth when they end: succeeded means stored and, when
\* enabled, running; rolled back means that memory and disk hold the previous
\* revision again, running if it ran before.
VerdictHonest ==
  [][\A j \in Jobs :
       LET i == job[j].id IN
       owner.job = j /\ owner' = Idle /\ up' =>
         /\ job'[j].verdict = "succeeded" =>
              /\ Same(disk'[i], job[j].cfg) /\ Same(configs'[i], job[j].cfg)
              /\ job[j].cfg.enabled => child'[i] = job[j].cfg.crev
         /\ job'[j].verdict = "rolled_back" =>
              /\ Same(disk'[i], job[j].prev) /\ Same(configs'[i], job[j].prev)
              /\ job[j].live => child'[i] = job[j].prev.crev]_vars

\* The request is being committed, succeeded, or was cut off by a stop of the
\* manager.
Stands(j) ==
  job[j].at = "finishing" \/ (job[j].at = "done" /\ job[j].verdict \in {"none", "succeeded"})

\* Configuration c of i has the content revision and the body request j asked for.
Wrote(j, i, c) == job[j].id = i /\ job[j].cfg.crev = c.crev /\ job[j].cfg.body = c.body

\* If no write failed, a request that was turned down, before the commit or by a
\* rollback, leaves no metadata behind: what memory and the metadata files hold
\* is the work of a request that stands, for updates as for creations, and of a
\* creation or adoption neither the configuration nor the mark on its source is
\* left.  The content file may stay: a creation rejected before the commit has
\* written none, but undoing a hand-off and a rollback remove or restore the
\* metadata only (finishManagedApply, rollbackManagedApply), for updates as well.
\* No metadata names such a file.
RejectionLeavesNothing ==
  faults = 0 /\ up =>
    /\ \A i \in Ids : \A c \in {configs[i], disk[i]} :
         Exists(c) => \E j \in Jobs : Wrote(j, i, c) /\ Stands(j)
    /\ \A j \in Jobs :
         /\ job[j].at = "done" /\ job[j].verdict \in {"rejected", "lost", "failed"}
         /\ job[j].id # None /\ ~Exists(job[j].prev)
         => /\ ~Exists(configs[job[j].id]) /\ ~Exists(disk[job[j].id])
            /\ ext.by # job[j].id /\ registry.by # job[j].id
            /\ job[j].verdict # "failed" /\ job[j].sig = None => NoContent(job[j].id)

\* The documented promise: no commit replaces a revision its client had not seen.
NoStaleCommit ==
  [][\A j \in Jobs :
       LET i == job[j].id IN
       owner.at = "metadata" /\ owner.job = j /\ ~Same(configs'[i], configs[i]) /\ up'
         => Same(configs[i], job[j].prev)]_vars
=============================================================================
