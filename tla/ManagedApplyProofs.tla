-------------------------- MODULE ManagedApplyProofs --------------------------
(***************************************************************************)
(* Proofs about ManagedApply, for any number of configurations, requests,  *)
(* bodies and sources, and any bounds on revisions, failed writes, stops   *)
(* of the manager and outside edits.                                       *)
(***************************************************************************)
EXTENDS ManagedApply, TLAPS

-----------------------------------------------------------------------------
(* The inductive invariant.                                                *)

\* A configuration has a content file, named by a revision it has had.
WellFormed(c) == c.crev <= c.rev /\ (Exists(c) => c.crev # 0)

ConfigInv == \A i \in Ids : WellFormed(configs[i]) /\ WellFormed(disk[i])

\* A request under way writes a content file its predecessor does not use; the
\* verdict is open, unless the dry run was negative.
Proposes(j) ==
  /\ job[j].id \in Ids
  /\ Exists(job[j].cfg) /\ job[j].cfg.crev = job[j].prev.rev + 1
  /\ job[j].cfg.crev <= job[j].cfg.rev
  /\ WellFormed(job[j].prev)
  /\ job[j].sig # None => ~Exists(job[j].prev)
  /\ IF job[j].at = "checked" THEN job[j].verdict \in {"none", "rejected"}
                              ELSE job[j].verdict = "none"

JobOK(j) ==
  /\ job[j].at = "new" => job[j] = NewJob
  /\ job[j].at \in {"prepared", "checked", "finishing"} => Proposes(j)
  /\ job[j].at = "finishing" => owner.job = j

JobInv == \A j \in Jobs : JobOK(j)

\* The owner is in the middle of one command at most.
OwnerInv ==
  /\ owner.at = "idle" => owner = Idle
  /\ owner.at # "idle" => up
  /\ ~up => crashes # 0
  /\ owner.at \in ApplyPlaces =>
       /\ owner.job \in Jobs /\ job[owner.job].at = "finishing"
       /\ owner.id = job[owner.job].id
  /\ owner.at \in OtherPlaces => owner.job = None /\ owner.id \in Ids
  /\ owner.at \in {"restore", "restart"} => Exists(job[owner.job].prev)
  /\ owner.at \in {"adopt", "undo", "remove", "settle"} => ~Exists(job[owner.job].prev)
  /\ owner.at \in {"adopt", "undo"} => job[owner.job].sig # None

\* Memory and disk agree, and the content is there, unless i is suspect.
StoreInv ==
  \A i \in Ids \ suspect :
    /\ up => Same(configs[i], disk[i])
    /\ Exists(disk[i]) => Intact(i, disk[i])

\* What the owner has established for the next of its writes.
CommitInv ==
  LET i == owner.id
      j == owner.job IN
  /\ owner.at \in {"adopt", "undo", "activate"} =>
       configs[i] = job[j].cfg /\ disk[i] = job[j].cfg
  /\ owner.at = "restart" => configs[i] = job[j].prev /\ disk[i] = job[j].prev
  /\ owner.at = "metadata" /\ i \notin suspect => Intact(i, job[j].cfg)
  /\ owner.at \in {"metadata", "adopt", "activate", "rollback", "restore"} =>
       (Exists(job[j].prev) /\ i \notin suspect => Intact(i, job[j].prev))
  /\ owner.at \in {"deleted", "purge"} => ~Exists(configs[i]) /\ ~Exists(disk[i])

\* The request is about a configuration of its own.
Creates(j) == job[j].id # None /\ ~Exists(job[j].prev)

\* Neither memory nor disk knows of configuration i.
Nothing(i) ==
  /\ ~Exists(configs[i]) /\ ~Exists(disk[i])
  /\ ext.by # i /\ registry.by # i

\* An identifier is drawn once.
DrawnInv ==
  /\ \A i \in Ids \ drawn : Nothing(i) /\ \A j \in Jobs : job[j].id # i
  /\ \A j, k \in Jobs : Creates(j) /\ Creates(k) /\ job[j].id = job[k].id => j = k

Unmarked(i) == ext.by # i /\ registry.by # i

\* A source is marked as adopted by requests that adopt, after the commit, and
\* no longer when their configuration is removed.
MarkOK(j) ==
  ( \/ job[j].sig = None
    \/ job[j].at \in {"prepared", "checked"}
    \/ owner.job = j /\ owner.at \in {"content", "metadata", "adopt"} )
  => Unmarked(job[j].id)

MarkInv ==
  /\ \A j \in Jobs : Creates(j) => MarkOK(j)
  /\ owner.at \in {"undo", "remove", "settle", "delete", "deleted"} => ext.by # owner.id

\* If no write fails memory and disk agree.
AgreeInv ==
  faults = 0 =>
    /\ up => ext = registry /\ \A i \in Ids : Same(configs[i], disk[i])
    /\ registry.by # None => Exists(disk[registry.by])

BackedInv == faults = 0 \/ crashes = 0 => AdoptionBacked

\* The request has not committed anything, or everything was taken back.
Traceless(j) ==
  \/ job[j].at \in {"prepared", "checked"}
  \/ owner.job = j /\ owner.at \in {"content", "metadata", "settle"}
  \/ job[j].at = "done" /\ job[j].verdict \in {"rejected", "failed", "lost"}

\* No other request is about the same configuration.
Sole(j) == \A k \in Jobs : job[k].id = job[j].id => k = j

\* Nobody knows of a configuration whose creation has not succeeded, if no
\* write failed.
TraceOK(j) ==
  /\ Traceless(j) => Nothing(job[j].id)
  /\ Traceless(j) \/ job[j].at = "finishing" => Sole(j)

TraceInv == faults = 0 => \A j \in Jobs : Creates(j) => TraceOK(j)

IInv ==
  /\ TypeOK /\ ConfigInv /\ JobInv /\ OwnerInv /\ StoreInv /\ CommitInv
  /\ DrawnInv /\ MarkInv /\ AgreeInv /\ BackedInv /\ TraceInv
-----------------------------------------------------------------------------
(* Configurations, and what a step does to the fields of a request.        *)

LEMMA SameFields ==
  ASSUME NEW c \in Config, NEW d \in Config
  PROVE  Same(c, d) <=> /\ c.rev = d.rev /\ c.crev = d.crev
                        /\ c.body = d.body /\ c.enabled = d.enabled
<1> DEFINE zero(x) == [x EXCEPT !.active = 0]
<1>1. \A x \in Config : /\ zero(x).rev = x.rev /\ zero(x).crev = x.crev
                        /\ zero(x).body = x.body /\ zero(x).enabled = x.enabled
  BY DEF Config
<1>2. \A x \in Config :
        zero(x) = [rev |-> x.rev, crev |-> x.crev, active |-> 0, body |-> x.body,
                   enabled |-> x.enabled]
  BY DEF Config
<1>3. Same(c, d) <=> zero(c) = zero(d)
  BY DEF Same
<1> HIDE DEF zero
<1> QED
  BY <1>1, <1>2, <1>3

LEMMA NoConfigFacts ==
  /\ NoConfig \in Config /\ ~Exists(NoConfig) /\ WellFormed(NoConfig)
  /\ \A c \in Config : ~Exists(c) <=> c.rev = 0
<1>1. 0 \in 0 .. MaxRev
  BY ApplyAssumption DEF ApplyAssumption
<1> QED
  BY <1>1 DEF NoConfig, Config, Exists, WellFormed

LEMMA RequestFields ==
  ASSUME TypeOK, NEW j \in Jobs
  PROVE  /\ job[j] \in Request /\ job[j].cfg \in Config /\ job[j].prev \in Config
         /\ job[j].id \in Ids \cup {None} /\ job[j].verdict \in Verdicts
         /\ job[j].sig \in Sources \cup {None} /\ job[j].live \in BOOLEAN
BY DEF TypeOK, Request

LEMMA NewJobFacts == NewJob \in Request /\ NewJob.id = None /\ NewJob.at = "new"
BY NoConfigFacts DEF NewJob, Request, Verdicts

\* A request that moves on keeps what it is about.
LEMMA MovedFacts ==
  ASSUME TypeOK, NEW j \in Jobs, NEW a \in {"checked", "finishing", "done"},
         NEW v \in Verdicts, job' = [job EXCEPT ![j].at = a, ![j].verdict = v]
  PROVE  /\ job' \in [Jobs -> Request]
         /\ job'[j].at = a /\ job'[j].verdict = v
         /\ job'[j].id = job[j].id /\ job'[j].cfg = job[j].cfg
         /\ job'[j].prev = job[j].prev /\ job'[j].sig = job[j].sig
         /\ job'[j].live = job[j].live
         /\ \A k \in Jobs : k # j => job'[k] = job[k]
<1>1. job[j] \in Request
  BY DEF TypeOK
<1>2. PICK w : w = [job[j] EXCEPT !.at = a, !.verdict = v]
  OBVIOUS
<1>3. /\ w.at = a /\ w.verdict = v /\ w.id = job[j].id /\ w.cfg = job[j].cfg
      /\ w.prev = job[j].prev /\ w.sig = job[j].sig /\ w.live = job[j].live
      /\ w \in Request
  BY <1>1, <1>2 DEF Request
<1>4. job' = [job EXCEPT ![j] = w]
  BY <1>1, <1>2 DEF TypeOK
<1> QED
  BY <1>3, <1>4 DEF TypeOK

LEMMA EndedFacts ==
  ASSUME TypeOK, NEW j \in Jobs, NEW v \in Verdicts, job' = Ended(j, v)
  PROVE  /\ job' \in [Jobs -> Request]
         /\ job'[j].at = "done" /\ job'[j].verdict = v
         /\ job'[j].id = job[j].id /\ job'[j].cfg = job[j].cfg
         /\ job'[j].prev = job[j].prev /\ job'[j].sig = job[j].sig
         /\ job'[j].live = job[j].live
         /\ \A k \in Jobs : k # j => job'[k] = job[k]
BY MovedFacts DEF Ended

LEMMA FaultFacts ==
  ASSUME TypeOK, Fault
  PROVE  /\ faults' = faults + 1 /\ faults' \in Nat /\ faults' # 0
         /\ crashes' = crashes /\ edits' = edits
         /\ faults' + crashes' <= MaxMishaps /\ crashes' \in Nat /\ edits' \in 0 .. MaxEdits
BY ApplyAssumption DEF TypeOK, Fault, ApplyAssumption

-----------------------------------------------------------------------------
(* One reconciliation.                                                     *)

LEMMA RefreshFacts ==
  ASSUME TypeOK, Refresh
  PROVE  /\ ext' \in External /\ registry' \in External /\ source' = source
         /\ registry' \in {registry, ext'}
         /\ ext'.by \in {ext.by, None}
         /\ faults' = 0 => faults = 0 /\ registry' = ext'
         /\ faults' \in Nat /\ crashes' = crashes /\ edits' = edits
         /\ faults' + crashes' <= MaxMishaps
<1>1. Refreshed \in External /\ Refreshed.by \in {ext.by, None}
  BY DEF TypeOK, External, Refreshed
<1>2. ext' = Refreshed /\ source' = source
  BY DEF Refresh
<1>3. CASE registry' = Refreshed /\ UNCHANGED bounds
  BY <1>1, <1>2, <1>3 DEF bounds, TypeOK
<1>4. CASE registry' \in Either(registry, Refreshed) /\ Fault
  BY <1>1, <1>2, <1>4, FaultFacts DEF Either, TypeOK
<1> QED
  BY <1>3, <1>4 DEF Refresh

\* What activateManagedConfiguration records of configuration i.
Recorded(i) == [configs[i] EXCEPT !.active = configs[i].crev]

LEMMA RecordedFacts ==
  ASSUME TypeOK, NEW i \in Ids
  PROVE  /\ Recorded(i) \in Config
         /\ Recorded(i).rev = configs[i].rev /\ Recorded(i).crev = configs[i].crev
         /\ Recorded(i).body = configs[i].body /\ Recorded(i).enabled = configs[i].enabled
<1>1. configs[i] \in Config
  BY DEF TypeOK
<1> QED
  BY <1>1 DEF Recorded, Config

LEMMA ReconcileFacts ==
  ASSUME TypeOK, NEW confirmed \in SUBSET Ids, ReconcileConfirming(confirmed)
  PROVE  /\ ext' \in External /\ registry' \in External /\ source' = source
         /\ registry' \in {registry, ext'}
         /\ ext'.by \in {ext.by, None}
         /\ faults' = 0 => faults = 0 /\ registry' = ext'
         /\ faults' \in Nat /\ crashes' = crashes /\ edits' = edits
         /\ faults' + crashes' <= MaxMishaps
         /\ child' \in [Ids -> 0 .. MaxRev]
         /\ \A i \in Ids : child'[i] = 0 \/ (Runnable(i) /\ child'[i] = configs[i].crev)
         /\ \A i \in confirmed : child'[i] # 0
         /\ configs' \in [Ids -> Config] /\ disk' \in [Ids -> Config]
         /\ \A i \in Ids : Same(configs'[i], configs[i])
         /\ \A i \in Ids : disk'[i] = disk[i] \/ (Runnable(i) /\ disk'[i] = configs'[i])
<1>1. Refresh
  BY DEF ReconcileConfirming
<1>2. /\ child' \in [Ids -> 0 .. MaxRev]
      /\ \A i \in Ids : child'[i] \in {0} \cup (IF Runnable(i) THEN {configs[i].crev} ELSE {})
      /\ \A i \in confirmed : child'[i] # 0
  BY DEF ReconcileConfirming
<1>3. \A i \in Ids : child'[i] = 0 \/ (Runnable(i) /\ child'[i] = configs[i].crev)
  BY <1>2, Zenon
<1>4. PICK due \in SUBSET {i \in Ids : child'[i] # 0 /\ (child[i] = child'[i] \/ i \in confirmed)} :
        /\ configs' = [i \in Ids |-> IF i \in due THEN Recorded(i)
                                     ELSE configs[i]]
        /\ disk' = [i \in Ids |-> IF i \in due THEN Recorded(i)
                                  ELSE disk[i]]
  BY DEF ReconcileConfirming, Recorded
<1>5. due \in SUBSET Ids /\ \A i \in due : Runnable(i)
  BY <1>3, <1>4
<1>6. configs \in [Ids -> Config] /\ disk \in [Ids -> Config]
  BY DEF TypeOK
<1>7. /\ configs' \in [Ids -> Config]
      /\ \A i \in Ids \ due : configs'[i] = configs[i]
      /\ \A i \in due : configs'[i] = Recorded(i)
  BY <1>4, <1>5, <1>6, RecordedFacts
<1>8. /\ disk' \in [Ids -> Config]
      /\ \A i \in Ids \ due : disk'[i] = disk[i]
      /\ \A i \in due : disk'[i] = Recorded(i)
  BY <1>4, <1>5, <1>6, RecordedFacts
<1>9. \A i \in Ids : Same(configs'[i], configs[i])
  <2> TAKE i \in Ids
  <2>1. configs'[i] \in Config /\ configs[i] \in Config
    BY <1>6, <1>7
  <2>2. /\ configs'[i].rev = configs[i].rev /\ configs'[i].crev = configs[i].crev
        /\ configs'[i].body = configs[i].body /\ configs'[i].enabled = configs[i].enabled
    BY <1>7, RecordedFacts
  <2> QED
    BY <2>1, <2>2, SameFields
<1>10. \A i \in Ids : disk'[i] = disk[i] \/ (Runnable(i) /\ disk'[i] = configs'[i])
  BY <1>5, <1>7, <1>8
<1>11. /\ ext' \in External /\ registry' \in External /\ source' = source
       /\ registry' \in {registry, ext'}
       /\ ext'.by \in {ext.by, None}
       /\ faults' = 0 => faults = 0 /\ registry' = ext'
       /\ faults' \in Nat /\ crashes' = crashes /\ edits' = edits
       /\ faults' + crashes' <= MaxMishaps
  BY <1>1, RefreshFacts
<1> QED
  BY <1>2, <1>3, <1>7, <1>8, <1>9, <1>10, <1>11

\* The step does not bring back a configuration nobody knows of, or its mark.
Keeps(i) == (Nothing(i) => Nothing(i)') /\ (Unmarked(i) => Unmarked(i)')

LEMMA SameTrans ==
  ASSUME NEW b \in Config, NEW c \in Config, NEW d \in Config
  PROVE  /\ Same(b, b) /\ (Same(b, c) => Same(c, b))
         /\ Same(b, c) /\ Same(c, d) => Same(b, d)
         /\ Same(b, c) => /\ Exists(b) <=> Exists(c)
                          /\ WellFormed(b) <=> WellFormed(c)
<1>1. /\ Same(b, b) /\ (Same(b, c) => Same(c, b))
      /\ Same(b, c) /\ Same(c, d) => Same(b, d)
  BY DEF Same
<1>2. Same(b, c) => /\ Exists(b) <=> Exists(c)
                    /\ WellFormed(b) <=> WellFormed(c)
  BY SameFields DEF Exists, WellFormed
<1> QED
  BY <1>1, <1>2

LEMMA ReconcileStore ==
  ASSUME TypeOK, ConfigInv, NEW confirmed \in SUBSET Ids, ReconcileConfirming(confirmed)
  PROVE  /\ ConfigInv'
         /\ \A i \in Ids : /\ Exists(configs'[i]) <=> Exists(configs[i])
                           /\ Exists(disk[i]) => Exists(disk'[i])
                           /\ Exists(disk'[i]) => Exists(disk[i]) \/ Exists(configs[i])
                           /\ Same(configs[i], disk[i]) =>
                                Same(configs'[i], disk'[i]) /\ Same(disk[i], disk'[i])
<1> SUFFICES ASSUME NEW i \in Ids
             PROVE  /\ WellFormed(configs'[i]) /\ WellFormed(disk'[i])
                    /\ Exists(configs'[i]) <=> Exists(configs[i])
                    /\ Exists(disk[i]) => Exists(disk'[i])
                    /\ Exists(disk'[i]) => Exists(disk[i]) \/ Exists(configs[i])
                    /\ Same(configs[i], disk[i]) =>
                         Same(configs'[i], disk'[i]) /\ Same(disk[i], disk'[i])
  BY DEF ConfigInv
<1>1. PICK c \in Config, d \in Config, e \in Config, g \in Config :
        c = configs[i] /\ d = disk[i] /\ e = configs'[i] /\ g = disk'[i]
  BY ReconcileFacts DEF TypeOK
<1>2. Same(e, c) /\ (g = d \/ (Runnable(i) /\ g = e))
  BY <1>1, ReconcileFacts
<1>3. WellFormed(c) /\ WellFormed(d)
  BY <1>1 DEF ConfigInv
<1>4. (Exists(e) <=> Exists(c)) /\ WellFormed(e) /\ Same(c, e) /\ Same(e, e)
  BY <1>2, <1>3, SameTrans
<1>5. CASE g = d
  BY <1>1, <1>2, <1>3, <1>4, <1>5, SameTrans
<1>6. CASE Runnable(i) /\ g = e
  <2>1. Exists(c)
    BY <1>1, <1>6 DEF Runnable
  <2>2. Same(c, d) => Same(d, e)
    BY <1>4, SameTrans
  <2> QED
    BY <1>1, <1>4, <1>6, <2>1, <2>2
<1> QED
  BY <1>2, <1>5, <1>6

LEMMA ReconcileMarks ==
  ASSUME TypeOK, NEW confirmed \in SUBSET Ids, ReconcileConfirming(confirmed), ConfigInv,
         NEW i \in Ids
  PROVE  Keeps(i) /\ (ext.by # i => ext'.by # i)
<1>1. /\ registry' \in {registry, ext'} /\ ext'.by \in {ext.by, None} /\ i # None
  BY ReconcileFacts, ApplyAssumption DEF ApplyAssumption
<1>2. /\ Exists(configs'[i]) <=> Exists(configs[i])
      /\ Exists(disk'[i]) => Exists(disk[i]) \/ Exists(configs[i])
  BY ReconcileStore
<1> QED
  BY <1>1, <1>2 DEF Keeps, Nothing, Unmarked

LEMMA ReconcileAgrees ==
  ASSUME TypeOK, ConfigInv, AgreeInv, BackedInv, up, up' = up,
         NEW confirmed \in SUBSET Ids, ReconcileConfirming(confirmed)
  PROVE  AgreeInv' /\ BackedInv'
<1>1. /\ registry' \in {registry, ext'} /\ ext'.by \in {ext.by, None}
      /\ faults' = 0 => faults = 0 /\ registry' = ext'
      /\ crashes' = crashes
      /\ ext.by \in Ids \cup {None}
  BY ReconcileFacts DEF TypeOK, External
<1>2. \A i \in Ids : /\ Exists(configs'[i]) <=> Exists(configs[i])
                     /\ Exists(disk[i]) => Exists(disk'[i])
                     /\ Same(configs[i], disk[i]) => Same(configs'[i], disk'[i])
  BY ReconcileStore
<1>3. AgreeInv'
  <2> SUFFICES ASSUME faults' = 0
               PROVE  /\ ext' = registry' /\ \A i \in Ids : Same(configs'[i], disk'[i])
                      /\ registry'.by # None => Exists(disk'[registry'.by])
    BY DEF AgreeInv
  <2>1. /\ ext = registry /\ \A i \in Ids : Same(configs[i], disk[i])
        /\ registry.by # None => Exists(disk[registry.by])
    BY <1>1 DEF AgreeInv
  <2> QED
    BY <1>1, <1>2, <2>1
<1>4. BackedInv'
  <2> SUFFICES ASSUME faults' = 0 \/ crashes' = 0, ext'.by # None
               PROVE  Exists(configs'[ext'.by])
    BY DEF BackedInv, AdoptionBacked
  <2>1. ext'.by = ext.by /\ ext.by \in Ids
    BY <1>1
  <2>2. Exists(configs[ext.by])
    BY <1>1, <2>1 DEF BackedInv, AdoptionBacked
  <2> QED
    BY <1>2, <2>1, <2>2
<1> QED
  BY <1>3, <1>4

LEMMA ReconcileIntact ==
  ASSUME TypeOK, ConfigInv, StoreInv, up, NEW confirmed \in SUBSET Ids,
         ReconcileConfirming(confirmed), suspect' = suspect,
         \A i \in Ids : Exists(disk[i]) => content'[i] = content[i]
  PROVE  StoreInv'
<1> SUFFICES ASSUME NEW i \in Ids \ suspect
             PROVE  /\ Same(configs'[i], disk'[i])
                    /\ Exists(disk'[i]) => content'[i][disk'[i].crev] = disk'[i].body
  BY DEF StoreInv, Intact
<1>1. /\ Same(configs[i], disk[i]) /\ (Exists(disk[i]) => Intact(i, disk[i]))
  BY DEF StoreInv
<1>2. /\ Same(configs'[i], disk'[i]) /\ Same(disk[i], disk'[i])
      /\ disk[i] \in Config /\ disk'[i] \in Config
  BY <1>1, ReconcileStore, ReconcileFacts DEF TypeOK
<1>3. /\ Exists(disk'[i]) => Exists(disk[i])
      /\ disk'[i].crev = disk[i].crev /\ disk'[i].body = disk[i].body
  BY <1>2, SameFields DEF Exists
<1> QED
  BY <1>1, <1>2, <1>3 DEF Intact

-----------------------------------------------------------------------------
(* One durable write of metadata.                                          *)

LEMMA CommitFacts ==
  ASSUME TypeOK, NEW i \in Ids, NEW c \in Config,
         disk' = [disk EXCEPT ![i] = c], configs' = [configs EXCEPT ![i] = c]
  PROVE  /\ disk' \in [Ids -> Config] /\ configs' \in [Ids -> Config]
         /\ disk'[i] = c /\ configs'[i] = c
         /\ \A k \in Ids : k # i => disk'[k] = disk[k] /\ configs'[k] = configs[k]
BY DEF TypeOK

\* Metadata and memory are replaced, by what is intact and does not leave an
\* adopted source without its configuration.
LEMMA CommitStore ==
  ASSUME TypeOK, ConfigInv, StoreInv, AgreeInv, BackedInv, up, up' = up,
         NEW i \in Ids, NEW c \in Config, WellFormed(c),
         i \notin suspect /\ Exists(c) => Intact(i, c),
         Exists(c) \/ ext.by # i,
         disk' = [disk EXCEPT ![i] = c], configs' = [configs EXCEPT ![i] = c],
         content' = content, suspect' = suspect, ext' = ext, registry' = registry,
         crashes' = crashes, faults' = 0 => faults = 0
  PROVE  ConfigInv' /\ StoreInv' /\ AgreeInv' /\ BackedInv'
<1>1. /\ disk'[i] = c /\ configs'[i] = c
      /\ \A k \in Ids : k # i => disk'[k] = disk[k] /\ configs'[k] = configs[k]
  BY CommitFacts
<1>2. Same(c, c)
  BY DEF Same
<1>3. ConfigInv'
  BY <1>1 DEF ConfigInv
<1>4. StoreInv'
  BY <1>1, <1>2 DEF StoreInv, Intact
<1>5. AgreeInv'
  <2> SUFFICES ASSUME faults' = 0
               PROVE  /\ ext' = registry' /\ \A k \in Ids : Same(configs'[k], disk'[k])
                      /\ registry'.by # None => Exists(disk'[registry'.by])
    BY DEF AgreeInv
  <2>1. /\ ext = registry /\ \A k \in Ids : Same(configs[k], disk[k])
        /\ registry.by # None => Exists(disk[registry.by])
        /\ registry.by \in Ids \cup {None}
    BY DEF AgreeInv, TypeOK, External
  <2> QED
    BY <1>1, <1>2, <2>1
<1>6. BackedInv'
  <2>1. ext.by \in Ids \cup {None}
    BY DEF TypeOK, External
  <2> QED
    BY <1>1, <2>1 DEF BackedInv, AdoptionBacked
<1> QED
  BY <1>3, <1>4, <1>5, <1>6

\* The write failed, on either side of its rename.
LEMMA FailedStore ==
  ASSUME TypeOK, ConfigInv, StoreInv, BackedInv, up' = up,
         NEW i \in Ids, NEW c \in Config, WellFormed(c),
         disk' \in Either(disk, [disk EXCEPT ![i] = c]), configs' = configs,
         content' = content, suspect' = suspect \cup {i}, ext' = ext, Fault
  PROVE  /\ ConfigInv' /\ StoreInv' /\ AgreeInv' /\ BackedInv'
         /\ disk' \in [Ids -> Config] /\ suspect' \in SUBSET Ids
<1>1. /\ disk' \in [Ids -> Config] /\ suspect' \in SUBSET Ids
      /\ disk'[i] \in {disk[i], c} /\ \A k \in Ids : k # i => disk'[k] = disk[k]
  BY DEF TypeOK, Either
<1>2. faults' # 0 /\ crashes' = crashes
  BY FaultFacts
<1>3. ConfigInv'
  BY <1>1 DEF ConfigInv
<1>4. StoreInv'
  BY <1>1 DEF StoreInv, Intact
<1>5. AgreeInv' /\ BackedInv'
  BY <1>2 DEF AgreeInv, BackedInv, AdoptionBacked
<1> QED
  BY <1>1, <1>3, <1>4, <1>5

LEMMA RemoveStore ==
  ASSUME TypeOK, ConfigInv, StoreInv, AgreeInv, BackedInv, up, up' = up,
         NEW i \in Ids, RemoveMetadata(i), ext.by # i,
         content' = content, suspect' = suspect, ext' = ext, registry' = registry
  PROVE  /\ ConfigInv' /\ StoreInv' /\ AgreeInv' /\ BackedInv'
         /\ disk' \in [Ids -> Config] /\ configs' \in [Ids -> Config]
         /\ faults' \in Nat /\ crashes' = crashes /\ edits' = edits
         /\ faults' + crashes' <= MaxMishaps
         /\ faults' \in {faults, faults + 1}
         /\ faults' = faults => ~Exists(configs'[i]) /\ ~Exists(disk'[i])
         /\ \A k \in Ids : Keeps(k)
<1>1. faults \in Nat /\ NoConfig \in Config /\ WellFormed(NoConfig) /\ ~Exists(NoConfig)
  BY NoConfigFacts DEF TypeOK
<1>2. ASSUME disk' = [disk EXCEPT ![i] = NoConfig], configs' = [configs EXCEPT ![i] = NoConfig],
             UNCHANGED bounds \/ Fault
      PROVE  /\ ConfigInv' /\ StoreInv' /\ AgreeInv' /\ BackedInv'
             /\ disk' \in [Ids -> Config] /\ configs' \in [Ids -> Config]
             /\ ~Exists(configs'[i]) /\ ~Exists(disk'[i])
             /\ \A k \in Ids : Keeps(k)
  <2>1. crashes' = crashes /\ (faults' = 0 => faults = 0)
    BY <1>1, <1>2, FaultFacts DEF bounds
  <2>2. ConfigInv' /\ StoreInv' /\ AgreeInv' /\ BackedInv'
    BY <1>1, <1>2, <2>1, CommitStore
  <2>3. /\ disk' \in [Ids -> Config] /\ configs' \in [Ids -> Config]
        /\ disk'[i] = NoConfig /\ configs'[i] = NoConfig
        /\ \A k \in Ids : k # i => disk'[k] = disk[k] /\ configs'[k] = configs[k]
    BY <1>1, <1>2, CommitFacts
  <2>4. \A k \in Ids : Keeps(k)
    BY <1>1, <2>3 DEF Keeps, Nothing, Unmarked
  <2> QED
    BY <1>1, <2>2, <2>3, <2>4
<1>3. ASSUME configs' = configs, disk' = disk, Fault
      PROVE  /\ ConfigInv' /\ StoreInv' /\ AgreeInv' /\ BackedInv'
             /\ disk' \in [Ids -> Config] /\ configs' \in [Ids -> Config]
             /\ \A k \in Ids : Keeps(k)
  <2>1. crashes' = crashes /\ faults' # 0
    BY <1>3, FaultFacts
  <2> QED
    BY <1>3, <2>1
       DEF ConfigInv, StoreInv, Intact, AgreeInv, BackedInv, AdoptionBacked, TypeOK, Keeps,
           Nothing, Unmarked
<1>4. /\ faults' \in Nat /\ crashes' = crashes /\ edits' = edits
      /\ faults' + crashes' <= MaxMishaps
      /\ faults' \in {faults, faults + 1}
  <2>1. UNCHANGED bounds \/ Fault
    BY DEF RemoveMetadata
  <2> QED
    BY <2>1, FaultFacts DEF bounds, TypeOK
<1>5. Fault => faults' # faults
  BY <1>1, FaultFacts
<1> QED
  BY <1>2, <1>3, <1>4, <1>5 DEF RemoveMetadata

-----------------------------------------------------------------------------
(* The requests.                                                           *)

\* Whom the step does not concern: x is the request of the owner's command.
LEMMA Others ==
  ASSUME TypeOK, JobInv, OwnerInv, DrawnInv, MarkInv, TraceInv,
         NEW x \in Jobs \cup {None}, owner.job \in {x, None}, owner'.job \in {x, None},
         \A k \in Jobs : k # x => job'[k] = job[k],
         x # None => job'[x].id = job[x].id /\ job'[x].prev = job[x].prev,
         \A i \in Ids : (x # None /\ job[x].id = i) \/ (Nothing(i) => Nothing(i)'),
         \A i \in Ids :
           (x # None /\ Creates(x) /\ job[x].id = i) \/ (Unmarked(i) => Unmarked(i)'),
         drawn' = drawn, faults' = 0 => faults = 0
  PROVE  /\ DrawnInv'
         /\ \A k \in Jobs : k # x =>
              /\ JobOK(k)' /\ (Creates(k)' => MarkOK(k)')
              /\ faults' = 0 /\ Creates(k)' => TraceOK(k)'
<1>1. None \notin Jobs /\ None \notin Ids /\ (x # None => x \in Jobs)
  BY ApplyAssumption DEF ApplyAssumption
<1>2. \A k \in Jobs : job'[k].id = job[k].id /\ job'[k].prev = job[k].prev
  BY <1>1
<1>3. \A k \in Jobs : Creates(k)' <=> Creates(k)
  BY <1>2 DEF Creates
<1>4. DrawnInv'
  <2>1. ASSUME NEW i \in Ids \ drawn
        PROVE  Nothing(i)' /\ \A k \in Jobs : job'[k].id # i
    <3>1. Nothing(i) /\ \A k \in Jobs : job[k].id # i
      BY DEF DrawnInv
    <3> QED
      BY <1>1, <1>2, <3>1
  <2> QED
    BY <1>2, <1>3, <2>1 DEF DrawnInv
<1>5. ASSUME NEW k \in Jobs, k # x
      PROVE  /\ JobOK(k)' /\ (Creates(k)' => MarkOK(k)')
             /\ faults' = 0 /\ Creates(k)' => TraceOK(k)'
  <2>1. /\ job'[k] = job[k] /\ owner.job # k /\ owner'.job # k
        /\ JobOK(k)
    BY <1>1, <1>5 DEF JobInv
  <2>2. JobOK(k)' /\ job[k].at # "finishing"
    BY <2>1 DEF JobOK, Proposes
  <2>3. ASSUME Creates(k)
        PROVE  MarkOK(k)'
    <3>1. MarkOK(k) /\ job[k].id \in Ids
      BY <2>3, RequestFields DEF MarkInv, Creates
    <3>2. ~(x # None /\ Creates(x) /\ job[x].id = job[k].id)
      BY <1>1, <1>5, <2>3 DEF DrawnInv
    <3> QED
      BY <2>1, <3>1, <3>2 DEF MarkOK, Unmarked
  <2>4. ASSUME faults' = 0, Creates(k)
        PROVE  TraceOK(k)'
    <3>1. TraceOK(k) /\ job[k].id \in Ids
      BY <2>4, RequestFields DEF TraceInv, Creates
    <3>2. Traceless(k)' => Traceless(k)
      BY <2>1 DEF Traceless
    <3>3. Sole(k) => Sole(k)'
      BY <1>2 DEF Sole
    <3>4. ASSUME Traceless(k)
          PROVE  Nothing(job[k].id)'
      <4>1. Nothing(job[k].id) /\ Sole(k)
        BY <3>1, <3>4 DEF TraceOK
      <4>2. ~(x # None /\ job[x].id = job[k].id)
        BY <1>1, <1>5, <4>1 DEF Sole
      <4> QED
        BY <2>1, <3>1, <4>1, <4>2 DEF Nothing
    <3> QED
      BY <2>1, <2>2, <3>1, <3>2, <3>3, <3>4 DEF TraceOK
  <2> QED
    BY <1>3, <2>2, <2>3, <2>4
<1> QED
  BY <1>4, <1>5

\* A command that is about no request.
LEMMA Bystanders ==
  ASSUME TypeOK, JobInv, OwnerInv, DrawnInv, MarkInv, TraceInv,
         owner.job = None, owner'.job = None, job' = job, drawn' = drawn,
         \A i \in Ids : Keeps(i), faults' = 0 => faults = 0,
         owner'.at \in {"undo", "remove", "settle", "delete", "deleted"} => ext'.by # owner'.id
  PROVE  JobInv' /\ DrawnInv' /\ MarkInv' /\ TraceInv'
<1>1. None \notin Jobs /\ None \in Jobs \cup {None}
  BY ApplyAssumption DEF ApplyAssumption
<1>2. /\ DrawnInv'
      /\ \A k \in Jobs : k # None =>
           /\ JobOK(k)' /\ (Creates(k)' => MarkOK(k)')
           /\ faults' = 0 /\ Creates(k)' => TraceOK(k)'
  BY <1>1, Others DEF Keeps
<1> QED
  BY <1>1, <1>2 DEF JobInv, MarkInv, TraceInv

\* The owner ends its request.
LEMMA Ends ==
  ASSUME TypeOK, JobInv, OwnerInv, DrawnInv, MarkInv, TraceInv, up, up' = up,
         NEW j \in Jobs, owner.at \in ApplyPlaces, owner.job = j,
         NEW v \in Verdicts, Finish(j, v), drawn' = drawn, faults' = 0 => faults = 0,
         \A i \in Ids : job[j].id = i \/ (Nothing(i) => Nothing(i)'),
         \A i \in Ids : Unmarked(i) => Unmarked(i)',
         \A i \in Ids : /\ i = job[j].id /\ Creates(j)
                        /\ v \in {"rejected", "failed", "lost"} /\ faults' = 0
                        => Nothing(i)'
  PROVE  /\ job' \in [Jobs -> Request] /\ owner' \in Place
         /\ JobInv' /\ OwnerInv' /\ CommitInv' /\ DrawnInv' /\ MarkInv' /\ TraceInv'
<1>1. None \notin Jobs /\ j \in Jobs \cup {None}
  BY ApplyAssumption DEF ApplyAssumption
<1>2. owner' = Idle /\ Idle.at = "idle" /\ Idle.job = None /\ Idle \in Place
  BY DEF Finish, Idle, Place
<1>3. /\ job' \in [Jobs -> Request]
      /\ job'[j].at = "done" /\ job'[j].verdict = v
      /\ job'[j].id = job[j].id /\ job'[j].prev = job[j].prev /\ job'[j].sig = job[j].sig
      /\ \A k \in Jobs : k # j => job'[k] = job[k]
  BY EndedFacts DEF Finish
<1>4. /\ DrawnInv'
      /\ \A k \in Jobs : k # j =>
           /\ JobOK(k)' /\ (Creates(k)' => MarkOK(k)')
           /\ faults' = 0 /\ Creates(k)' => TraceOK(k)'
  <2>1. owner.job \in {j, None} /\ owner'.job \in {j, None}
    BY <1>2
  <2> QED
    BY <1>1, <1>3, <2>1, Others
<1>5. Creates(j)' <=> Creates(j)
  BY <1>3 DEF Creates
<1>6. job[j].at = "finishing"
  BY DEF OwnerInv
<1>7. JobOK(j)'
  BY <1>3 DEF JobOK
<1>8. ASSUME Creates(j)
      PROVE  MarkOK(j)'
  <2>1. MarkOK(j) /\ job[j].id \in Ids
    BY <1>8, RequestFields DEF MarkInv, Creates
  <2> QED
    BY <1>1, <1>2, <1>3, <2>1 DEF MarkOK, Unmarked
<1>9. ASSUME faults' = 0, Creates(j)
      PROVE  TraceOK(j)'
  <2>1. TraceOK(j) /\ job[j].id \in Ids
    BY <1>9, RequestFields DEF TraceInv, Creates
  <2>2. Sole(j)
    BY <1>6, <2>1 DEF TraceOK
  <2>3. Sole(j)'
    BY <1>3, <2>2 DEF Sole
  <2>4. Traceless(j)' => v \in {"rejected", "failed", "lost"}
    BY <1>1, <1>2, <1>3 DEF Traceless
  <2>5. Traceless(j)' => Nothing(job[j].id)'
    BY <1>3, <1>9, <2>1, <2>4 DEF Nothing
  <2> QED
    BY <2>3, <2>5 DEF TraceOK
<1>10. OwnerInv' /\ CommitInv'
  BY <1>2 DEF OwnerInv, CommitInv, ApplyPlaces, OtherPlaces
<1> QED
  BY <1>2, <1>3, <1>4, <1>5, <1>7, <1>8, <1>9, <1>10 DEF JobInv, MarkInv, TraceInv

\* The owner goes on with its request.
LEMMA Goes ==
  ASSUME TypeOK, JobInv, OwnerInv, DrawnInv, MarkInv, TraceInv, up, up' = up,
         NEW j \in Jobs, owner.at \in ApplyPlaces, owner.job = j,
         NEW to \in ApplyPlaces, Go(to, j), job' = job, drawn' = drawn,
         faults' = 0 => faults = 0,
         to \in {"restore", "restart"} => Exists(job[j].prev),
         to \in {"adopt", "undo", "remove", "settle"} => ~Exists(job[j].prev),
         to \in {"adopt", "undo"} => job[j].sig # None,
         \A i \in Ids : job[j].id = i \/ (Nothing(i) => Nothing(i)'),
         \A i \in Ids : (Creates(j) /\ job[j].id = i) \/ (Unmarked(i) => Unmarked(i)'),
         \A i \in Ids : i = job[j].id /\ Creates(j) =>
           /\ job[j].sig = None \/ to \in {"content", "metadata", "adopt"} => Unmarked(i)'
           /\ faults' = 0 /\ to \in {"content", "metadata", "settle"} => Nothing(i)',
         to \in {"undo", "remove", "settle"} => ext'.by # job[j].id
  PROVE  /\ owner' \in Place /\ owner'.at = to /\ owner'.job = j /\ owner'.id = job[j].id
         /\ JobInv' /\ OwnerInv' /\ DrawnInv' /\ MarkInv' /\ TraceInv'
<1>1. None \notin Jobs /\ j \in Jobs \cup {None}
  BY ApplyAssumption DEF ApplyAssumption
<1>2. owner' \in Place /\ owner'.at = to /\ owner'.job = j /\ owner'.id = job[j].id
  BY RequestFields DEF Go, Place
<1>3. job[j].at = "finishing" /\ JobOK(j)
  BY DEF OwnerInv, JobInv
<1>4. /\ DrawnInv'
      /\ \A k \in Jobs : k # j =>
           /\ JobOK(k)' /\ (Creates(k)' => MarkOK(k)')
           /\ faults' = 0 /\ Creates(k)' => TraceOK(k)'
  <2>1. owner.job \in {j, None} /\ owner'.job \in {j, None}
    BY <1>2
  <2> QED
    BY <1>1, <2>1, Others
<1>5. Creates(j)' <=> Creates(j)
  BY DEF Creates
<1>6. JobOK(j)'
  BY <1>2, <1>3 DEF JobOK, Proposes
<1>7. ASSUME Creates(j)
      PROVE  MarkOK(j)'
  <2>1. job[j].id \in Ids
    BY <1>7, RequestFields DEF Creates
  <2> QED
    BY <1>2, <1>3, <1>7, <2>1 DEF MarkOK, Unmarked
<1>8. ASSUME faults' = 0, Creates(j)
      PROVE  TraceOK(j)'
  <2>1. TraceOK(j) /\ job[j].id \in Ids
    BY <1>8, RequestFields DEF TraceInv, Creates
  <2>2. Sole(j)'
    BY <1>3, <2>1 DEF TraceOK, Sole
  <2>3. Traceless(j)' => to \in {"content", "metadata", "settle"}
    BY <1>2, <1>3 DEF Traceless
  <2>4. Traceless(j)' => Nothing(job[j].id)'
    BY <1>8, <2>1, <2>3 DEF Nothing
  <2> QED
    BY <2>2, <2>4 DEF TraceOK
<1>9. OwnerInv'
  BY <1>2, <1>3 DEF OwnerInv, ApplyPlaces, OtherPlaces
<1>10. MarkInv'
  BY <1>2, <1>4, <1>5, <1>7 DEF MarkInv, ApplyPlaces
<1> QED
  BY <1>2, <1>4, <1>5, <1>6, <1>8, <1>9, <1>10 DEF JobInv, TraceInv

\* A request moves on outside the owner, or the owner refuses it.
LEMMA Moves ==
  ASSUME IInv, NEW j \in Jobs, job[j].at \in {"prepared", "checked"},
         NEW a \in {"checked", "done"}, NEW v \in {"none", "rejected", "lost"},
         job' = [job EXCEPT ![j].at = a, ![j].verdict = v],
         a = "checked" => job[j].at = "prepared" /\ v \in {"none", "rejected"},
         a = "done" => v # "none",
         owner' = owner, UNCHANGED <<up, store, extern, child, drawn, suspect, bounds>>
  PROVE  IInv'
<1> USE DEF IInv
<1>1. /\ UNCHANGED up /\ UNCHANGED configs /\ UNCHANGED disk /\ UNCHANGED content
      /\ UNCHANGED source /\ UNCHANGED ext /\ UNCHANGED registry /\ UNCHANGED child
      /\ UNCHANGED drawn /\ UNCHANGED suspect /\ UNCHANGED faults /\ UNCHANGED crashes
      /\ UNCHANGED edits
  BY DEF store, extern, bounds
<1>2. /\ job' \in [Jobs -> Request]
      /\ job'[j].at = a /\ job'[j].verdict = v
      /\ job'[j].id = job[j].id /\ job'[j].cfg = job[j].cfg /\ job'[j].prev = job[j].prev
      /\ job'[j].sig = job[j].sig /\ job'[j].live = job[j].live
      /\ \A k \in Jobs : k # j => job'[k] = job[k]
  BY MovedFacts DEF Verdicts
<1>3. /\ JobOK(j) /\ (Creates(j) => MarkOK(j))
      /\ faults = 0 /\ Creates(j) => TraceOK(j)
      /\ owner.job = j => owner.at \notin ApplyPlaces
  BY DEF JobInv, MarkInv, TraceInv, OwnerInv
<1>4. TypeOK'
  BY <1>1, <1>2 DEF TypeOK
<1>5. ConfigInv' /\ StoreInv' /\ AgreeInv' /\ BackedInv'
  BY <1>1 DEF ConfigInv, StoreInv, Intact, AgreeInv, BackedInv, AdoptionBacked
<1>6. JobInv'
  <2>1. JobOK(j)'
    BY <1>2, <1>3 DEF JobOK, Proposes
  <2>2. ASSUME NEW k \in Jobs, k # j
        PROVE  JobOK(k)'
    BY <1>2, <2>2 DEF JobInv, JobOK, Proposes
  <2> QED
    BY <2>1, <2>2 DEF JobInv
<1>7. OwnerInv'
  <2>1. \A k \in Jobs : /\ job'[k].id = job[k].id /\ job'[k].prev = job[k].prev
                        /\ job'[k].sig = job[k].sig
                        /\ job[k].at = "finishing" => job'[k].at = "finishing"
    BY <1>2
  <2>2. /\ owner.at = "idle" => owner = Idle
        /\ owner.at # "idle" => up
        /\ ~up => crashes # 0
        /\ owner.at \in OtherPlaces => owner.job = None /\ owner.id \in Ids
    BY DEF OwnerInv
  <2>3. ASSUME owner.at \in ApplyPlaces
        PROVE  /\ owner.job \in Jobs /\ job'[owner.job].at = "finishing"
               /\ owner.id = job'[owner.job].id
               /\ owner.at \in {"restore", "restart"} => Exists(job'[owner.job].prev)
               /\ owner.at \in {"adopt", "undo", "remove", "settle"} =>
                    ~Exists(job'[owner.job].prev)
               /\ owner.at \in {"adopt", "undo"} => job'[owner.job].sig # None
    <3>1. PICK k \in Jobs : k = owner.job
      BY <2>3 DEF OwnerInv
    <3> QED
      BY <2>1, <2>3, <3>1 DEF OwnerInv
  <2> QED
    BY <1>1, <2>2, <2>3 DEF OwnerInv, ApplyPlaces
<1>8. CommitInv'
  <2>1. \A k \in Jobs : job'[k].cfg = job[k].cfg /\ job'[k].prev = job[k].prev
    BY <1>2
  <2>2. owner.at \in ApplyPlaces => owner.job \in Jobs
    BY DEF OwnerInv
  <2> QED
    BY <1>1, <2>1, <2>2 DEF CommitInv, Intact, ApplyPlaces
<1>9. DrawnInv'
  <2>1. \A k \in Jobs : job'[k].id = job[k].id /\ job'[k].prev = job[k].prev
    BY <1>2
  <2> QED
    BY <1>1, <2>1 DEF DrawnInv, Creates, Nothing
<1>10. MarkInv'
  <2>1. ASSUME NEW k \in Jobs, Creates(k)'
        PROVE  MarkOK(k)'
    <3>1. Creates(k) /\ MarkOK(k)
      BY <1>2, <2>1 DEF Creates, MarkInv
    <3>2. CASE k = j
      BY <1>1, <1>2, <1>3, <3>1, <3>2 DEF MarkOK, Unmarked, ApplyPlaces
    <3>3. CASE k # j
      BY <1>1, <1>2, <3>1, <3>3 DEF MarkOK, Unmarked
    <3> QED
      BY <3>2, <3>3
  <2> QED
    BY <1>1, <2>1 DEF MarkInv
<1>11. TraceInv'
  <2>1. ASSUME faults = 0, NEW k \in Jobs, Creates(k)'
        PROVE  TraceOK(k)'
    <3>1. Creates(k) /\ TraceOK(k)
      BY <1>2, <2>1 DEF Creates, TraceInv
    <3>2. Sole(k) => Sole(k)'
      BY <1>2 DEF Sole
    <3>3. Nothing(job[k].id) => Nothing(job[k].id)'
      BY <1>1, <1>2 DEF Nothing
    <3>4. CASE k = j
      BY <3>1, <3>2, <3>3, <3>4 DEF TraceOK, Traceless
    <3>5. CASE k # j
      BY <1>1, <1>2, <3>1, <3>2, <3>3, <3>5 DEF TraceOK, Traceless
    <3> QED
      BY <3>4, <3>5
  <2> QED
    BY <1>1, <2>1 DEF TraceInv
<1> QED
  BY <1>4, <1>5, <1>6, <1>7, <1>8, <1>9, <1>10, <1>11

\* The owner prepares a request, for a new configuration or for an existing one.
LEMMA Prepares ==
  ASSUME TypeOK, JobInv, OwnerInv, DrawnInv, MarkInv, TraceInv, up, up' = up,
         owner = Idle, owner' = Idle,
         NEW j \in Jobs, job[j].at = "new",
         NEW w \in Request, w.at = "prepared", w.verdict = "none",
         job' = [job EXCEPT ![j] = w],
         w.id \in Ids, Exists(w.cfg), w.cfg.crev = w.prev.rev + 1, w.cfg.crev <= w.cfg.rev,
         WellFormed(w.prev), w.sig # None => ~Exists(w.prev),
         \/ ~Exists(w.prev) /\ w.id \notin drawn /\ drawn' = drawn \cup {w.id}
         \/ Exists(w.prev) /\ Exists(configs[w.id]) /\ drawn' = drawn,
         \A i \in Ids : Keeps(i), faults' = 0 => faults = 0
  PROVE  /\ job' \in [Jobs -> Request] /\ drawn' \in SUBSET Ids
         /\ JobInv' /\ OwnerInv' /\ CommitInv' /\ DrawnInv' /\ MarkInv' /\ TraceInv'
<1>1. None \notin Jobs /\ None \notin Ids /\ Idle.at = "idle" /\ Idle.job = None
  BY ApplyAssumption DEF ApplyAssumption, Idle
<1>2. /\ job' \in [Jobs -> Request] /\ job'[j] = w /\ drawn' \in SUBSET Ids
      /\ \A k \in Jobs : k # j => job'[k] = job[k]
  BY DEF TypeOK
<1>3. job[j] = NewJob /\ job[j].id = None
  BY NewJobFacts DEF JobInv, JobOK
<1>4. \A k \in Jobs : job[k].at # "finishing"
  BY <1>1 DEF JobInv, JobOK
<1>5. OwnerInv' /\ CommitInv'
  BY <1>1 DEF OwnerInv, CommitInv, ApplyPlaces, OtherPlaces
<1>6. JobInv'
  <2>1. JobOK(j)'
    BY <1>2 DEF JobOK, Proposes
  <2>2. ASSUME NEW k \in Jobs, k # j
        PROVE  JobOK(k)'
    BY <1>1, <1>2, <2>2 DEF JobInv, JobOK, Proposes
  <2> QED
    BY <2>1, <2>2 DEF JobInv
<1>7. \A k \in Jobs : k # j => (Creates(k)' <=> Creates(k))
  BY <1>2 DEF Creates
<1>8. Creates(j)' <=> ~Exists(w.prev)
  BY <1>1, <1>2 DEF Creates
<1>9. w.id \notin drawn => Nothing(w.id)' /\ Nothing(w.id) /\ \A k \in Jobs : job[k].id # w.id
  BY DEF DrawnInv, Keeps
<1>10. DrawnInv'
  <2>1. ASSUME NEW i \in Ids \ drawn'
        PROVE  Nothing(i)' /\ \A k \in Jobs : job'[k].id # i
    <3>1. Nothing(i) /\ \A k \in Jobs : job[k].id # i
      BY DEF DrawnInv
    <3>2. w.id # i
      <4>1. Exists(w.prev) => w.id # i
        BY <3>1 DEF Nothing
      <4> QED
        BY <4>1
    <3> QED
      BY <1>2, <3>1, <3>2 DEF Keeps
  <2>2. ASSUME NEW k \in Jobs, NEW l \in Jobs, Creates(k)', Creates(l)',
               job'[k].id = job'[l].id
        PROVE  k = l
    BY <1>2, <1>7, <1>8, <1>9, <2>2 DEF DrawnInv
  <2> QED
    BY <2>1, <2>2 DEF DrawnInv
<1>11. MarkInv'
  <2>1. ASSUME NEW k \in Jobs, Creates(k)', k # j
        PROVE  MarkOK(k)'
    <3>1. MarkOK(k) /\ job'[k] = job[k] /\ job[k].id \in Ids
      BY <1>2, <1>7, <2>1, RequestFields DEF MarkInv, Creates
    <3> QED
      BY <1>1, <3>1 DEF MarkOK, Keeps, Unmarked
  <2>2. Creates(j)' => MarkOK(j)'
    BY <1>2, <1>8, <1>9 DEF MarkOK, Unmarked, Nothing
  <2> QED
    BY <1>1, <2>1, <2>2 DEF MarkInv
<1>12. TraceInv'
  <2> SUFFICES ASSUME faults' = 0, NEW k \in Jobs, Creates(k)'
               PROVE  TraceOK(k)'
    BY DEF TraceInv
  <2>1. CASE k = j
    <3>1. Nothing(job[k].id)' /\ Sole(k)'
      BY <1>2, <1>8, <1>9, <2>1 DEF Nothing, Sole
    <3> QED
      BY <3>1 DEF TraceOK
  <2>2. CASE k # j
    <3>1. TraceOK(k) /\ job'[k] = job[k] /\ job[k].id \in Ids
      BY <1>2, <1>7, <2>2, RequestFields DEF TraceInv, Creates
    <3>2. Traceless(k)' => Traceless(k)
      BY <1>1, <3>1 DEF Traceless
    <3>3. Traceless(k) => Nothing(job[k].id) /\ Sole(k)
      BY <3>1 DEF TraceOK
    <3>4. Traceless(k) => job[k].id # w.id
      <4>1. Nothing(job[k].id) => ~Exists(configs[job[k].id])
        BY DEF Nothing
      <4> QED
        BY <1>9, <3>3, <4>1
    <3>5. Traceless(k) => Sole(k)'
      BY <1>2, <3>1, <3>3, <3>4 DEF Sole
    <3>6. Traceless(k) => Nothing(job[k].id)'
      BY <3>1, <3>3 DEF Nothing, Keeps
    <3> QED
      BY <1>4, <3>1, <3>2, <3>5, <3>6 DEF TraceOK
  <2> QED
    BY <2>1, <2>2
<1> QED
  BY <1>2, <1>5, <1>6, <1>10, <1>11, <1>12

-----------------------------------------------------------------------------
(* Preparing a request.                                                    *)

LEMMA StoreStays ==
  ASSUME IInv, UNCHANGED <<up, store, extern, suspect, bounds>>
  PROVE  /\ ConfigInv' /\ StoreInv' /\ AgreeInv' /\ BackedInv'
         /\ \A i \in Ids : Keeps(i)
<1>1. /\ UNCHANGED up /\ UNCHANGED configs /\ UNCHANGED disk /\ UNCHANGED content
      /\ UNCHANGED ext /\ UNCHANGED registry /\ UNCHANGED suspect
      /\ UNCHANGED faults /\ UNCHANGED crashes
  BY DEF store, extern, bounds
<1> QED
  BY <1>1 DEF IInv, ConfigInv, StoreInv, Intact, AgreeInv, BackedInv, AdoptionBacked,
              Keeps, Nothing, Unmarked

LEMMA PreparedFacts ==
  ASSUME TypeOK, NEW j \in Jobs, NEW i \in Ids, NEW c \in Config, NEW p \in Config,
         NEW s \in Sources \cup {None}, Prepared(j, i, c, p, s)
  PROVE  \E w \in Request :
           /\ w.at = "prepared" /\ w.verdict = "none" /\ w.id = i /\ w.cfg = c
           /\ w.prev = p /\ w.sig = s
           /\ job' = [job EXCEPT ![j] = w]
<1>1. PICK l \in BOOLEAN : l = (Exists(p) /\ child[i] = p.crev)
  BY Zenon
<1>2. PICK w : w = [NewJob EXCEPT !.at = "prepared", !.id = i, !.cfg = c, !.prev = p,
                                  !.sig = s, !.live = l]
  OBVIOUS
<1>3. /\ w.at = "prepared" /\ w.verdict = "none" /\ w.id = i /\ w.cfg = c
      /\ w.prev = p /\ w.sig = s /\ w \in Request
  BY <1>2, NewJobFacts DEF NewJob, Request, Verdicts
<1>4. job' = [job EXCEPT ![j] = w]
  BY <1>1, <1>2 DEF Prepared
<1> QED
  BY <1>3, <1>4

LEMMA NewFacts ==
  ASSUME NEW b \in Bodies
  PROVE  /\ New(b) \in Config /\ Exists(New(b))
         /\ New(b).crev = 1 /\ New(b).rev = 1 /\ NoConfig.rev = 0
<1>1. 0 \in 0 .. MaxRev /\ 1 \in 0 .. MaxRev
  BY ApplyAssumption DEF ApplyAssumption
<1> QED
  BY <1>1 DEF New, Config, Exists, NoConfig

LEMMA PrepareCreateInv ==
  ASSUME IInv, NEW j \in Jobs, NEW i \in Ids, NEW b \in Bodies, PrepareCreate(j, i, b)
  PROVE  IInv'
<1> USE DEF IInv
<1>1. /\ up /\ owner = Idle /\ owner' = owner /\ up' = up /\ job[j].at = "new"
      /\ i \notin drawn /\ drawn' = drawn \cup {i} /\ Prepared(j, i, New(b), NoConfig, None)
      /\ UNCHANGED <<up, store, extern, suspect, bounds>>
      /\ UNCHANGED configs /\ UNCHANGED disk /\ UNCHANGED content /\ UNCHANGED source
      /\ UNCHANGED ext /\ UNCHANGED registry /\ UNCHANGED child /\ UNCHANGED suspect
      /\ UNCHANGED faults /\ UNCHANGED crashes /\ UNCHANGED edits
  BY DEF PrepareCreate, OwnerIdle, store, extern, bounds
<1>2. PICK w \in Request :
        /\ w.at = "prepared" /\ w.verdict = "none" /\ w.id = i /\ w.cfg = New(b)
        /\ w.prev = NoConfig /\ w.sig = None /\ job' = [job EXCEPT ![j] = w]
  BY <1>1, PreparedFacts, NewFacts, NoConfigFacts
<1>3. /\ ConfigInv' /\ StoreInv' /\ AgreeInv' /\ BackedInv'
      /\ \A k \in Ids : Keeps(k)
  BY <1>1, StoreStays
<1>4. /\ Exists(w.cfg) /\ w.cfg.crev = w.prev.rev + 1 /\ w.cfg.crev <= w.cfg.rev
      /\ WellFormed(w.prev) /\ ~Exists(w.prev)
  BY <1>2, NewFacts, NoConfigFacts
<1>5. /\ job' \in [Jobs -> Request] /\ drawn' \in SUBSET Ids
      /\ JobInv' /\ OwnerInv' /\ CommitInv' /\ DrawnInv' /\ MarkInv' /\ TraceInv'
  BY <1>1, <1>2, <1>3, <1>4, Prepares
<1>6. TypeOK'
  BY <1>1, <1>5 DEF TypeOK
<1> QED
  BY <1>3, <1>5, <1>6

LEMMA NextRevision ==
  ASSUME NEW c \in Config, c.rev < MaxRev, NEW b \in Bodies, NEW d,
         d = [c EXCEPT !.rev = c.rev + 1, !.crev = c.rev + 1, !.body = b]
  PROVE  d \in Config /\ d.rev = c.rev + 1 /\ d.crev = c.rev + 1 /\ Exists(d)
<1>1. c.rev \in Nat /\ c.rev + 1 \in 0 .. MaxRev /\ c.rev + 1 # 0
  BY ApplyAssumption DEF ApplyAssumption, Config
<1> QED
  BY <1>1 DEF Config, Exists

\* A request that the owner refuses at once.
LEMMA RefuseInv ==
  ASSUME TypeOK, JobInv, OwnerInv, DrawnInv, MarkInv, TraceInv,
         owner = Idle, owner' = Idle, up, up' = up,
         NEW j \in Jobs, job[j].at = "new", NEW v \in {"stale", "rejected"},
         job' = Ended(j, v), drawn' = drawn, \A i \in Ids : Keeps(i),
         faults' = 0 => faults = 0
  PROVE  /\ job' \in [Jobs -> Request]
         /\ JobInv' /\ OwnerInv' /\ CommitInv' /\ DrawnInv' /\ MarkInv' /\ TraceInv'
<1>1. None \notin Jobs /\ None \notin Ids /\ Idle.at = "idle" /\ Idle.job = None
  BY ApplyAssumption DEF ApplyAssumption, Idle
<1>2. /\ job' \in [Jobs -> Request] /\ job'[j].at = "done"
      /\ job'[j].id = job[j].id /\ job'[j].prev = job[j].prev
      /\ \A k \in Jobs : k # j => job'[k] = job[k]
  BY EndedFacts DEF Verdicts
<1>3. job[j].id = None
  BY NewJobFacts DEF JobInv, JobOK
<1>4. /\ DrawnInv'
      /\ \A k \in Jobs : k # j =>
           /\ JobOK(k)' /\ (Creates(k)' => MarkOK(k)')
           /\ faults' = 0 /\ Creates(k)' => TraceOK(k)'
  <2>1. /\ owner.job \in {j, None} /\ owner'.job \in {j, None} /\ j # None
        /\ j \in Jobs \cup {None}
    BY <1>1
  <2>2. \A i \in Ids : (Nothing(i) => Nothing(i)') /\ (Unmarked(i) => Unmarked(i)')
    BY DEF Keeps
  <2> QED
    BY <1>2, <2>1, <2>2, Others
<1>5. JobOK(j)' /\ ~Creates(j)'
  BY <1>2, <1>3 DEF JobOK, Creates
<1>6. OwnerInv' /\ CommitInv'
  BY <1>1 DEF OwnerInv, CommitInv, ApplyPlaces, OtherPlaces
<1> QED
  BY <1>1, <1>2, <1>4, <1>5, <1>6 DEF JobInv, MarkInv, TraceInv

LEMMA PrepareUpdateInv ==
  ASSUME IInv, NEW j \in Jobs, NEW i \in Ids, NEW b \in Bodies, NEW r \in Revs,
         PrepareUpdate(j, i, b, r)
  PROVE  IInv'
<1> USE DEF IInv
<1>1. /\ up /\ owner = Idle /\ owner' = owner /\ up' = up /\ job[j].at = "new"
      /\ Exists(configs[i]) /\ configs[i].rev < MaxRev /\ drawn' = drawn
      /\ UNCHANGED <<up, store, extern, suspect, bounds>>
      /\ UNCHANGED configs /\ UNCHANGED disk /\ UNCHANGED content /\ UNCHANGED source
      /\ UNCHANGED ext /\ UNCHANGED registry /\ UNCHANGED child /\ UNCHANGED suspect
      /\ UNCHANGED faults /\ UNCHANGED crashes /\ UNCHANGED edits
  BY DEF PrepareUpdate, OwnerIdle, store, extern, bounds
<1>2. PICK c \in Config : c = configs[i]
  BY DEF TypeOK
<1>3. PICK d : d = [c EXCEPT !.rev = c.rev + 1, !.crev = c.rev + 1, !.body = b]
  OBVIOUS
<1>4. d \in Config /\ d.rev = c.rev + 1 /\ d.crev = c.rev + 1 /\ Exists(d)
  BY <1>1, <1>2, <1>3, NextRevision
<1>5. /\ ConfigInv' /\ StoreInv' /\ AgreeInv' /\ BackedInv'
      /\ \A k \in Ids : Keeps(k)
  BY <1>1, StoreStays
<1>6. job' = Ended(j, "stale") \/ job' = Ended(j, "rejected") \/ Prepared(j, i, d, c, None)
  BY <1>2, <1>3 DEF PrepareUpdate
<1>7. ASSUME NEW v \in {"stale", "rejected"}, job' = Ended(j, v)
      PROVE  /\ job' \in [Jobs -> Request] /\ drawn' \in SUBSET Ids
             /\ JobInv' /\ OwnerInv' /\ CommitInv' /\ DrawnInv' /\ MarkInv' /\ TraceInv'
  BY <1>1, <1>5, <1>7, RefuseInv DEF TypeOK
<1>8. ASSUME Prepared(j, i, d, c, None)
      PROVE  /\ job' \in [Jobs -> Request] /\ drawn' \in SUBSET Ids
             /\ JobInv' /\ OwnerInv' /\ CommitInv' /\ DrawnInv' /\ MarkInv' /\ TraceInv'
  <2>1. PICK w \in Request :
          /\ w.at = "prepared" /\ w.verdict = "none" /\ w.id = i /\ w.cfg = d
          /\ w.prev = c /\ w.sig = None /\ job' = [job EXCEPT ![j] = w]
    BY <1>4, <1>8, PreparedFacts
  <2>2. d.crev <= d.rev
    BY <1>4 DEF Config
  <2>3. WellFormed(c) /\ Exists(c)
    BY <1>1, <1>2 DEF ConfigInv
  <2> QED
    BY <1>1, <1>2, <1>4, <1>5, <2>1, <2>2, <2>3, Prepares
<1>9. /\ job' \in [Jobs -> Request] /\ drawn' \in SUBSET Ids
      /\ JobInv' /\ OwnerInv' /\ CommitInv' /\ DrawnInv' /\ MarkInv' /\ TraceInv'
  BY <1>6, <1>7, <1>8
<1>10. TypeOK'
  BY <1>1, <1>9 DEF TypeOK
<1> QED
  BY <1>5, <1>9, <1>10

\* The registry of external files is refreshed, and nothing else of the store.
LEMMA RefreshStore ==
  ASSUME IInv, up, up' = up, UNCHANGED <<store, suspect>>, Refresh
  PROVE  /\ ConfigInv' /\ StoreInv' /\ AgreeInv' /\ BackedInv'
         /\ \A i \in Ids : Keeps(i)
<1> USE DEF IInv
<1>1. /\ UNCHANGED configs /\ UNCHANGED disk /\ UNCHANGED content /\ UNCHANGED suspect
  BY DEF store
<1>2. /\ registry' \in {registry, ext'} /\ ext'.by \in {ext.by, None}
      /\ faults' = 0 => faults = 0 /\ registry' = ext'
      /\ crashes' = crashes /\ None \notin Ids
  BY RefreshFacts, ApplyAssumption DEF ApplyAssumption
<1>3. ConfigInv' /\ StoreInv'
  BY <1>1 DEF ConfigInv, StoreInv, Intact
<1>4. AgreeInv' /\ BackedInv'
  BY <1>1, <1>2 DEF AgreeInv, BackedInv, AdoptionBacked
<1>5. \A i \in Ids : Keeps(i)
  BY <1>1, <1>2 DEF Keeps, Nothing, Unmarked
<1> QED
  BY <1>3, <1>4, <1>5

LEMMA PrepareAdoptInv ==
  ASSUME IInv, NEW j \in Jobs, NEW i \in Ids, NEW b \in Bodies, PrepareAdopt(j, i, b)
  PROVE  IInv'
<1> USE DEF IInv
<1>1. /\ up /\ owner = Idle /\ owner' = owner /\ up' = up /\ job[j].at = "new"
      /\ i \notin drawn /\ Refresh
      /\ UNCHANGED <<store, suspect>>
      /\ UNCHANGED configs /\ UNCHANGED disk /\ UNCHANGED content
      /\ UNCHANGED child /\ UNCHANGED suspect
  BY DEF PrepareAdopt, OwnerIdle, store
<1>2. /\ ConfigInv' /\ StoreInv' /\ AgreeInv' /\ BackedInv'
      /\ \A k \in Ids : Keeps(k)
  BY <1>1, RefreshStore
<1>3. /\ ext' \in External /\ registry' \in External /\ source' = source
      /\ faults' = 0 => faults = 0
      /\ faults' \in Nat /\ crashes' = crashes /\ edits' = edits
      /\ faults' + crashes' <= MaxMishaps
  BY <1>1, RefreshFacts
<1>4. CASE drawn' = drawn \cup {i} /\ Prepared(j, i, New(b), NoConfig, source)
  <2>1. PICK w \in Request :
          /\ w.at = "prepared" /\ w.verdict = "none" /\ w.id = i /\ w.cfg = New(b)
          /\ w.prev = NoConfig /\ job' = [job EXCEPT ![j] = w]
    <3>1. source \in Sources \cup {None}
      BY DEF TypeOK
    <3> QED
      BY <1>4, <3>1, PreparedFacts, NewFacts, NoConfigFacts
  <2>2. /\ Exists(w.cfg) /\ w.cfg.crev = w.prev.rev + 1 /\ w.cfg.crev <= w.cfg.rev
        /\ WellFormed(w.prev) /\ ~Exists(w.prev)
    BY <2>1, NewFacts, NoConfigFacts
  <2>3. /\ job' \in [Jobs -> Request] /\ drawn' \in SUBSET Ids
        /\ JobInv' /\ OwnerInv' /\ CommitInv' /\ DrawnInv' /\ MarkInv' /\ TraceInv'
    BY <1>1, <1>2, <1>3, <1>4, <2>1, <2>2, Prepares
  <2>4. TypeOK'
    BY <1>1, <1>3, <2>3 DEF TypeOK
  <2> QED
    BY <1>2, <2>3, <2>4
<1>5. CASE job' = Ended(j, "rejected") /\ drawn' = drawn
  <2>1. /\ job' \in [Jobs -> Request]
        /\ JobInv' /\ OwnerInv' /\ CommitInv' /\ DrawnInv' /\ MarkInv' /\ TraceInv'
    BY <1>1, <1>2, <1>3, <1>5, RefuseInv
  <2>2. TypeOK'
    BY <1>1, <1>3, <1>5, <2>1 DEF TypeOK
  <2> QED
    BY <1>2, <2>1, <2>2
<1> QED
  BY <1>4, <1>5 DEF PrepareAdopt

LEMMA DryRunInv ==
  ASSUME IInv, NEW j \in Jobs, NEW accepted \in BOOLEAN, DryRun(j, accepted)
  PROVE  IInv'
<1>1. PICK v \in {"none", "rejected"} : v = IF accepted THEN "none" ELSE "rejected"
  OBVIOUS
<1>2. /\ job[j].at = "prepared" /\ owner' = owner
      /\ job' = [job EXCEPT ![j].at = "checked", ![j].verdict = v]
      /\ UNCHANGED <<up, store, extern, child, drawn, suspect, bounds>>
  BY <1>1 DEF DryRun
<1> QED
  BY <1>2, Moves

LEMMA FinishLostInv ==
  ASSUME IInv, NEW j \in Jobs, FinishLost(j)
  PROVE  IInv'
BY Moves DEF FinishLost, Ended

LEMMA StartFinishInv ==
  ASSUME IInv, NEW j \in Jobs, NEW ok \in BOOLEAN, StartFinish(j, ok)
  PROVE  IInv'
<1> USE DEF IInv
<1>1. /\ up /\ owner = Idle /\ job[j].at = "checked"
      /\ UNCHANGED <<up, store, extern, child, drawn, suspect, bounds>>
      /\ UNCHANGED up /\ UNCHANGED configs /\ UNCHANGED disk /\ UNCHANGED content
      /\ UNCHANGED source /\ UNCHANGED ext /\ UNCHANGED registry /\ UNCHANGED child
      /\ UNCHANGED drawn /\ UNCHANGED suspect /\ UNCHANGED faults /\ UNCHANGED crashes
      /\ UNCHANGED edits
  BY DEF StartFinish, OwnerIdle, store, extern, bounds
<1>2. CASE Finish(j, "rejected")
  <2>1. owner' = owner /\ job' = [job EXCEPT ![j].at = "done", ![j].verdict = "rejected"]
    BY <1>1, <1>2 DEF Finish, Ended
  <2> QED
    BY <1>1, <2>1, Moves
<1>3. CASE /\ job[j].verdict = "none" /\ Go("content", j)
           /\ job' = [job EXCEPT ![j].at = "finishing"]
  <2>1. job' = [job EXCEPT ![j].at = "finishing", ![j].verdict = "none"]
    <3>1. job[j] \in Request /\ job \in [Jobs -> Request]
      BY DEF TypeOK
    <3>2. PICK w : w = [job[j] EXCEPT !.at = "finishing"]
      OBVIOUS
    <3>3. w = [job[j] EXCEPT !.at = "finishing", !.verdict = "none"]
      BY <1>3, <3>1, <3>2 DEF Request
    <3> QED
      BY <1>3, <3>1, <3>2, <3>3
  <2>2. /\ job' \in [Jobs -> Request]
        /\ job'[j].at = "finishing" /\ job'[j].verdict = "none"
        /\ job'[j].id = job[j].id /\ job'[j].cfg = job[j].cfg /\ job'[j].prev = job[j].prev
        /\ job'[j].sig = job[j].sig
        /\ \A k \in Jobs : k # j => job'[k] = job[k]
    BY <2>1, MovedFacts DEF Verdicts
  <2>3. /\ owner' \in Place /\ owner'.at = "content" /\ owner'.job = j /\ owner'.id = job[j].id
    BY <1>3, RequestFields DEF Go, Place, ApplyPlaces
  <2>4. /\ None \notin Jobs /\ Idle.at = "idle" /\ Idle.job = None /\ j \in Jobs \cup {None}
    BY ApplyAssumption DEF ApplyAssumption, Idle
  <2>5. /\ ConfigInv' /\ StoreInv' /\ AgreeInv' /\ BackedInv'
        /\ \A k \in Ids : Keeps(k)
    BY <1>1, StoreStays
  <2>6. /\ DrawnInv'
        /\ \A k \in Jobs : k # j =>
             /\ JobOK(k)' /\ (Creates(k)' => MarkOK(k)')
             /\ faults' = 0 /\ Creates(k)' => TraceOK(k)'
    <3>1. owner.job \in {j, None} /\ owner'.job \in {j, None}
      BY <1>1, <2>3, <2>4
    <3>2. \A i \in Ids : (Nothing(i) => Nothing(i)') /\ (Unmarked(i) => Unmarked(i)')
      BY <2>5 DEF Keeps
    <3> QED
      BY <1>1, <2>2, <2>4, <3>1, <3>2, Others
  <2>7. JobOK(j) /\ Proposes(j) /\ Traceless(j)
    BY <1>1 DEF JobInv, JobOK, Traceless
  <2>8. JobOK(j)'
    BY <1>1, <2>2, <2>3, <2>7 DEF JobOK, Proposes
  <2>9. ASSUME Creates(j)'
        PROVE  MarkOK(j)' /\ (faults' = 0 => TraceOK(j)')
    <3>1. Creates(j) /\ MarkOK(j) /\ (faults = 0 => TraceOK(j))
      BY <2>2, <2>9 DEF Creates, MarkInv, TraceInv
    <3>2. Unmarked(job[j].id)
      BY <1>1, <3>1 DEF MarkOK
    <3>3. faults = 0 => Nothing(job[j].id) /\ Sole(j)
      BY <2>7, <3>1 DEF TraceOK
    <3>4. MarkOK(j)'
      BY <1>1, <2>2, <3>2 DEF MarkOK, Unmarked
    <3>5. faults' = 0 => Nothing(job[j].id)' /\ Sole(j)'
      BY <1>1, <2>2, <3>3 DEF Nothing, Sole
    <3> QED
      BY <3>4, <3>5 DEF TraceOK
  <2>10. OwnerInv' /\ CommitInv'
    BY <1>1, <2>2, <2>3 DEF OwnerInv, CommitInv, ApplyPlaces, OtherPlaces
  <2>11. JobInv' /\ MarkInv' /\ TraceInv'
    BY <2>3, <2>6, <2>8, <2>9 DEF JobInv, MarkInv, TraceInv
  <2>12. TypeOK'
    BY <1>1, <2>2, <2>3 DEF TypeOK
  <2> QED
    BY <2>5, <2>6, <2>10, <2>11, <2>12
<1> QED
  BY <1>2, <1>3 DEF StartFinish

-----------------------------------------------------------------------------
(* finishManagedApply.                                                     *)

LEMMA AtFacts ==
  ASSUME IInv, NEW j \in Jobs, NEW at \in ApplyPlaces, At(at, j)
  PROVE  /\ up /\ owner.at = at /\ owner.job = j /\ owner.id = job[j].id /\ job[j].id \in Ids
         /\ owner.at \in ApplyPlaces
         /\ job[j].at = "finishing" /\ Proposes(j)
         /\ Creates(j) <=> ~Exists(job[j].prev)
         /\ job[j].cfg \in Config /\ job[j].prev \in Config
         /\ WellFormed(job[j].cfg) /\ WellFormed(job[j].prev)
         /\ Exists(job[j].cfg) /\ job[j].cfg.crev \in Revs
         /\ job[j].cfg.crev # job[j].prev.crev
<1>1. /\ up /\ owner.at = at /\ owner.job = j /\ owner.id = job[j].id
      /\ job[j].at = "finishing"
  BY DEF At, IInv, OwnerInv
<1>2. Proposes(j)
  BY <1>1 DEF IInv, JobInv, JobOK
<1>3. /\ job[j].id \in Ids /\ Exists(job[j].cfg) /\ WellFormed(job[j].prev)
      /\ job[j].cfg.crev = job[j].prev.rev + 1 /\ job[j].cfg.crev <= job[j].cfg.rev
  BY <1>2 DEF Proposes
<1>4. /\ job[j].cfg \in Config /\ job[j].prev \in Config /\ None \notin Ids
  BY RequestFields, ApplyAssumption DEF IInv, ApplyAssumption
<1>5. /\ job[j].cfg.crev \in 0 .. MaxRev /\ job[j].prev.rev \in 0 .. MaxRev
      /\ job[j].prev.crev \in 0 .. MaxRev /\ job[j].prev.crev <= job[j].prev.rev
      /\ MaxRev \in Nat
  BY <1>3, <1>4, ApplyAssumption DEF Config, WellFormed, ApplyAssumption
<1>6. /\ job[j].cfg.crev \in Revs /\ job[j].cfg.crev # job[j].prev.crev
      /\ job[j].cfg.crev # 0
  BY <1>3, <1>5 DEF Revs
<1>7. WellFormed(job[j].cfg)
  BY <1>3, <1>6 DEF WellFormed
<1>8. Creates(j) <=> ~Exists(job[j].prev)
  BY <1>3, <1>4 DEF Creates
<1> QED
  BY <1>1, <1>2, <1>3, <1>4, <1>6, <1>7, <1>8

\* The content file of the new revision is one nobody refers to.
LEMMA ContentFacts ==
  ASSUME IInv, NEW j \in Jobs, At("content", j), NEW i, i = job[j].id,
         content' \in Either(content, [content EXCEPT ![i][job[j].cfg.crev] = job[j].cfg.body]),
         UNCHANGED <<up, configs, disk>>,
         suspect' = IF Same(configs[i], job[j].prev) THEN suspect ELSE suspect \cup {i}
  PROVE  /\ content' \in [Ids -> [Revs -> Bodies \cup {None}]] /\ suspect' \in SUBSET Ids
         /\ StoreInv'
         /\ i \notin suspect' /\ Exists(job[j].prev) =>
              content'[i][job[j].prev.crev] = job[j].prev.body
<1> USE DEF IInv
<1> DEFINE r == job[j].cfg.crev
           b == job[j].cfg.body
<1>1. /\ up /\ i \in Ids /\ r \in Revs /\ r # job[j].prev.crev
      /\ job[j].cfg \in Config /\ job[j].prev \in Config
  BY AtFacts DEF ApplyPlaces
<1>2. b \in Bodies \cup {None}
  BY <1>1 DEF Config
<1>3. content \in [Ids -> [Revs -> Bodies \cup {None}]]
  BY DEF TypeOK
<1>4. /\ content' \in [Ids -> [Revs -> Bodies \cup {None}]]
      /\ \A k \in Ids : k # i => content'[k] = content[k]
      /\ \A s \in Revs : s # r => content'[i][s] = content[i][s]
  <2>1. PICK row : row = [content[i] EXCEPT ![r] = b]
    OBVIOUS
  <2>2. /\ row \in [Revs -> Bodies \cup {None}]
        /\ \A s \in Revs : s # r => row[s] = content[i][s]
    BY <1>1, <1>2, <1>3, <2>1
  <2>3. [content EXCEPT ![i][r] = b] = [content EXCEPT ![i] = row]
    BY <2>1
  <2>4. content' = content \/ content' = [content EXCEPT ![i] = row]
    BY <2>3 DEF Either
  <2> QED
    BY <1>1, <1>3, <2>2, <2>4
<1>5. suspect' \in SUBSET Ids /\ suspect \subseteq suspect'
  BY <1>1 DEF TypeOK
<1>6. i \notin suspect' => i \notin suspect /\ Same(configs[i], job[j].prev)
  BY <1>5
<1>7. ASSUME i \notin suspect'
      PROVE  /\ Exists(disk[i]) => content'[i][disk[i].crev] = disk[i].body
             /\ Exists(job[j].prev) => content'[i][job[j].prev.crev] = job[j].prev.body
  <2>1. PICK c \in Config, d \in Config, p \in Config :
          c = configs[i] /\ d = disk[i] /\ p = job[j].prev
    BY <1>1 DEF TypeOK
  <2>2. Same(c, d) /\ Same(c, p) /\ (Exists(d) => Intact(i, d))
    BY <1>1, <1>6, <1>7, <2>1 DEF StoreInv
  <2>3. d.rev = p.rev /\ d.crev = p.crev /\ d.body = p.body
    BY <2>2, SameFields
  <2>4. Exists(d) <=> Exists(p)
    BY <2>3 DEF Exists
  <2>5. Exists(d) => d.crev \in Revs
    <3>1. WellFormed(d) /\ d.crev \in 0 .. MaxRev
      BY <1>1, <2>1 DEF ConfigInv, Config
    <3> QED
      BY <3>1, ApplyAssumption DEF WellFormed, Revs, ApplyAssumption
  <2>6. Exists(d) => content'[i][d.crev] = d.body
    BY <1>1, <1>4, <2>1, <2>2, <2>3, <2>5 DEF Intact
  <2> QED
    BY <2>1, <2>3, <2>4, <2>6
<1>8. StoreInv'
  <2> SUFFICES ASSUME NEW k \in Ids \ suspect'
               PROVE  /\ Same(configs[k], disk[k])
                      /\ Exists(disk[k]) => content'[k][disk[k].crev] = disk[k].body
    BY DEF StoreInv, Intact
  <2>1. Same(configs[k], disk[k]) /\ (Exists(disk[k]) => Intact(k, disk[k]))
    BY <1>1, <1>5 DEF StoreInv
  <2> QED
    BY <1>4, <1>7, <2>1 DEF Intact
<1> QED
  BY <1>4, <1>5, <1>7, <1>8

LEMMA WriteContentInv ==
  ASSUME IInv, NEW j \in Jobs, WriteContent(j)
  PROVE  IInv'
<1> USE DEF IInv
<1>1. PICK i : i = job[j].id
  OBVIOUS
<1> DEFINE new == [content EXCEPT ![i][job[j].cfg.crev] = job[j].cfg.body]
<1>2. /\ At("content", j) /\ "content" \in ApplyPlaces /\ "metadata" \in ApplyPlaces
      /\ UNCHANGED up /\ UNCHANGED configs /\ UNCHANGED disk
      /\ UNCHANGED source /\ UNCHANGED ext /\ UNCHANGED registry /\ UNCHANGED child
      /\ UNCHANGED drawn
      /\ suspect' = IF Same(configs[i], job[j].prev) THEN suspect ELSE suspect \cup {i}
  BY <1>1 DEF WriteContent, extern, ApplyPlaces
<1>3. \/ content' = new /\ Go("metadata", j) /\ UNCHANGED <<job, bounds>>
      \/ content' \in Either(content, new) /\ Fault /\ Finish(j, "rejected")
  BY <1>1 DEF WriteContent
<1>4. /\ up /\ owner.at = "content" /\ owner.job = j /\ i \in Ids /\ owner.at \in ApplyPlaces
      /\ job[j].at = "finishing" /\ job[j].cfg \in Config /\ job[j].cfg.crev \in Revs
  BY <1>1, <1>2, AtFacts
<1>5. content' \in Either(content, new)
  BY <1>3 DEF Either
<1>6. /\ content' \in [Ids -> [Revs -> Bodies \cup {None}]] /\ suspect' \in SUBSET Ids
      /\ StoreInv'
      /\ i \notin suspect' /\ Exists(job[j].prev) =>
           content'[i][job[j].prev.crev] = job[j].prev.body
  <2> HIDE DEF IInv
  <2>1. /\ content' \in Either(content, [content EXCEPT ![i][job[j].cfg.crev] = job[j].cfg.body])
        /\ UNCHANGED <<up, configs, disk>> /\ IInv
    BY <1>2, <1>5 DEF IInv
  <2> QED
    BY <1>1, <1>2, <2>1, ContentFacts
<1>7. /\ faults' \in Nat /\ (faults' = 0 => faults = 0) /\ crashes' = crashes /\ edits' = edits
      /\ faults' + crashes' <= MaxMishaps
  BY <1>3, FaultFacts DEF bounds, TypeOK
<1>8. ConfigInv' /\ AgreeInv' /\ BackedInv'
  BY <1>2, <1>7 DEF ConfigInv, AgreeInv, BackedInv, AdoptionBacked
<1>9. \A k \in Ids : (Nothing(k) => Nothing(k)') /\ (Unmarked(k) => Unmarked(k)')
  BY <1>2 DEF Nothing, Unmarked
<1>10. CASE content' = new /\ Go("metadata", j) /\ UNCHANGED <<job, bounds>>
  <2>1. /\ Creates(j) => MarkOK(j)
        /\ faults = 0 /\ Creates(j) => TraceOK(j)
    BY DEF MarkInv, TraceInv
  <2>2. Creates(j) => Unmarked(i)
    BY <1>1, <1>4, <2>1 DEF MarkOK
  <2>3. faults = 0 /\ Creates(j) => Nothing(i)
    BY <1>1, <1>4, <2>1 DEF TraceOK, Traceless
  <2>4. \A k \in Ids : k = job[j].id /\ Creates(j) =>
           /\ Unmarked(k)' /\ (faults' = 0 => Nothing(k)')
    BY <1>1, <1>7, <1>9, <2>2, <2>3
  <2>5. /\ owner' \in Place /\ owner'.at = "metadata" /\ owner'.job = j /\ owner'.id = job[j].id
        /\ JobInv' /\ OwnerInv' /\ DrawnInv' /\ MarkInv' /\ TraceInv'
    BY <1>2, <1>4, <1>7, <1>9, <1>10, <2>4, Goes
  <2>6. content'[i][job[j].cfg.crev] = job[j].cfg.body
    <3>1. content[i] \in [Revs -> Bodies \cup {None}] /\ content \in [Ids -> [Revs -> Bodies \cup {None}]]
      BY <1>4 DEF TypeOK
    <3> QED
      BY <1>4, <1>10, <3>1
  <2>7. CommitInv'
    BY <1>1, <1>6, <1>10, <2>5, <2>6 DEF CommitInv, Intact
  <2>8. TypeOK'
    BY <1>2, <1>6, <1>7, <1>10, <2>5 DEF TypeOK
  <2> QED
    BY <1>6, <1>8, <2>5, <2>7, <2>8
<1>11. CASE Fault /\ Finish(j, "rejected")
  <2>1. faults' # 0
    BY <1>11, FaultFacts
  <2>2. /\ job' \in [Jobs -> Request] /\ owner' \in Place
        /\ JobInv' /\ OwnerInv' /\ CommitInv' /\ DrawnInv' /\ MarkInv' /\ TraceInv'
    <3>1. "rejected" \in Verdicts
      BY DEF Verdicts
    <3> QED
      BY <1>2, <1>4, <1>7, <1>9, <1>11, <2>1, <3>1, Ends
  <2>3. TypeOK'
    BY <1>2, <1>6, <1>7, <2>2 DEF TypeOK
  <2> QED
    BY <1>6, <1>8, <2>2, <2>3
<1> QED
  BY <1>3, <1>10, <1>11

LEMMA WriteMetadataInv ==
  ASSUME IInv, NEW j \in Jobs, WriteMetadata(j)
  PROVE  IInv'
<1> USE DEF IInv
<1>1. PICK i, c : i = job[j].id /\ c = job[j].cfg
  OBVIOUS
<1>2. /\ At("metadata", j) /\ "metadata" \in ApplyPlaces
      /\ UNCHANGED up /\ UNCHANGED content
      /\ UNCHANGED source /\ UNCHANGED ext /\ UNCHANGED registry /\ UNCHANGED child
      /\ UNCHANGED drawn
  BY DEF WriteMetadata, extern, ApplyPlaces
<1>3. /\ up /\ owner.at = "metadata" /\ owner.job = j /\ i \in Ids /\ owner.at \in ApplyPlaces
      /\ owner.id = i /\ job[j].at = "finishing" /\ Proposes(j)
      /\ c \in Config /\ WellFormed(c) /\ Exists(c)
      /\ Creates(j) <=> ~Exists(job[j].prev)
  BY <1>1, <1>2, AtFacts
<1>4. /\ i \notin suspect => Intact(i, c)
      /\ Exists(job[j].prev) /\ i \notin suspect => Intact(i, job[j].prev)
  BY <1>1, <1>3 DEF CommitInv
<1>5. /\ Creates(j) => Unmarked(i)
      /\ faults = 0 /\ Creates(j) => Sole(j)
  BY <1>1, <1>3 DEF MarkInv, MarkOK, TraceInv, TraceOK
<1>6. CASE /\ disk' = [disk EXCEPT ![i] = c] /\ configs' = [configs EXCEPT ![i] = c]
           /\ AfterCommit(j) /\ UNCHANGED <<suspect, bounds>>
  <2>1. /\ UNCHANGED suspect /\ UNCHANGED faults /\ UNCHANGED crashes /\ UNCHANGED edits
    BY <1>6 DEF bounds
  <2>2. ConfigInv' /\ StoreInv' /\ AgreeInv' /\ BackedInv'
    BY <1>2, <1>3, <1>4, <1>6, <2>1, CommitStore
  <2>3. /\ disk' \in [Ids -> Config] /\ configs' \in [Ids -> Config]
        /\ disk'[i] = c /\ configs'[i] = c
        /\ \A k \in Ids : k # i => disk'[k] = disk[k] /\ configs'[k] = configs[k]
    BY <1>3, <1>6, CommitFacts
  <2>4. /\ \A k \in Ids : job[j].id = k \/ (Nothing(k) => Nothing(k)')
        /\ \A k \in Ids : Unmarked(k) => Unmarked(k)'
    BY <1>1, <1>2, <2>3 DEF Nothing, Unmarked
  <2>5. CASE Go("adopt", j) /\ job' = job /\ job[j].sig # None
    <3>1. ~Exists(job[j].prev) /\ "adopt" \in ApplyPlaces
      BY <1>3, <2>5 DEF Proposes, ApplyPlaces
    <3>2. \A k \in Ids : k = job[j].id /\ Creates(j) => Unmarked(k)'
      BY <1>1, <1>5, <2>4
    <3>3. /\ owner' \in Place /\ owner'.at = "adopt" /\ owner'.job = j /\ owner'.id = job[j].id
          /\ JobInv' /\ OwnerInv' /\ DrawnInv' /\ MarkInv' /\ TraceInv'
      BY <1>2, <1>3, <2>1, <2>4, <2>5, <3>1, <3>2, Goes
    <3>4. CommitInv'
      BY <1>1, <1>2, <1>4, <2>1, <2>3, <2>5, <3>3 DEF CommitInv, Intact
    <3>5. TypeOK'
      BY <1>2, <2>1, <2>2, <2>3, <2>5, <3>3 DEF TypeOK, ConfigInv, WellFormed
    <3> QED
      BY <2>2, <3>3, <3>4, <3>5
  <2>6. CASE Go("activate", j) /\ job' = job
    <3>1. "activate" \in ApplyPlaces
      BY DEF ApplyPlaces
    <3>2. \A k \in Ids : k = job[j].id /\ Creates(j) => Unmarked(k)'
      BY <1>1, <1>5, <2>4
    <3>3. /\ owner' \in Place /\ owner'.at = "activate" /\ owner'.job = j /\ owner'.id = job[j].id
          /\ JobInv' /\ OwnerInv' /\ DrawnInv' /\ MarkInv' /\ TraceInv'
      BY <1>2, <1>3, <2>1, <2>4, <2>6, <3>1, <3>2, Goes
    <3>4. CommitInv'
      BY <1>1, <1>2, <1>4, <2>1, <2>3, <2>6, <3>3 DEF CommitInv, Intact
    <3>5. TypeOK'
      BY <1>2, <2>1, <2>2, <2>3, <2>6, <3>3 DEF TypeOK, ConfigInv, WellFormed
    <3> QED
      BY <2>2, <3>3, <3>4, <3>5
  <2>7. CASE Finish(j, "succeeded")
    <3>1. "succeeded" \in Verdicts
      BY DEF Verdicts
    <3>2. /\ job' \in [Jobs -> Request] /\ owner' \in Place
          /\ JobInv' /\ OwnerInv' /\ CommitInv' /\ DrawnInv' /\ MarkInv' /\ TraceInv'
      BY <1>2, <1>3, <2>1, <2>4, <2>7, <3>1, Ends
    <3>3. TypeOK'
      BY <1>2, <2>1, <2>2, <2>3, <3>2 DEF TypeOK, ConfigInv, WellFormed
    <3> QED
      BY <2>2, <3>2, <3>3
  <2> QED
    BY <1>6, <2>5, <2>6, <2>7 DEF AfterCommit
<1>7. CASE /\ disk' \in Either(disk, [disk EXCEPT ![i] = c])
           /\ Fault /\ Finish(j, "rejected") /\ suspect' = suspect \cup {i} /\ configs' = configs
  <2>1. /\ ConfigInv' /\ StoreInv' /\ AgreeInv' /\ BackedInv'
        /\ disk' \in [Ids -> Config] /\ suspect' \in SUBSET Ids
    BY <1>2, <1>3, <1>7, FailedStore
  <2>2. /\ faults' # 0 /\ faults' \in Nat /\ crashes' \in Nat /\ edits' \in 0 .. MaxEdits
        /\ faults' + crashes' <= MaxMishaps
    BY <1>7, FaultFacts
  <2>3. /\ \A k \in Ids : job[j].id = k \/ (Nothing(k) => Nothing(k)')
        /\ \A k \in Ids : Unmarked(k) => Unmarked(k)'
    BY <1>1, <1>2, <1>3, <1>7 DEF Nothing, Unmarked, Either, TypeOK
  <2>4. /\ job' \in [Jobs -> Request] /\ owner' \in Place
        /\ JobInv' /\ OwnerInv' /\ CommitInv' /\ DrawnInv' /\ MarkInv' /\ TraceInv'
    <3>1. "rejected" \in Verdicts
      BY DEF Verdicts
    <3> QED
      BY <1>2, <1>3, <1>7, <2>2, <2>3, <3>1, Ends
  <2>5. TypeOK'
    BY <1>2, <1>7, <2>1, <2>2, <2>4 DEF TypeOK, ConfigInv, WellFormed
  <2> QED
    BY <2>1, <2>4, <2>5
<1> QED
  BY <1>1, <1>6, <1>7 DEF WriteMetadata

LEMMA MarkAdoptedInv ==
  ASSUME IInv, NEW j \in Jobs, MarkAdopted(j)
  PROVE  IInv'
<1> USE DEF IInv
<1>1. PICK i : i = job[j].id
  OBVIOUS
<1>2. /\ At("adopt", j) /\ "adopt" \in ApplyPlaces /\ "activate" \in ApplyPlaces
      /\ "undo" \in ApplyPlaces
      /\ UNCHANGED up /\ UNCHANGED configs /\ UNCHANGED disk /\ UNCHANGED content
      /\ UNCHANGED source /\ UNCHANGED child /\ UNCHANGED job
      /\ UNCHANGED drawn /\ UNCHANGED suspect
  BY DEF MarkAdopted, store, ApplyPlaces
<1>3. /\ up /\ owner.at = "adopt" /\ owner.job = j /\ i \in Ids /\ owner.at \in ApplyPlaces
      /\ owner.id = i /\ job[j].at = "finishing" /\ Proposes(j)
      /\ Exists(job[j].cfg)
      /\ Creates(j) <=> ~Exists(job[j].prev)
  BY <1>1, <1>2, AtFacts
<1>4. /\ configs[i] = job[j].cfg /\ disk[i] = job[j].cfg
      /\ Exists(job[j].prev) /\ i \notin suspect => Intact(i, job[j].prev)
      /\ ~Exists(job[j].prev) /\ job[j].sig # None /\ Creates(j)
  BY <1>1, <1>3 DEF CommitInv, OwnerInv
<1>5. /\ Unmarked(i) /\ i # None
      /\ faults = 0 => Sole(j)
  BY <1>1, <1>3, <1>4, ApplyAssumption
     DEF MarkInv, MarkOK, TraceInv, TraceOK, ApplyAssumption
<1>6. PICK new \in External : new = [sig |-> job[j].sig, by |-> i] /\ new.by = i
  <2>1. [sig |-> job[j].sig, by |-> i] \in External
    BY <1>3, RequestFields DEF External
  <2> QED
    BY <2>1
<1>7. ConfigInv' /\ StoreInv'
  BY <1>2 DEF ConfigInv, StoreInv, Intact
<1>8. CASE ext' = new /\ registry' = new /\ Go("activate", j) /\ UNCHANGED bounds
  <2>1. /\ UNCHANGED faults /\ UNCHANGED crashes /\ UNCHANGED edits
    BY <1>8 DEF bounds
  <2>2. AgreeInv' /\ BackedInv'
    BY <1>2, <1>3, <1>4, <1>6, <1>8, <2>1 DEF AgreeInv, BackedInv, AdoptionBacked
  <2>3. /\ \A k \in Ids : job[j].id = k \/ (Nothing(k) => Nothing(k)')
        /\ \A k \in Ids : (Creates(j) /\ job[j].id = k) \/ (Unmarked(k) => Unmarked(k)')
    BY <1>1, <1>2, <1>4, <1>6, <1>8 DEF Nothing, Unmarked
  <2>4. /\ owner' \in Place /\ owner'.at = "activate" /\ owner'.job = j /\ owner'.id = job[j].id
        /\ JobInv' /\ OwnerInv' /\ DrawnInv' /\ MarkInv' /\ TraceInv'
    BY <1>2, <1>3, <1>4, <1>8, <2>1, <2>3, Goes
  <2>5. CommitInv'
    BY <1>1, <1>2, <1>4, <2>4 DEF CommitInv, Intact
  <2>6. TypeOK'
    BY <1>2, <1>6, <1>8, <2>1, <2>4 DEF TypeOK
  <2> QED
    BY <1>7, <2>2, <2>4, <2>5, <2>6
<1>9. ASSUME Go("undo", j), ext' \in External, ext'.by \in {ext.by, None},
             registry' \in {registry, new},
             \/ Fault /\ ext'.by = None
             \/ UNCHANGED <<ext, registry, bounds>>
      PROVE  IInv'
  <2>1. /\ faults' \in Nat /\ (faults' = 0 => faults = 0) /\ crashes' = crashes
        /\ edits' = edits /\ faults' + crashes' <= MaxMishaps
    BY <1>9, FaultFacts DEF bounds, TypeOK
  <2>2. AgreeInv' /\ BackedInv'
    <3>1. Fault => faults' # 0
      BY FaultFacts
    <3> QED
      BY <1>2, <1>9, <2>1, <3>1 DEF AgreeInv, BackedInv, AdoptionBacked
  <2>3. ext'.by # i
    BY <1>5, <1>9 DEF Unmarked
  <2>4. /\ \A k \in Ids : job[j].id = k \/ (Nothing(k) => Nothing(k)')
        /\ \A k \in Ids : (Creates(j) /\ job[j].id = k) \/ (Unmarked(k) => Unmarked(k)')
    <3>1. None \notin Ids
      BY ApplyAssumption DEF ApplyAssumption
    <3> QED
      BY <1>1, <1>2, <1>4, <1>6, <1>9, <3>1 DEF Nothing, Unmarked
  <2>5. /\ owner' \in Place /\ owner'.at = "undo" /\ owner'.job = j /\ owner'.id = job[j].id
        /\ JobInv' /\ OwnerInv' /\ DrawnInv' /\ MarkInv' /\ TraceInv'
    BY <1>1, <1>2, <1>3, <1>4, <1>9, <2>1, <2>3, <2>4, Goes
  <2>6. CommitInv'
    BY <1>1, <1>2, <1>4, <2>5 DEF CommitInv, Intact
  <2>7. registry' \in External
    BY <1>6, <1>9 DEF TypeOK
  <2>8. TypeOK'
    BY <1>2, <1>9, <2>1, <2>5, <2>7 DEF TypeOK
  <2> QED
    BY <1>7, <2>2, <2>5, <2>6, <2>8
<1>10. ASSUME ext' = [ext EXCEPT !.by = None], registry' \in Either(registry, new), Fault,
              Go("undo", j)
       PROVE  IInv'
  <2>1. ext' \in External /\ ext'.by = None
    BY <1>10 DEF TypeOK, External
  <2> QED
    BY <1>9, <1>10, <2>1 DEF Either
<1>11. ASSUME Go("undo", j), UNCHANGED <<ext, registry, bounds>>
       PROVE  IInv'
  <2>1. ext' \in External /\ ext'.by \in {ext.by, None} /\ registry' \in {registry, new}
    BY <1>11 DEF TypeOK
  <2> QED
    BY <1>9, <1>11, <2>1
<1> QED
  BY <1>1, <1>6, <1>8, <1>10, <1>11 DEF MarkAdopted

LEMMA UndoStoreInv ==
  ASSUME IInv, NEW j \in Jobs, UndoStore(j)
  PROVE  IInv'
<1> USE DEF IInv
<1>1. PICK i : i = job[j].id
  OBVIOUS
<1>2. /\ At("undo", j) /\ "undo" \in ApplyPlaces /\ RemoveMetadata(i) /\ Finish(j, "rejected")
      /\ "rejected" \in Verdicts
      /\ UNCHANGED up /\ UNCHANGED content
      /\ UNCHANGED source /\ UNCHANGED ext /\ UNCHANGED registry /\ UNCHANGED child
      /\ UNCHANGED drawn /\ UNCHANGED suspect
  BY <1>1 DEF UndoStore, extern, ApplyPlaces, Verdicts
<1>3. /\ up /\ owner.at = "undo" /\ owner.job = j /\ i \in Ids /\ owner.at \in ApplyPlaces
      /\ owner.id = i
  BY <1>1, <1>2, AtFacts
<1>4. ext.by # i
  BY <1>3 DEF MarkInv
<1>5. /\ ConfigInv' /\ StoreInv' /\ AgreeInv' /\ BackedInv'
      /\ disk' \in [Ids -> Config] /\ configs' \in [Ids -> Config]
      /\ faults' \in Nat /\ crashes' = crashes /\ edits' = edits
      /\ faults' + crashes' <= MaxMishaps
      /\ faults' \in {faults, faults + 1}
      /\ faults' = faults => ~Exists(configs'[i]) /\ ~Exists(disk'[i])
      /\ \A k \in Ids : Keeps(k)
  BY <1>2, <1>3, <1>4, RemoveStore
<1>6. faults \in Nat
  BY DEF TypeOK
<1>7. faults' = 0 => faults = 0
  BY <1>5, <1>6
<1>8. faults' = 0 => Nothing(i)'
  BY <1>1, <1>2, <1>3, <1>4, <1>5, <1>7 DEF Nothing, AgreeInv
<1>9. /\ job' \in [Jobs -> Request] /\ owner' \in Place
      /\ JobInv' /\ OwnerInv' /\ CommitInv' /\ DrawnInv' /\ MarkInv' /\ TraceInv'
  BY <1>1, <1>2, <1>3, <1>5, <1>7, <1>8, Ends DEF Keeps
<1>10. TypeOK'
  BY <1>2, <1>5, <1>9 DEF TypeOK, ConfigInv, WellFormed
<1> QED
  BY <1>5, <1>9, <1>10

LEMMA RemoveNewInv ==
  ASSUME IInv, NEW j \in Jobs, RemoveNew(j)
  PROVE  IInv'
<1> USE DEF IInv
<1>1. PICK i : i = job[j].id
  OBVIOUS
<1>2. /\ At("remove", j) /\ "remove" \in ApplyPlaces /\ RemoveMetadata(i) /\ Go("settle", j)
      /\ "settle" \in ApplyPlaces
      /\ UNCHANGED up /\ UNCHANGED content
      /\ UNCHANGED source /\ UNCHANGED ext /\ UNCHANGED registry /\ UNCHANGED child
      /\ UNCHANGED job /\ UNCHANGED drawn /\ UNCHANGED suspect
  BY <1>1 DEF RemoveNew, extern, ApplyPlaces
<1>3. /\ up /\ owner.at = "remove" /\ owner.job = j /\ i \in Ids /\ owner.at \in ApplyPlaces
      /\ owner.id = i /\ ~Exists(job[j].prev)
  BY <1>1, <1>2, AtFacts DEF OwnerInv
<1>4. ext.by # i
  BY <1>3 DEF MarkInv
<1>5. /\ ConfigInv' /\ StoreInv' /\ AgreeInv' /\ BackedInv'
      /\ disk' \in [Ids -> Config] /\ configs' \in [Ids -> Config]
      /\ faults' \in Nat /\ crashes' = crashes /\ edits' = edits
      /\ faults' + crashes' <= MaxMishaps
      /\ faults' \in {faults, faults + 1}
      /\ faults' = faults => ~Exists(configs'[i]) /\ ~Exists(disk'[i])
      /\ \A k \in Ids : Keeps(k)
  BY <1>2, <1>3, <1>4, RemoveStore
<1>6. faults \in Nat
  BY DEF TypeOK
<1>7. faults' = 0 => faults = 0
  BY <1>5, <1>6
<1>8. faults' = 0 => Nothing(i)'
  BY <1>1, <1>2, <1>3, <1>4, <1>5, <1>7 DEF Nothing, AgreeInv
<1>9. Creates(j) /\ job[j].sig = None => Unmarked(i)'
  BY <1>1, <1>2 DEF MarkInv, MarkOK, Unmarked
<1>10. \A k \in Ids : k = job[j].id /\ Creates(j) =>
         /\ job[j].sig = None => Unmarked(k)'
         /\ faults' = 0 => Nothing(k)'
  BY <1>1, <1>8, <1>9
<1>11. /\ owner' \in Place /\ owner'.at = "settle" /\ owner'.job = j /\ owner'.id = job[j].id
       /\ JobInv' /\ OwnerInv' /\ DrawnInv' /\ MarkInv' /\ TraceInv'
  BY <1>1, <1>2, <1>3, <1>4, <1>5, <1>7, <1>10, Goes DEF Keeps
<1>12. CommitInv'
  BY <1>11 DEF CommitInv
<1>13. TypeOK'
  BY <1>2, <1>5, <1>11 DEF TypeOK, ConfigInv, WellFormed
<1> QED
  BY <1>5, <1>11, <1>12, <1>13

\* A request ends with a reconciliation.
LEMMA ReconcileEnds ==
  ASSUME IInv, NEW j \in Jobs, up, owner.job = j, owner.at \in ApplyPlaces,
         NEW confirmed \in SUBSET Ids, ReconcileConfirming(confirmed),
         NEW v \in Verdicts, Finish(j, v),
         Creates(j) /\ v \in {"rejected", "failed", "lost"} => owner.at = "settle",
         UNCHANGED <<up, content, drawn, suspect>>
  PROVE  IInv'
<1> USE DEF IInv
<1>1. /\ UNCHANGED up /\ UNCHANGED content /\ UNCHANGED drawn /\ UNCHANGED suspect
  OBVIOUS
<1>2. /\ ext' \in External /\ registry' \in External /\ source' = source
      /\ faults' = 0 => faults = 0
      /\ faults' \in Nat /\ crashes' = crashes /\ edits' = edits
      /\ faults' + crashes' <= MaxMishaps
      /\ child' \in [Ids -> 0 .. MaxRev]
      /\ configs' \in [Ids -> Config] /\ disk' \in [Ids -> Config]
  BY ReconcileFacts
<1>3. ConfigInv'
  BY ReconcileStore
<1>4. StoreInv'
  BY <1>1, ReconcileIntact
<1>5. AgreeInv' /\ BackedInv'
  BY <1>1, ReconcileAgrees
<1>6. \A i \in Ids : Keeps(i)
  BY ReconcileMarks
<1>7. \A i \in Ids : /\ i = job[j].id /\ Creates(j)
                     /\ v \in {"rejected", "failed", "lost"} /\ faults' = 0
                     => Nothing(i)'
  <2> SUFFICES ASSUME NEW i \in Ids, i = job[j].id, Creates(j),
                      v \in {"rejected", "failed", "lost"}, faults' = 0
               PROVE  Nothing(i)'
    OBVIOUS
  <2>1. TraceOK(j) /\ Traceless(j)
    BY <1>2 DEF TraceInv, Traceless
  <2>2. Nothing(i)
    BY <2>1 DEF TraceOK
  <2> QED
    BY <1>6, <2>2 DEF Keeps
<1>8. /\ job' \in [Jobs -> Request] /\ owner' \in Place
      /\ JobInv' /\ OwnerInv' /\ CommitInv' /\ DrawnInv' /\ MarkInv' /\ TraceInv'
  BY <1>1, <1>2, <1>6, <1>7, Ends DEF Keeps
<1>9. TypeOK'
  BY <1>1, <1>2, <1>3, <1>8 DEF TypeOK, ConfigInv, WellFormed
<1> QED
  BY <1>3, <1>4, <1>5, <1>8, <1>9

LEMMA ActivateInv ==
  ASSUME IInv, NEW j \in Jobs, Activate(j)
  PROVE  IInv'
<1> USE DEF IInv
<1>1. PICK i : i = job[j].id
  OBVIOUS
<1>2. /\ At("activate", j) /\ "activate" \in ApplyPlaces /\ "rollback" \in ApplyPlaces
      /\ UNCHANGED <<up, content, drawn, suspect>>
      /\ UNCHANGED up /\ UNCHANGED content /\ UNCHANGED drawn /\ UNCHANGED suspect
  BY DEF Activate, ApplyPlaces
<1>3. /\ up /\ owner.at = "activate" /\ owner.job = j /\ i \in Ids /\ owner.at \in ApplyPlaces
      /\ owner.id = i
  BY <1>1, <1>2, AtFacts
<1>4. CASE ReconcileConfirming({job[j].id}) /\ Finish(j, "succeeded")
  <2>1. {job[j].id} \in SUBSET Ids /\ "succeeded" \in Verdicts
    BY <1>1, <1>3 DEF Verdicts
  <2> QED
    BY <1>2, <1>3, <1>4, <2>1, ReconcileEnds
<1>5. CASE Reconcile /\ Go("rollback", j) /\ UNCHANGED job
  <2>1. ReconcileConfirming({}) /\ {} \in SUBSET Ids
    BY <1>5 DEF Reconcile
  <2>2. /\ ext' \in External /\ registry' \in External /\ source' = source
        /\ faults' = 0 => faults = 0
        /\ faults' \in Nat /\ crashes' = crashes /\ edits' = edits
        /\ faults' + crashes' <= MaxMishaps
        /\ child' \in [Ids -> 0 .. MaxRev]
        /\ configs' \in [Ids -> Config] /\ disk' \in [Ids -> Config]
    BY <2>1, ReconcileFacts
  <2>3. ConfigInv'
    BY <2>1, ReconcileStore
  <2>4. StoreInv'
    BY <1>2, <1>3, <2>1, ReconcileIntact
  <2>5. AgreeInv' /\ BackedInv'
    BY <1>2, <1>3, <2>1, ReconcileAgrees
  <2>6. \A k \in Ids : Keeps(k)
    BY <2>1, ReconcileMarks
  <2>7. Creates(j) /\ job[j].sig = None => Unmarked(i)
    BY <1>1 DEF MarkInv, MarkOK
  <2>8. \A k \in Ids : k = job[j].id /\ Creates(j) /\ job[j].sig = None => Unmarked(k)'
    BY <1>1, <2>6, <2>7 DEF Keeps
  <2>9. /\ owner' \in Place /\ owner'.at = "rollback" /\ owner'.job = j /\ owner'.id = job[j].id
        /\ JobInv' /\ OwnerInv' /\ DrawnInv' /\ MarkInv' /\ TraceInv'
    BY <1>1, <1>2, <1>3, <1>5, <2>2, <2>6, <2>8, Goes DEF Keeps
  <2>10. CommitInv'
    BY <1>1, <1>2, <1>3, <1>5, <2>9 DEF CommitInv, Intact
  <2>11. TypeOK'
    BY <1>2, <1>5, <2>2, <2>3, <2>9 DEF TypeOK, ConfigInv, WellFormed
  <2> QED
    BY <2>3, <2>4, <2>5, <2>9, <2>10, <2>11
<1> QED
  BY <1>4, <1>5 DEF Activate

LEMMA SettleInv ==
  ASSUME IInv, NEW j \in Jobs, Settle(j)
  PROVE  IInv'
<1>1. /\ At("settle", j) /\ "settle" \in ApplyPlaces /\ "failed" \in Verdicts
      /\ ReconcileConfirming({}) /\ {} \in SUBSET Ids
      /\ Finish(j, "failed") /\ UNCHANGED <<up, content, drawn, suspect>>
  BY DEF Settle, ApplyPlaces, Verdicts, Reconcile
<1>2. up /\ owner.at = "settle" /\ owner.job = j /\ owner.at \in ApplyPlaces
  BY <1>1, AtFacts
<1> QED
  BY <1>1, <1>2, ReconcileEnds

LEMMA RestartPreviousInv ==
  ASSUME IInv, NEW j \in Jobs, RestartPrevious(j)
  PROVE  IInv'
<1>1. PICK v \in {"rolled_back", "failed"} :
        v = IF ~job[j].live \/ child'[job[j].id] = job[j].prev.crev
            THEN "rolled_back" ELSE "failed"
  BY Zenon
<1>2. /\ At("restart", j) /\ "restart" \in ApplyPlaces /\ v \in Verdicts
      /\ ReconcileConfirming({}) /\ {} \in SUBSET Ids
      /\ Finish(j, v) /\ UNCHANGED <<up, content, drawn, suspect>>
  BY <1>1 DEF RestartPrevious, ApplyPlaces, Verdicts, Reconcile
<1>3. up /\ owner.at = "restart" /\ owner.job = j /\ owner.at \in ApplyPlaces
  BY <1>2, AtFacts
<1>4. ~Creates(j)
  BY <1>3 DEF IInv, OwnerInv, Creates
<1> QED
  BY <1>2, <1>3, <1>4, ReconcileEnds

-----------------------------------------------------------------------------
(* rollbackManagedApply.                                                   *)

LEMMA RollbackInv ==
  ASSUME IInv, NEW j \in Jobs, Rollback(j)
  PROVE  IInv'
<1> USE DEF IInv
<1>1. PICK i : i = job[j].id
  OBVIOUS
<1>2. /\ At("rollback", j) /\ {"rollback", "restore", "remove"} \subseteq ApplyPlaces
      /\ UNCHANGED up /\ UNCHANGED configs /\ UNCHANGED disk /\ UNCHANGED content
      /\ UNCHANGED source /\ UNCHANGED drawn /\ UNCHANGED suspect
      /\ child' = [child EXCEPT ![i] = 0]
  BY <1>1 DEF Rollback, store, ApplyPlaces
<1>3. /\ up /\ owner.at = "rollback" /\ owner.job = j /\ i \in Ids /\ owner.at \in ApplyPlaces
      /\ owner.id = i /\ None \notin Ids
  BY <1>1, <1>2, AtFacts, ApplyAssumption DEF ApplyAssumption
<1>4. child' \in [Ids -> 0 .. MaxRev]
  BY <1>2, <1>3, ApplyAssumption DEF TypeOK, ApplyAssumption
<1>5. ConfigInv' /\ StoreInv'
  BY <1>2 DEF ConfigInv, StoreInv, Intact
<1>6. Creates(j) /\ job[j].sig = None => Unmarked(i)
  BY <1>1 DEF MarkInv, MarkOK
\* The request goes on.
<1>7. ASSUME NEW to \in {"restore", "remove"}, Go(to, j), job' = job,
             to = "restore" => Exists(job[j].prev),
             to = "remove" => ~Exists(job[j].prev) /\ ext'.by # i,
             ext' \in External, registry' \in External,
             ext'.by \in {ext.by, None}, registry'.by \in {registry.by, None},
             \/ ext' = ext /\ registry' = registry
             \/ ext' = registry' /\ ext'.by = None,
             UNCHANGED bounds
      PROVE  IInv'
  <2>1. /\ UNCHANGED faults /\ UNCHANGED crashes /\ UNCHANGED edits
    BY <1>7 DEF bounds
  <2>2. AgreeInv' /\ BackedInv'
    BY <1>2, <1>7, <2>1 DEF AgreeInv, BackedInv, AdoptionBacked
  <2>3. \A k \in Ids : Keeps(k)
    BY <1>2, <1>3, <1>7 DEF Keeps, Nothing, Unmarked
  <2>4. \A k \in Ids : k = job[j].id /\ Creates(j) /\ job[j].sig = None => Unmarked(k)'
    BY <1>1, <1>6, <2>3 DEF Keeps
  <2>5. /\ owner' \in Place /\ owner'.at = to /\ owner'.job = j /\ owner'.id = job[j].id
        /\ JobInv' /\ OwnerInv' /\ DrawnInv' /\ MarkInv' /\ TraceInv'
    BY <1>1, <1>2, <1>3, <1>7, <2>1, <2>3, <2>4, Goes DEF Keeps
  <2>6. CommitInv'
    BY <1>1, <1>2, <1>3, <1>7, <2>5 DEF CommitInv, Intact
  <2>7. TypeOK'
    BY <1>2, <1>4, <1>7, <2>1, <2>5 DEF TypeOK
  <2> QED
    BY <1>5, <2>2, <2>5, <2>6, <2>7
<1>8. CASE Exists(job[j].prev)
  <2>1. Go("restore", j) /\ UNCHANGED <<ext, registry, job, bounds>>
    BY <1>8 DEF Rollback
  <2> QED
    BY <1>7, <1>8, <2>1 DEF TypeOK
<1>9. CASE ~Exists(job[j].prev) /\ (job[j].sig = None \/ ext.by # i)
  <2>1. Go("remove", j) /\ UNCHANGED <<ext, registry, job, bounds>>
    BY <1>1, <1>9 DEF Rollback
  <2>2. ext.by # i
    <3>1. Creates(j)
      BY <1>1, <1>3, <1>9 DEF Creates
    <3> QED
      BY <1>6, <1>9, <3>1 DEF Unmarked
  <2> QED
    BY <1>7, <1>9, <2>1, <2>2 DEF TypeOK
<1>10. CASE ~Exists(job[j].prev) /\ job[j].sig # None /\ ext.by = i
  <2>1. PICK free : free = [ext EXCEPT !.by = None]
    OBVIOUS
  <2>2. free \in External /\ free.by = None
    BY <2>1 DEF TypeOK, External
  <2>3. \/ ext' = free /\ registry' = free /\ Go("remove", j) /\ UNCHANGED <<job, bounds>>
        \/ /\ registry' \in Either(registry, free)
           /\ Fault
           /\ Finish(j, "failed")
           /\ UNCHANGED ext
    BY <1>1, <1>10, <2>1 DEF Rollback
  <2>4. CASE ext' = free /\ registry' = free /\ Go("remove", j) /\ UNCHANGED <<job, bounds>>
    BY <1>3, <1>7, <1>10, <2>2, <2>4
  <2>5. CASE registry' \in Either(registry, free) /\ Fault /\ Finish(j, "failed") /\ UNCHANGED ext
    <3>1. /\ faults' # 0 /\ faults' \in Nat /\ crashes' = crashes /\ edits' = edits
          /\ faults' + crashes' <= MaxMishaps
      BY <2>5, FaultFacts
    <3>2. /\ registry' \in External /\ registry'.by \in {registry.by, None}
      BY <2>2, <2>5 DEF Either, TypeOK
    <3>3. AgreeInv' /\ BackedInv'
      BY <1>2, <2>5, <3>1 DEF AgreeInv, BackedInv, AdoptionBacked
    <3>4. \A k \in Ids : (Nothing(k) => Nothing(k)') /\ (Unmarked(k) => Unmarked(k)')
      BY <1>2, <1>3, <2>5, <3>2 DEF Nothing, Unmarked
    <3>5. /\ job' \in [Jobs -> Request] /\ owner' \in Place
          /\ JobInv' /\ OwnerInv' /\ CommitInv' /\ DrawnInv' /\ MarkInv' /\ TraceInv'
      <4>1. "failed" \in Verdicts
        BY DEF Verdicts
      <4> QED
        BY <1>2, <1>3, <2>5, <3>1, <3>4, <4>1, Ends
    <3>6. TypeOK'
      BY <1>2, <1>4, <2>5, <3>1, <3>2, <3>5 DEF TypeOK
    <3> QED
      BY <1>5, <3>3, <3>5, <3>6
  <2> QED
    BY <2>3, <2>4, <2>5
<1> QED
  BY <1>8, <1>9, <1>10

LEMMA RestorePreviousInv ==
  ASSUME IInv, NEW j \in Jobs, RestorePrevious(j)
  PROVE  IInv'
<1> USE DEF IInv
<1>1. PICK i, c : i = job[j].id /\ c = job[j].prev
  OBVIOUS
<1>2. /\ At("restore", j) /\ "restore" \in ApplyPlaces /\ "restart" \in ApplyPlaces
      /\ UNCHANGED up /\ UNCHANGED content
      /\ UNCHANGED source /\ UNCHANGED ext /\ UNCHANGED registry /\ UNCHANGED child
      /\ UNCHANGED drawn
  BY DEF RestorePrevious, extern, ApplyPlaces
<1>3. /\ up /\ owner.at = "restore" /\ owner.job = j /\ i \in Ids /\ owner.at \in ApplyPlaces
      /\ owner.id = i /\ c \in Config /\ WellFormed(c)
  BY <1>1, <1>2, AtFacts
<1>4. Exists(c) /\ (i \notin suspect => Intact(i, c)) /\ ~Creates(j)
  BY <1>1, <1>3 DEF OwnerInv, CommitInv, Creates
<1>5. CASE /\ disk' = [disk EXCEPT ![i] = c] /\ configs' = [configs EXCEPT ![i] = c]
           /\ Go("restart", j) /\ UNCHANGED <<job, suspect, bounds>>
  <2>1. /\ UNCHANGED suspect /\ UNCHANGED faults /\ UNCHANGED crashes /\ UNCHANGED edits
        /\ UNCHANGED job
    BY <1>5 DEF bounds
  <2>2. ConfigInv' /\ StoreInv' /\ AgreeInv' /\ BackedInv'
    BY <1>2, <1>3, <1>4, <1>5, <2>1, CommitStore
  <2>3. /\ disk' \in [Ids -> Config] /\ configs' \in [Ids -> Config]
        /\ disk'[i] = c /\ configs'[i] = c
        /\ \A k \in Ids : k # i => disk'[k] = disk[k] /\ configs'[k] = configs[k]
    BY <1>3, <1>5, CommitFacts
  <2>4. /\ \A k \in Ids : job[j].id = k \/ (Nothing(k) => Nothing(k)')
        /\ \A k \in Ids : Unmarked(k) => Unmarked(k)'
    BY <1>1, <1>2, <2>3 DEF Nothing, Unmarked
  <2>5. /\ owner' \in Place /\ owner'.at = "restart" /\ owner'.job = j /\ owner'.id = job[j].id
        /\ JobInv' /\ OwnerInv' /\ DrawnInv' /\ MarkInv' /\ TraceInv'
    BY <1>1, <1>2, <1>3, <1>4, <1>5, <2>1, <2>4, Goes
  <2>6. CommitInv'
    BY <1>1, <2>1, <2>3, <2>5 DEF CommitInv
  <2>7. TypeOK'
    BY <1>2, <2>1, <2>2, <2>3, <2>5 DEF TypeOK, ConfigInv, WellFormed
  <2> QED
    BY <2>2, <2>5, <2>6, <2>7
<1>6. CASE /\ disk' \in Either(disk, [disk EXCEPT ![i] = c])
           /\ Fault /\ Finish(j, "failed") /\ suspect' = suspect \cup {i} /\ configs' = configs
  <2>1. /\ ConfigInv' /\ StoreInv' /\ AgreeInv' /\ BackedInv'
        /\ disk' \in [Ids -> Config] /\ suspect' \in SUBSET Ids
    BY <1>2, <1>3, <1>6, FailedStore
  <2>2. /\ faults' # 0 /\ faults' \in Nat /\ crashes' \in Nat /\ edits' \in 0 .. MaxEdits
        /\ faults' + crashes' <= MaxMishaps
    BY <1>6, FaultFacts
  <2>3. /\ \A k \in Ids : job[j].id = k \/ (Nothing(k) => Nothing(k)')
        /\ \A k \in Ids : Unmarked(k) => Unmarked(k)'
    BY <1>1, <1>2, <1>3, <1>6 DEF Nothing, Unmarked, Either, TypeOK
  <2>4. /\ job' \in [Jobs -> Request] /\ owner' \in Place
        /\ JobInv' /\ OwnerInv' /\ CommitInv' /\ DrawnInv' /\ MarkInv' /\ TraceInv'
    <3>1. "failed" \in Verdicts
      BY DEF Verdicts
    <3> QED
      BY <1>2, <1>3, <1>6, <2>2, <2>3, <3>1, Ends
  <2>5. TypeOK'
    BY <1>2, <1>6, <2>1, <2>2, <2>4 DEF TypeOK, ConfigInv, WellFormed
  <2> QED
    BY <2>1, <2>4, <2>5
<1> QED
  BY <1>1, <1>5, <1>6 DEF RestorePrevious

-----------------------------------------------------------------------------
(* Reconciliations and lifecycle commands, which are about no request.     *)

LEMMA NoRequest ==
  ASSUME IInv, up, owner = Idle \/ owner.at \in OtherPlaces
  PROVE  owner.job = None /\ (owner.at \in OtherPlaces => owner.id \in Ids)
BY DEF IInv, OwnerInv, Idle, OtherPlaces

\* Where the owner stands after one of these commands.
LEMMA PlaceFacts ==
  ASSUME up', \/ owner' = Idle
              \/ owner'.at \in OtherPlaces /\ owner'.job = None /\ owner'.id \in Ids /\ owner' \in Place,
         owner'.at \notin {"deleted", "purge"} \/ (~Exists(configs'[owner'.id]) /\ ~Exists(disk'[owner'.id]))
  PROVE  owner' \in Place /\ owner'.job = None /\ OwnerInv' /\ CommitInv'
<1>1. Idle \in Place /\ Idle.at = "idle" /\ Idle.job = None
  BY DEF Idle, Place
<1> QED
  BY <1>1 DEF OwnerInv, CommitInv, ApplyPlaces, OtherPlaces

LEMMA ReconcileCommand ==
  ASSUME IInv, up, up' = up, owner = Idle \/ owner.at \in OtherPlaces,
         owner' = Idle \/ (owner.at = "deleted" /\ owner' = [owner EXCEPT !.at = "purge"]),
         Reconcile,
         UNCHANGED <<content, job, drawn, suspect>>
  PROVE  IInv'
<1> USE DEF IInv
<1>1. /\ ReconcileConfirming({}) /\ {} \in SUBSET Ids
      /\ Idle.at = "idle" /\ owner.job = None
      /\ UNCHANGED content /\ UNCHANGED job /\ UNCHANGED drawn /\ UNCHANGED suspect
  BY NoRequest DEF Reconcile, Idle
<1>2. /\ ext' \in External /\ registry' \in External /\ source' = source
      /\ faults' = 0 => faults = 0
      /\ faults' \in Nat /\ crashes' = crashes /\ edits' = edits
      /\ faults' + crashes' <= MaxMishaps
      /\ child' \in [Ids -> 0 .. MaxRev]
      /\ configs' \in [Ids -> Config] /\ disk' \in [Ids -> Config]
  BY <1>1, ReconcileFacts
<1>3. ConfigInv'
  BY <1>1, ReconcileStore
<1>4. StoreInv'
  BY <1>1, ReconcileIntact DEF TypeOK
<1>5. AgreeInv' /\ BackedInv'
  BY <1>1, ReconcileAgrees
<1>6. \A i \in Ids : Keeps(i)
  BY <1>1, ReconcileMarks
<1>7. /\ owner' \in Place /\ owner'.job = None /\ OwnerInv' /\ CommitInv'
      /\ owner'.at \notin {"undo", "remove", "settle", "delete", "deleted"}
  <2>1. CASE owner' = Idle
    BY <1>1, <2>1, PlaceFacts
  <2>2. CASE owner.at = "deleted" /\ owner' = [owner EXCEPT !.at = "purge"]
    <3>1. /\ owner \in Place /\ owner.id \in Ids
          /\ ~Exists(configs[owner.id]) /\ ~Exists(disk[owner.id])
      BY <2>2, NoRequest DEF TypeOK, CommitInv, OtherPlaces
    <3>2. /\ owner' \in Place /\ owner'.at = "purge" /\ owner'.at \in OtherPlaces
          /\ owner'.id = owner.id /\ owner'.job = None
      BY <1>1, <2>2, <3>1 DEF Place, OtherPlaces
    <3>3. ~Exists(configs'[owner.id]) /\ ~Exists(disk'[owner.id])
      BY <1>1, <3>1, ReconcileStore
    <3> QED
      BY <3>1, <3>2, <3>3, PlaceFacts
  <2> QED
    BY <2>1, <2>2
<1>8. JobInv' /\ DrawnInv' /\ MarkInv' /\ TraceInv'
  BY <1>1, <1>2, <1>6, <1>7, Bystanders
<1>9. TypeOK'
  BY <1>1, <1>2, <1>3, <1>7 DEF TypeOK, ConfigInv, WellFormed
<1> QED
  BY <1>3, <1>4, <1>5, <1>7, <1>8, <1>9

LEMMA LoopReconcileInv ==
  ASSUME IInv, LoopReconcile
  PROVE  IInv'
BY ReconcileCommand DEF LoopReconcile, OwnerIdle

LEMMA SettleLifecycleInv ==
  ASSUME IInv, SettleLifecycle \/ SettleDeletion
  PROVE  IInv'
<1>1. owner.at \in OtherPlaces
  BY DEF SettleLifecycle, SettleDeletion, OtherPlaces
<1> QED
  BY <1>1, ReconcileCommand DEF SettleLifecycle, SettleDeletion

\* Only content files of the deleted configuration go.
LEMMA DeleteContentInv ==
  ASSUME IInv, DeleteContent
  PROVE  IInv'
<1> USE DEF IInv
<1>1. /\ owner.at = "purge" /\ owner.at \in OtherPlaces /\ owner.id \in Ids /\ up
      /\ owner.job = None /\ ~Exists(configs[owner.id]) /\ ~Exists(disk[owner.id])
      /\ owner \in Place /\ Idle.at = "idle"
  BY NoRequest DEF DeleteContent, CommitInv, OtherPlaces, TypeOK, Idle
<1>2. /\ UNCHANGED up /\ UNCHANGED configs /\ UNCHANGED disk /\ UNCHANGED source
      /\ UNCHANGED ext /\ UNCHANGED registry /\ UNCHANGED child /\ UNCHANGED job
      /\ UNCHANGED drawn /\ UNCHANGED suspect
  BY DEF DeleteContent, extern
<1>3. /\ content' \in [Ids -> [Revs -> Bodies \cup {None}]]
      /\ \A i \in Ids : i # owner.id => content'[i] = content[i]
      /\ owner' \in {owner, Idle}
      /\ faults' \in Nat /\ crashes' = crashes /\ edits' = edits
      /\ faults' + crashes' <= MaxMishaps
      /\ faults' = 0 => faults = 0
  <2>1. CASE \E r \in Revs : /\ content' = [content EXCEPT ![owner.id][r] = None]
                            /\ UNCHANGED <<owner, bounds>>
    BY <1>1, <2>1 DEF TypeOK, bounds
  <2>2. CASE owner' = Idle /\ UNCHANGED <<content, bounds>>
    BY <2>2 DEF TypeOK, bounds
  <2>3. CASE Fault /\ owner' = Idle /\ UNCHANGED content
    BY <2>3, FaultFacts DEF TypeOK
  <2> QED
    BY <2>1, <2>2, <2>3 DEF DeleteContent
<1>4. owner' \in Place /\ owner'.job = None /\ OwnerInv' /\ CommitInv'
  BY <1>1, <1>2, <1>3, PlaceFacts
<1>5. JobInv' /\ DrawnInv' /\ MarkInv' /\ TraceInv'
  <2>1. \A i \in Ids : Keeps(i)
    BY <1>2 DEF Keeps, Nothing, Unmarked
  <2>2. owner'.at \notin {"undo", "remove", "settle", "delete", "deleted"}
    BY <1>1, <1>3
  <2> QED
    BY <1>1, <1>2, <1>3, <1>4, <2>1, <2>2, Bystanders
<1>6. ConfigInv' /\ AgreeInv' /\ BackedInv'
  BY <1>2, <1>3 DEF ConfigInv, AgreeInv, BackedInv, AdoptionBacked
<1>7. StoreInv'
  BY <1>1, <1>2, <1>3 DEF StoreInv, Intact
<1>8. TypeOK'
  BY <1>2, <1>3, <1>4 DEF TypeOK
<1> QED
  BY <1>4, <1>5, <1>6, <1>7, <1>8

LEMMA SetEnabledInv ==
  ASSUME IInv, NEW i \in Ids, NEW e \in BOOLEAN, NEW r \in Revs, SetEnabled(i, e, r)
  PROVE  IInv'
<1> USE DEF IInv
<1>1. PICK c \in Config : c = configs[i]
  BY DEF TypeOK
<1>2. PICK new : new = [c EXCEPT !.enabled = e, !.rev = c.rev + 1]
  OBVIOUS
<1>3. /\ up /\ owner = Idle /\ owner.job = None
      /\ Exists(c) /\ c.rev < MaxRev
      /\ UNCHANGED up /\ UNCHANGED content /\ UNCHANGED source /\ UNCHANGED ext
      /\ UNCHANGED registry /\ UNCHANGED child /\ UNCHANGED job /\ UNCHANGED drawn
  BY <1>1, NoRequest DEF SetEnabled, OwnerIdle, extern
<1>4. WellFormed(c)
  BY <1>1 DEF ConfigInv
<1>5. /\ new \in Config /\ new.crev = c.crev /\ new.body = c.body /\ new.rev = c.rev + 1
      /\ Exists(new) /\ WellFormed(new)
  <2>1. c.rev \in Nat /\ c.crev \in Nat /\ c.rev + 1 \in 0 .. MaxRev
    BY <1>3, ApplyAssumption DEF Config, ApplyAssumption
  <2>2. new \in Config /\ new.crev = c.crev /\ new.body = c.body /\ new.rev = c.rev + 1
    BY <1>2, <2>1 DEF Config
  <2> QED
    BY <1>3, <1>4, <2>1, <2>2 DEF Exists, WellFormed
<1>6. i \notin suspect => Intact(i, new)
  <2> SUFFICES ASSUME i \notin suspect
               PROVE  Intact(i, new)
    OBVIOUS
  <2>1. PICK d \in Config : d = disk[i]
    BY DEF TypeOK
  <2>2. Same(c, d) /\ (Exists(d) => Intact(i, d))
    BY <1>1, <1>3, <2>1 DEF StoreInv
  <2>3. d.rev = c.rev /\ d.crev = c.crev /\ d.body = c.body
    BY <2>2, SameFields
  <2> QED
    BY <1>3, <1>5, <2>2, <2>3 DEF Intact, Exists
<1>7. CASE /\ disk' = [disk EXCEPT ![i] = new] /\ configs' = [configs EXCEPT ![i] = new]
           /\ owner' = [at |-> "lifecycle", job |-> None, id |-> i]
           /\ UNCHANGED <<suspect, bounds>>
  <2>1. /\ UNCHANGED suspect /\ UNCHANGED faults /\ UNCHANGED crashes /\ UNCHANGED edits
    BY <1>7 DEF bounds
  <2>2. ConfigInv' /\ StoreInv' /\ AgreeInv' /\ BackedInv'
    BY <1>3, <1>5, <1>6, <1>7, <2>1, CommitStore
  <2>3. /\ disk' \in [Ids -> Config] /\ configs' \in [Ids -> Config]
        /\ \A k \in Ids : k # i => disk'[k] = disk[k] /\ configs'[k] = configs[k]
    BY <1>5, <1>7, CommitFacts
  <2>4. \A k \in Ids : Keeps(k)
    BY <1>1, <1>3, <2>3 DEF Keeps, Nothing, Unmarked
  <2>5. /\ owner'.at = "lifecycle" /\ owner'.job = None /\ owner'.id \in Ids
        /\ owner' \in Place /\ owner'.at \in OtherPlaces
    BY <1>7 DEF Place, OtherPlaces
  <2>6. OwnerInv' /\ CommitInv'
    BY <1>3, <2>5, PlaceFacts
  <2>7. JobInv' /\ DrawnInv' /\ MarkInv' /\ TraceInv'
    BY <1>3, <2>1, <2>4, <2>5, Bystanders
  <2>8. TypeOK'
    BY <1>3, <2>1, <2>2, <2>3, <2>5 DEF TypeOK, ConfigInv, WellFormed
  <2> QED
    BY <2>2, <2>6, <2>7, <2>8
<1>8. CASE /\ disk' \in Either(disk, [disk EXCEPT ![i] = new])
           /\ Fault /\ suspect' = suspect \cup {i} /\ UNCHANGED <<configs, owner>>
  <2>1. /\ ConfigInv' /\ StoreInv' /\ AgreeInv' /\ BackedInv'
        /\ disk' \in [Ids -> Config] /\ suspect' \in SUBSET Ids
    BY <1>3, <1>5, <1>8, FailedStore
  <2>2. /\ faults' # 0 /\ faults' \in Nat /\ crashes' \in Nat /\ edits' \in 0 .. MaxEdits
        /\ faults' + crashes' <= MaxMishaps
    BY <1>8, FaultFacts
  <2>3. \A k \in Ids : Keeps(k)
    BY <1>1, <1>3, <1>8 DEF Keeps, Nothing, Unmarked, Either, TypeOK
  <2>4. owner' = Idle /\ Idle.at = "idle" /\ Idle.job = None
    BY <1>3, <1>8 DEF Idle
  <2>5. owner' \in Place /\ OwnerInv' /\ CommitInv'
    BY <1>3, <2>4, PlaceFacts
  <2>6. JobInv' /\ DrawnInv' /\ MarkInv' /\ TraceInv'
    BY <1>3, <2>2, <2>3, <2>4, Bystanders
  <2>7. TypeOK'
    BY <1>3, <1>8, <2>1, <2>2, <2>5 DEF TypeOK, ConfigInv, WellFormed
  <2> QED
    BY <2>1, <2>5, <2>6, <2>7
<1> QED
  BY <1>1, <1>2, <1>7, <1>8 DEF SetEnabled

\* A configuration is given up, or nothing has happened but a failed write.
LEMMA DeleteInv ==
  ASSUME IInv, NEW i \in Ids, NEW r \in Revs, Delete(i, r)
  PROVE  IInv'
<1> USE DEF IInv
<1>1. PICK free : free = [ext EXCEPT !.by = None]
  OBVIOUS
<1>2. free \in External /\ free.by = None
  BY <1>1 DEF TypeOK, External
<1>3. /\ up /\ owner = Idle /\ owner.job = None /\ None \notin Ids
      /\ Exists(configs[i])
      /\ UNCHANGED up /\ UNCHANGED configs /\ UNCHANGED disk /\ UNCHANGED content
      /\ UNCHANGED source /\ UNCHANGED child /\ UNCHANGED job /\ UNCHANGED drawn
      /\ UNCHANGED suspect
  BY NoRequest, ApplyAssumption DEF Delete, OwnerIdle, store, ApplyAssumption
<1>4. ConfigInv' /\ StoreInv'
  BY <1>3 DEF ConfigInv, StoreInv, Intact
<1>5. CASE /\ ext' \in {ext, free} /\ registry' \in {registry, free}
           /\ ext'.by # i /\ (ext' = registry' \/ (ext' = ext /\ registry' = registry))
           /\ UNCHANGED bounds
           /\ owner' = [at |-> "delete", job |-> None, id |-> i]
  <2>1. UNCHANGED faults /\ UNCHANGED crashes /\ UNCHANGED edits
    BY <1>5 DEF bounds
  <2>2. /\ owner'.at = "delete" /\ owner'.job = None /\ owner'.id = i
        /\ owner' \in Place /\ owner'.at \in OtherPlaces
    BY <1>5 DEF Place, OtherPlaces
  <2>3. OwnerInv' /\ CommitInv'
    BY <1>3, <2>2, PlaceFacts
  <2>4. \A k \in Ids : Keeps(k)
    BY <1>2, <1>3, <1>5 DEF Keeps, Nothing, Unmarked
  <2>5. JobInv' /\ DrawnInv' /\ MarkInv' /\ TraceInv'
    BY <1>3, <1>5, <2>1, <2>2, <2>4, Bystanders
  <2>6. AgreeInv' /\ BackedInv'
    BY <1>2, <1>3, <1>5, <2>1 DEF AgreeInv, BackedInv, AdoptionBacked
  <2>7. TypeOK'
    BY <1>2, <1>3, <1>4, <1>5, <2>1, <2>2 DEF TypeOK
  <2> QED
    BY <1>4, <2>3, <2>5, <2>6, <2>7
<1>6. CASE registry' \in Either(registry, free) /\ Fault /\ UNCHANGED <<ext, owner>>
  <2>1. /\ faults' # 0 /\ faults' \in Nat /\ crashes' = crashes /\ edits' \in 0 .. MaxEdits
        /\ faults' + crashes' <= MaxMishaps /\ crashes' \in Nat
    BY <1>6, FaultFacts
  <2>2. \A k \in Ids : Keeps(k)
    BY <1>2, <1>3, <1>6 DEF Keeps, Nothing, Unmarked, Either
  <2>3. owner' = Idle /\ Idle.at = "idle" /\ Idle.job = None
    BY <1>3, <1>6 DEF Idle
  <2>4. owner' \in Place /\ OwnerInv' /\ CommitInv'
    BY <1>3, <2>3, PlaceFacts
  <2>5. JobInv' /\ DrawnInv' /\ MarkInv' /\ TraceInv'
    BY <1>3, <2>1, <2>2, <2>3, Bystanders
  <2>6. AgreeInv' /\ BackedInv'
    BY <1>3, <1>6, <2>1 DEF AgreeInv, BackedInv, AdoptionBacked
  <2>7. TypeOK'
    BY <1>2, <1>3, <1>4, <1>6, <2>1, <2>4 DEF TypeOK, Either
  <2> QED
    BY <1>4, <2>4, <2>5, <2>6, <2>7
<1>7. CASE ext.by # i
  <2>1. ext' = ext /\ registry' = registry /\ UNCHANGED bounds
        /\ owner' = [at |-> "delete", job |-> None, id |-> i]
    BY <1>7 DEF Delete
  <2> QED
    BY <1>5, <1>7, <2>1
<1>8. CASE ext.by = i
  <2>1. \/ /\ ext' = free /\ registry' = free /\ UNCHANGED bounds
           /\ owner' = [at |-> "delete", job |-> None, id |-> i]
        \/ registry' \in Either(registry, free) /\ Fault /\ UNCHANGED <<ext, owner>>
    BY <1>1, <1>8 DEF Delete
  <2> QED
    BY <1>2, <1>3, <1>5, <1>6, <2>1
<1> QED
  BY <1>7, <1>8

LEMMA DeleteMetadataInv ==
  ASSUME IInv, DeleteMetadata
  PROVE  IInv'
<1> USE DEF IInv
<1>1. /\ up /\ owner.at = "delete" /\ owner.at \in OtherPlaces
      /\ RemoveMetadata(owner.id)
      /\ owner' = IF faults' = faults THEN [owner EXCEPT !.at = "deleted"] ELSE Idle
      /\ UNCHANGED up /\ UNCHANGED content /\ UNCHANGED source /\ UNCHANGED ext
      /\ UNCHANGED registry /\ UNCHANGED child /\ UNCHANGED job /\ UNCHANGED drawn
      /\ UNCHANGED suspect
  BY DEF DeleteMetadata, extern, OtherPlaces
<1>2. owner.id \in Ids /\ owner.job = None /\ owner \in Place
  BY <1>1, NoRequest DEF TypeOK
<1>3. ext.by # owner.id
  BY <1>1 DEF MarkInv
<1>4. /\ ConfigInv' /\ StoreInv' /\ AgreeInv' /\ BackedInv'
      /\ disk' \in [Ids -> Config] /\ configs' \in [Ids -> Config]
      /\ faults' \in Nat /\ crashes' = crashes /\ edits' = edits
      /\ faults' + crashes' <= MaxMishaps
      /\ faults' \in {faults, faults + 1}
      /\ faults' = faults => ~Exists(configs'[owner.id]) /\ ~Exists(disk'[owner.id])
      /\ \A k \in Ids : Keeps(k)
  BY <1>1, <1>2, <1>3, RemoveStore
<1>5. faults' = 0 => faults = 0
  BY <1>4 DEF TypeOK
<1>6. \/ owner' = Idle
      \/ /\ faults' = faults
         /\ owner'.at = "deleted" /\ owner'.job = None /\ owner'.id = owner.id
         /\ owner' \in Place /\ owner'.at \in OtherPlaces
  BY <1>1, <1>2 DEF Place, OtherPlaces
<1>7. Idle.at = "idle" /\ Idle.job = None
  BY DEF Idle
<1>8. owner' \in Place /\ owner'.job = None /\ OwnerInv' /\ CommitInv'
  <2>1. owner'.at \notin {"deleted", "purge"} \/ (~Exists(configs'[owner'.id]) /\ ~Exists(disk'[owner'.id]))
    BY <1>4, <1>6, <1>7
  <2>2. \/ owner' = Idle
        \/ owner'.at \in OtherPlaces /\ owner'.job = None /\ owner'.id \in Ids /\ owner' \in Place
    BY <1>2, <1>6
  <2>3. up'
    BY <1>1
  <2> QED
    BY <2>1, <2>2, <2>3, PlaceFacts
<1>9. JobInv' /\ DrawnInv' /\ MarkInv' /\ TraceInv'
  <2>1. owner'.at \in {"undo", "remove", "settle", "delete", "deleted"} => ext'.by # owner'.id
    BY <1>1, <1>3, <1>6, <1>7
  <2> QED
    BY <1>1, <1>2, <1>4, <1>5, <1>8, <2>1, Bystanders
<1>10. TypeOK'
  BY <1>1, <1>4, <1>8 DEF TypeOK, ConfigInv, WellFormed
<1> QED
  BY <1>4, <1>8, <1>9, <1>10

-----------------------------------------------------------------------------
(* The manager stops and starts; others edit files.                        *)

LEMMA CrashInv ==
  ASSUME IInv, Crash
  PROVE  IInv'
<1> USE DEF IInv
<1>1. /\ up /\ up' = FALSE /\ owner' = Idle /\ Idle.at = "idle" /\ Idle.job = None
      /\ Idle \in Place
      /\ UNCHANGED disk /\ UNCHANGED content /\ UNCHANGED source /\ UNCHANGED registry
      /\ UNCHANGED drawn /\ UNCHANGED suspect /\ UNCHANGED faults /\ UNCHANGED edits
      /\ None \notin Jobs /\ None \notin Ids
  BY ApplyAssumption DEF Crash, Idle, Place, ApplyAssumption
<1>2. crashes' \in Nat /\ crashes' # 0 /\ faults + crashes' <= MaxMishaps
  BY ApplyAssumption DEF Crash, TypeOK, ApplyAssumption
<1>3. /\ configs' \in [Ids -> Config]
      /\ \A i \in Ids : ~Exists(configs'[i]) /\ WellFormed(configs'[i]) /\ configs'[i].crev = 0
      /\ ext' \in External /\ ext'.by = None
      /\ child' \in [Ids -> 0 .. MaxRev]
  <2>1. ext' = NoExternal /\ configs' = [i \in Ids |-> NoConfig] /\ child' = [i \in Ids |-> 0]
    BY DEF Crash
  <2>2. MaxRev \in Nat
    BY ApplyAssumption DEF ApplyAssumption
  <2>3. NoConfig.crev = 0
    BY DEF NoConfig
  <2> QED
    BY <2>1, <2>2, <2>3, NoConfigFacts DEF External, NoExternal
<1>4. /\ job' \in [Jobs -> Request]
      /\ \A j \in Jobs :
           /\ job'[j].id = job[j].id /\ job'[j].prev = job[j].prev /\ job'[j].sig = job[j].sig
           /\ job'[j].verdict = job[j].verdict
           /\ job'[j].at \in {"new", "done"}
           /\ job'[j].at = "new" => job'[j] = job[j] /\ job[j].at = "new"
           /\ job[j].at \in {"new", "done"} => job'[j].at = job[j].at
  <2>1. job' = [j \in Jobs |-> IF job[j].at = "new" THEN job[j]
                               ELSE [job[j] EXCEPT !.at = "done"]]
    BY DEF Crash
  <2>2. ASSUME NEW j \in Jobs
        PROVE  /\ job'[j] \in Request
               /\ job'[j].id = job[j].id /\ job'[j].prev = job[j].prev
               /\ job'[j].sig = job[j].sig
               /\ job'[j].verdict = job[j].verdict
               /\ job'[j].at \in {"new", "done"}
               /\ job'[j].at = "new" => job'[j] = job[j] /\ job[j].at = "new"
               /\ job[j].at \in {"new", "done"} => job'[j].at = job[j].at
    <3>1. PICK w \in Request : w = job[j]
      BY DEF TypeOK
    <3>2. job'[j] = IF w.at = "new" THEN w ELSE [w EXCEPT !.at = "done"]
      BY <2>1, <3>1
    <3> QED
      BY <3>1, <3>2 DEF Request
  <2> QED
    BY <2>1, <2>2
<1>5. TypeOK'
  <2>1. \A i \in Ids : disk[i].crev <= disk[i].rev /\ configs'[i].crev <= configs'[i].rev
    BY <1>3 DEF TypeOK, WellFormed
  <2> QED
    BY <1>1, <1>2, <1>3, <1>4, <2>1 DEF TypeOK
<1>6. ConfigInv' /\ StoreInv'
  BY <1>1, <1>3 DEF ConfigInv, StoreInv, Intact
<1>7. JobInv'
  BY <1>4 DEF JobInv, JobOK
<1>8. OwnerInv' /\ CommitInv'
  BY <1>1, <1>2 DEF OwnerInv, CommitInv, ApplyPlaces, OtherPlaces
<1>9. \A j \in Jobs : Creates(j)' <=> Creates(j)
  BY <1>4 DEF Creates
<1>10. \A i \in Ids : (Nothing(i) => Nothing(i)') /\ (Unmarked(i) => Unmarked(i)')
  BY <1>1, <1>3 DEF Nothing, Unmarked
<1>11. DrawnInv'
  BY <1>1, <1>4, <1>9, <1>10 DEF DrawnInv
<1>12. MarkInv'
  <2>1. ASSUME NEW j \in Jobs, Creates(j)
        PROVE  MarkOK(j)'
    <3>1. MarkOK(j) /\ job[j].id \in Ids
      BY <2>1, RequestFields DEF MarkInv, Creates
    <3> QED
      BY <1>1, <1>4, <1>10, <3>1 DEF MarkOK
  <2> QED
    BY <1>1, <1>9, <2>1 DEF MarkInv
<1>13. AgreeInv' /\ BackedInv'
  BY <1>1 DEF AgreeInv, BackedInv, AdoptionBacked
<1>14. TraceInv'
  <2>1. ASSUME NEW j \in Jobs, Creates(j), faults = 0
        PROVE  TraceOK(j)'
    <3>1. TraceOK(j) /\ JobOK(j) /\ job[j].id \in Ids
      BY <2>1, RequestFields DEF TraceInv, JobInv, Creates
    <3>2. job[j].at \in {"new", "prepared", "checked", "finishing", "done"}
      BY RequestFields DEF Request
    <3>3. Traceless(j)' => Traceless(j)
      <4>1. job[j].at = "new" => job[j].verdict = "none"
        BY <3>1 DEF JobOK, NewJob
      <4>2. job[j].at = "finishing" => job[j].verdict = "none"
        BY <3>1 DEF JobOK, Proposes
      <4> QED
        BY <1>1, <1>4, <3>2, <4>1, <4>2 DEF Traceless
    <3>4. Sole(j) => Sole(j)'
      BY <1>4 DEF Sole
    <3>5. PICK x \in Ids : x = job[j].id
      BY <3>1
    <3>6. Traceless(j)' => Nothing(x)'
      BY <1>10, <3>1, <3>3, <3>5 DEF TraceOK
    <3>7. Traceless(j)' => Nothing(job[j].id)'
      BY <1>4, <3>5, <3>6 DEF Nothing
    <3> QED
      BY <1>4, <3>1, <3>3, <3>4, <3>7 DEF TraceOK
  <2> QED
    BY <1>1, <1>9, <2>1 DEF TraceInv
<1> QED
  BY <1>5, <1>6, <1>7, <1>8, <1>11, <1>12, <1>13, <1>14

LEMMA RestartInv ==
  ASSUME IInv, Restart
  PROVE  IInv'
<1> USE DEF IInv
<1>1. /\ ~up /\ up' /\ up' = TRUE /\ configs' = disk /\ ext' = registry
      /\ UNCHANGED disk /\ UNCHANGED content /\ UNCHANGED source /\ UNCHANGED registry
      /\ UNCHANGED child /\ UNCHANGED job /\ UNCHANGED owner /\ UNCHANGED drawn
      /\ UNCHANGED suspect /\ UNCHANGED faults /\ UNCHANGED crashes /\ UNCHANGED edits
  BY DEF Restart, bounds
<1>2. owner = Idle /\ Idle.at = "idle" /\ Idle.job = None /\ crashes # 0
  <2>1. owner.at = "idle"
    BY <1>1 DEF OwnerInv
  <2> QED
    BY <1>1, <2>1 DEF OwnerInv, Idle
<1>3. TypeOK'
  BY <1>1 DEF TypeOK
<1>4. ConfigInv'
  BY <1>1 DEF ConfigInv
<1>5. \A i \in Ids : Same(configs'[i], disk'[i])
  BY <1>1 DEF Same
<1>6. StoreInv'
  BY <1>1, <1>5 DEF StoreInv, Intact
<1>7. JobInv' /\ OwnerInv' /\ CommitInv'
  BY <1>1, <1>2 DEF JobInv, JobOK, Proposes, OwnerInv, CommitInv, ApplyPlaces, OtherPlaces
<1>8. \A i \in Ids : (Nothing(i) => Nothing(i)') /\ (Unmarked(i) => Unmarked(i)')
  BY <1>1 DEF Nothing, Unmarked
<1>9. \A j \in Jobs : Creates(j)' <=> Creates(j)
  BY <1>1 DEF Creates
<1>10. DrawnInv'
  BY <1>1, <1>8, <1>9 DEF DrawnInv
<1>11. MarkInv'
  <2>1. ASSUME NEW j \in Jobs, Creates(j)
        PROVE  MarkOK(j)'
    <3>1. MarkOK(j) /\ job[j].id \in Ids
      BY <2>1, RequestFields DEF MarkInv, Creates
    <3> QED
      BY <1>1, <1>8, <3>1 DEF MarkOK, Unmarked
  <2> QED
    BY <1>1, <1>2, <1>9, <2>1 DEF MarkInv
<1>12. AgreeInv'
  BY <1>1, <1>5 DEF AgreeInv
<1>13. BackedInv'
  BY <1>1, <1>2 DEF AgreeInv, BackedInv, AdoptionBacked
<1>14. TraceInv'
  <2>1. ASSUME NEW j \in Jobs, Creates(j), faults = 0
        PROVE  TraceOK(j)'
    <3>1. TraceOK(j) /\ job[j].id \in Ids
      BY <2>1, RequestFields DEF TraceInv, Creates
    <3>2. (Traceless(j)' <=> Traceless(j)) /\ (Sole(j)' <=> Sole(j))
      BY <1>1 DEF Traceless, Sole
    <3> QED
      BY <1>1, <1>8, <3>1, <3>2 DEF TraceOK, Nothing
  <2> QED
    BY <1>1, <1>9, <2>1 DEF TraceInv
<1> QED
  BY <1>3, <1>4, <1>6, <1>7, <1>10, <1>11, <1>12, <1>13, <1>14

\* What does not depend on the content files and on the source.
LEMMA Untouched ==
  ASSUME IInv, UNCHANGED <<up, configs, disk, ext, registry, job, owner, drawn, faults, crashes>>
  PROVE  ConfigInv' /\ JobInv' /\ OwnerInv' /\ DrawnInv' /\ MarkInv' /\ AgreeInv' /\ BackedInv'
         /\ TraceInv'
<1> USE DEF IInv
<1>1. /\ UNCHANGED up /\ UNCHANGED configs /\ UNCHANGED disk /\ UNCHANGED ext
      /\ UNCHANGED registry /\ UNCHANGED job /\ UNCHANGED owner /\ UNCHANGED drawn
      /\ UNCHANGED faults /\ UNCHANGED crashes
  OBVIOUS
<1>2. ConfigInv' /\ JobInv' /\ OwnerInv'
  BY <1>1 DEF ConfigInv, JobInv, JobOK, Proposes, OwnerInv
<1>3. DrawnInv'
  BY <1>1 DEF DrawnInv, Nothing, Creates
<1>4. MarkInv'
  BY <1>1 DEF MarkInv, MarkOK, Unmarked, Creates
<1>5. AgreeInv' /\ BackedInv'
  BY <1>1 DEF AgreeInv, BackedInv, AdoptionBacked
<1>6. TraceInv'
  BY <1>1 DEF TraceInv, TraceOK, Traceless, Sole, Nothing, Creates
<1> QED
  BY <1>2, <1>3, <1>4, <1>5, <1>6

LEMMA EditSourceInv ==
  ASSUME IInv, NEW s \in Sources \cup {None}, EditSource(s)
  PROVE  IInv'
<1> USE DEF IInv
<1>1. /\ UNCHANGED <<up, configs, disk, ext, registry, job, owner, drawn, faults, crashes>>
      /\ UNCHANGED content /\ UNCHANGED child /\ UNCHANGED suspect
      /\ source' = s /\ edits' = edits + 1 /\ edits < MaxEdits
  BY DEF EditSource, store
<1>2. edits' \in 0 .. MaxEdits
  BY <1>1, ApplyAssumption DEF TypeOK, ApplyAssumption
<1>3. TypeOK'
  BY <1>1, <1>2 DEF TypeOK
<1>4. StoreInv' /\ CommitInv'
  BY <1>1 DEF StoreInv, CommitInv, Intact
<1> QED
  BY <1>1, <1>3, <1>4, Untouched

LEMMA TamperInv ==
  ASSUME IInv, NEW i \in Ids, NEW r \in Revs, Tamper(i, r)
  PROVE  IInv'
<1> USE DEF IInv
<1>1. /\ UNCHANGED <<up, configs, disk, ext, registry, job, owner, drawn, faults, crashes>>
      /\ UNCHANGED source /\ UNCHANGED child /\ suspect' = suspect \cup {i}
      /\ content' = [content EXCEPT ![i][r] = None]
      /\ edits' = edits + 1 /\ edits < MaxEdits
  BY DEF Tamper, extern
<1>2. edits' \in 0 .. MaxEdits
  BY <1>1, ApplyAssumption DEF TypeOK, ApplyAssumption
<1>3. /\ content' \in [Ids -> [Revs -> Bodies \cup {None}]]
      /\ \A k \in Ids : k # i => content'[k] = content[k]
  BY <1>1 DEF TypeOK
<1>4. TypeOK'
  BY <1>1, <1>2, <1>3 DEF TypeOK
<1>5. StoreInv'
  BY <1>1, <1>3 DEF StoreInv, Intact
<1>6. CommitInv'
  <2>1. owner.at \in {"metadata", "adopt", "activate", "rollback", "restore"} => owner.id \in Ids
    <3>1. owner.at \in ApplyPlaces => owner.job \in Jobs /\ owner.id = job[owner.job].id
                                      /\ job[owner.job].at = "finishing"
      BY DEF OwnerInv
    <3>2. owner.at \in ApplyPlaces => job[owner.job].id \in Ids
      BY <3>1 DEF JobInv, JobOK, Proposes
    <3> QED
      BY <3>1, <3>2 DEF ApplyPlaces
  <2>2. /\ owner.id \notin suspect' => owner.id \notin suspect /\ owner.id # i
        /\ owner.id \in Ids /\ owner.id # i => content'[owner.id] = content[owner.id]
    BY <1>1, <1>3
  <2> QED
    BY <1>1, <2>1, <2>2 DEF CommitInv, Intact
<1> QED
  BY <1>1, <1>4, <1>5, <1>6, Untouched

LEMMA StutterInv ==
  ASSUME IInv, UNCHANGED vars
  PROVE  IInv'
<1> USE DEF IInv
<1>1. /\ UNCHANGED <<up, configs, disk, ext, registry, job, owner, drawn, faults, crashes>>
      /\ UNCHANGED content /\ UNCHANGED child /\ UNCHANGED suspect
      /\ UNCHANGED source /\ UNCHANGED edits
  BY DEF vars, store, extern, bounds
<1>2. TypeOK'
  BY <1>1 DEF TypeOK
<1>3. StoreInv' /\ CommitInv'
  BY <1>1 DEF StoreInv, CommitInv, Intact
<1> QED
  BY <1>1, <1>2, <1>3, Untouched

-----------------------------------------------------------------------------
(* The invariant holds initially and is preserved by every step.           *)

LEMMA InitIInv == Init => IInv
<1> SUFFICES ASSUME Init
             PROVE  IInv
  OBVIOUS
<1>1. /\ up = TRUE /\ disk = [i \in Ids |-> NoConfig] /\ configs = [i \in Ids |-> NoConfig]
      /\ content = [i \in Ids |-> [r \in Revs |-> None]]
      /\ source \in Sources /\ ext = NoExternal /\ registry = NoExternal
      /\ child = [i \in Ids |-> 0] /\ job = [j \in Jobs |-> NewJob]
      /\ owner = Idle /\ drawn = {} /\ suspect = {}
      /\ faults = 0 /\ crashes = 0 /\ edits = 0
  BY DEF Init
<1>2. /\ MaxRev \in Nat /\ MaxMishaps \in Nat /\ MaxEdits \in Nat
      /\ None \notin Ids /\ None \notin Jobs
  BY ApplyAssumption DEF ApplyAssumption
<1>3. /\ \A i \in Ids : configs[i] = NoConfig /\ disk[i] = NoConfig
      /\ \A j \in Jobs : job[j] = NewJob
      /\ NoExternal \in External /\ NoExternal.by = None
      /\ Idle \in Place /\ Idle.at = "idle" /\ Idle.job = None
      /\ NoConfig.crev = 0 /\ NoConfig.rev = 0
  BY <1>1 DEF NoExternal, External, Idle, Place, NoConfig
<1>4. [r \in Revs |-> None] \in [Revs -> Bodies \cup {None}]
  OBVIOUS
<1>5. TypeOK
  <2>1. content \in [Ids -> [Revs -> Bodies \cup {None}]]
    BY <1>1, <1>4
  <2>2. /\ configs \in [Ids -> Config] /\ disk \in [Ids -> Config]
        /\ child \in [Ids -> 0 .. MaxRev] /\ job \in [Jobs -> Request]
    BY <1>1, <1>2, NoConfigFacts, NewJobFacts
  <2>3. /\ faults \in Nat /\ crashes \in Nat /\ faults + crashes <= MaxMishaps
        /\ edits \in 0 .. MaxEdits
    BY <1>1, <1>2
  <2> QED
    BY <1>1, <1>3, <2>1, <2>2, <2>3 DEF TypeOK
<1>6. ConfigInv /\ \A i \in Ids : ~Exists(configs[i]) /\ ~Exists(disk[i])
  BY <1>3, NoConfigFacts DEF ConfigInv
<1>7. JobInv
  BY <1>3, NewJobFacts DEF JobInv, JobOK
<1>8. OwnerInv /\ CommitInv
  BY <1>1, <1>3 DEF OwnerInv, CommitInv, ApplyPlaces, OtherPlaces
<1>9. StoreInv
  BY <1>3, <1>6 DEF StoreInv, Same
<1>10. \A j \in Jobs : ~Creates(j) /\ job[j].id = None
  BY <1>3, NewJobFacts DEF Creates
<1>11. DrawnInv /\ MarkInv /\ TraceInv
  BY <1>1, <1>2, <1>3, <1>6, <1>10 DEF DrawnInv, MarkInv, TraceInv, Nothing
<1>12. AgreeInv /\ BackedInv
  BY <1>1, <1>3 DEF AgreeInv, BackedInv, AdoptionBacked, Same
<1> QED
  BY <1>5, <1>6, <1>7, <1>8, <1>9, <1>11, <1>12 DEF IInv

LEMMA ApplyIInv ==
  ASSUME IInv, NEW j \in Jobs, Apply(j)
  PROVE  IInv'
<1>1. CASE \E i \in Ids, b \in Bodies : PrepareCreate(j, i, b) \/ PrepareAdopt(j, i, b)
  BY <1>1, PrepareCreateInv, PrepareAdoptInv
<1>2. CASE \E i \in Ids, b \in Bodies, r \in Revs : PrepareUpdate(j, i, b, r)
  BY <1>2, PrepareUpdateInv
<1>3. CASE \E ok \in BOOLEAN : DryRun(j, ok) \/ StartFinish(j, ok)
  BY <1>3, DryRunInv, StartFinishInv
<1>4. CASE FinishLost(j)
  BY <1>4, FinishLostInv
<1>5. CASE WriteContent(j)
  BY <1>5, WriteContentInv
<1>6. CASE WriteMetadata(j)
  BY <1>6, WriteMetadataInv
<1>7. CASE MarkAdopted(j)
  BY <1>7, MarkAdoptedInv
<1>8. CASE UndoStore(j)
  BY <1>8, UndoStoreInv
<1>9. CASE Activate(j)
  BY <1>9, ActivateInv
<1>10. CASE Rollback(j)
  BY <1>10, RollbackInv
<1>11. CASE RemoveNew(j)
  BY <1>11, RemoveNewInv
<1>12. CASE Settle(j)
  BY <1>12, SettleInv
<1>13. CASE RestorePrevious(j)
  BY <1>13, RestorePreviousInv
<1>14. CASE RestartPrevious(j)
  BY <1>14, RestartPreviousInv
<1> QED
  BY <1>1, <1>2, <1>3, <1>4, <1>5, <1>6, <1>7, <1>8, <1>9, <1>10, <1>11, <1>12, <1>13, <1>14
     DEF Apply

LEMMA NextIInv == IInv /\ [Next]_vars => IInv'
<1> SUFFICES ASSUME IInv, [Next]_vars
             PROVE  IInv'
  OBVIOUS
<1>1. CASE \E j \in Jobs : Apply(j)
  BY <1>1, ApplyIInv
<1>2. CASE LoopReconcile
  BY <1>2, LoopReconcileInv
<1>3. CASE \E i \in Ids, e \in BOOLEAN, r \in Revs : SetEnabled(i, e, r)
  BY <1>3, SetEnabledInv
<1>4. CASE SettleLifecycle
  BY <1>4, SettleLifecycleInv
<1>5. CASE \E i \in Ids, r \in Revs : Delete(i, r)
  BY <1>5, DeleteInv
<1>6. CASE DeleteMetadata
  BY <1>6, DeleteMetadataInv
<1>7. CASE SettleDeletion \/ DeleteContent
  BY <1>7, SettleLifecycleInv, DeleteContentInv
<1>8. CASE Crash
  BY <1>8, CrashInv
<1>9. CASE Restart
  BY <1>9, RestartInv
<1>10. CASE \E s \in Sources \cup {None} : EditSource(s)
  BY <1>10, EditSourceInv
<1>11. CASE \E i \in Ids, r \in Revs : Tamper(i, r)
  BY <1>11, TamperInv
<1>12. CASE UNCHANGED vars
  BY <1>12, StutterInv
<1> QED
  BY <1>1, <1>2, <1>3, <1>4, <1>5, <1>6, <1>7, <1>8, <1>9, <1>10, <1>11, <1>12 DEF Next

\* The strengthened invariant holds in every reachable state.
THEOREM Invariance == Spec => []IInv
<1>1. Init => IInv
  BY InitIInv
<1>2. IInv /\ [Next]_vars => IInv'
  BY NextIInv
<1> QED
  BY <1>1, <1>2, PTL DEF Spec

-----------------------------------------------------------------------------
(* Whose work the store holds, when no write failed.                       *)

Committed == {"adopt", "undo", "activate", "rollback", "remove", "restore"}

Accepted(k) == job[k].at = "done" /\ job[k].verdict \in {"none", "succeeded"}

\* Request k was committed and has not been taken back.
InPlace(k) == Accepted(k) \/ (owner.job = k /\ owner.at \in Committed)

Open(k) == job[k].at \in {"prepared", "checked", "finishing"}

\* The metadata files, and what a request may restore, are the work of such
\* requests.
AuthorInv ==
  /\ \A i \in Ids : Exists(disk[i]) => \E k \in Jobs : Wrote(k, i, disk[i]) /\ InPlace(k)
  /\ \A j \in Jobs : Open(j) /\ Exists(job[j].prev) =>
       \E k \in Jobs : Wrote(k, job[j].id, job[j].prev) /\ Accepted(k)

\* Request j has not come to write its content file, or never will.
Unwritten(j) ==
  \/ job[j].at \in {"prepared", "checked"}
  \/ owner.job = j /\ owner.at = "content"
  \/ job[j].at = "done" /\ job[j].verdict \in {"rejected", "lost"} /\ job[j].sig = None

ContentInv ==
  /\ \A i \in Ids \ drawn : NoContent(i)
  /\ \A j \in Jobs : Creates(j) /\ Unwritten(j) => NoContent(job[j].id)

WorkInv == faults = 0 => AuthorInv /\ ContentInv

\* What a step may do to request k.
Advances(k) ==
  \/ job'[k] = job[k]
  \/ Open(k) /\ job'[k].id = job[k].id /\ job'[k].cfg = job[k].cfg /\ job'[k].prev = job[k].prev
  \/ job[k].at = "new" /\ job'[k].id = None /\ ~Exists(job'[k].prev)
  \/ job[k].at = "new" /\ OwnerIdle /\ job'[k].id \in Ids /\ Exists(job'[k].prev)
     /\ job'[k].prev = configs[job'[k].id]
  \/ job[k].at = "new" /\ job'[k].id \in Ids \ drawn /\ ~Exists(job'[k].prev)

\* The step keeps content revision and body of the metadata file of i.
KeepsWork(i) ==
  Exists(disk'[i]) =>
    Exists(disk[i]) /\ disk'[i].crev = disk[i].crev /\ disk'[i].body = disk[i].body

\* No content file is written for i.
Shrinks(i) == \A r \in Revs : content'[i][r] \in {content[i][r], None}

LEMMA InPlaceFacts ==
  ASSUME IInv, NEW k \in Jobs, InPlace(k)
  PROVE  /\ Accepted(k) \/ job[k].at = "finishing"
         /\ Advances(k) => job'[k].id = job[k].id /\ job'[k].cfg = job[k].cfg
         /\ Advances(k) /\ Accepted(k) => job'[k] = job[k] /\ Accepted(k)'
<1>1. Accepted(k) \/ job[k].at = "finishing"
  BY DEF InPlace, IInv, OwnerInv, Committed, ApplyPlaces
<1> QED
  BY <1>1 DEF Advances, Accepted, Open

\* A step that advances requests, writes content for none that counts as
\* unwritten and metadata only in the name of a request in place.
LEMMA WorkKeeps ==
  ASSUME IInv, WorkInv, faults = 0, TypeOK', drawn \subseteq drawn',
         \A k \in Jobs : Advances(k),
         \A k \in Jobs : job[k].at # "new" /\ Creates(k) /\ Unwritten(k)' => Unwritten(k),
         \A i \in Ids : Shrinks(i) \/ \E k \in Jobs : job[k].id = i /\ ~Unwritten(k)',
         \A i \in Ids : Exists(disk'[i]) =>
           \/ KeepsWork(i) /\ \A k \in Jobs : InPlace(k) /\ job[k].id = i => InPlace(k)'
           \/ \E k \in Jobs : Wrote(k, i, disk[i])' /\ InPlace(k)'
  PROVE  WorkInv'
<1>1. AuthorInv /\ ContentInv /\ None \notin Ids
  BY ApplyAssumption DEF WorkInv, ApplyAssumption
<1>2. \A i \in Ids : Exists(disk'[i]) => \E k \in Jobs : Wrote(k, i, disk[i])' /\ InPlace(k)'
  <2> SUFFICES ASSUME NEW i \in Ids, KeepsWork(i), Exists(disk'[i]),
                      \A k \in Jobs : InPlace(k) /\ job[k].id = i => InPlace(k)'
               PROVE  \E k \in Jobs : Wrote(k, i, disk[i])' /\ InPlace(k)'
    OBVIOUS
  <2>1. Exists(disk[i]) /\ disk'[i].crev = disk[i].crev /\ disk'[i].body = disk[i].body
    BY DEF KeepsWork
  <2>2. PICK k \in Jobs : Wrote(k, i, disk[i]) /\ InPlace(k)
    BY <1>1, <2>1 DEF AuthorInv
  <2>3. job'[k].id = job[k].id /\ job'[k].cfg = job[k].cfg
    BY <2>2, InPlaceFacts
  <2>4. job[k].id = i
    BY <2>2 DEF Wrote
  <2>5. InPlace(k)'
    BY <2>2, <2>4
  <2>6. Wrote(k, i, disk[i])'
    BY <2>1, <2>2, <2>3 DEF Wrote
  <2> QED
    BY <2>5, <2>6
<1>3. ASSUME NEW j \in Jobs, Open(j)', Exists(job'[j].prev)
      PROVE  \E k \in Jobs : Wrote(k, job[j].id, job[j].prev)' /\ Accepted(k)'
  <2>1. CASE Open(j) /\ job'[j].id = job[j].id /\ job'[j].prev = job[j].prev
    <3>1. PICK k \in Jobs : Wrote(k, job[j].id, job[j].prev) /\ Accepted(k)
      BY <1>1, <1>3, <2>1 DEF AuthorInv
    <3>2. job'[k] = job[k] /\ Accepted(k)'
      BY <3>1, InPlaceFacts DEF InPlace
    <3> QED
      BY <2>1, <3>1, <3>2 DEF Wrote
  <2>2. CASE job[j].at = "new" /\ OwnerIdle /\ job'[j].id \in Ids
             /\ job'[j].prev = configs[job'[j].id]
    <3>1. PICK i \in Ids : i = job'[j].id
      BY <2>2
    <3>2. up /\ owner.at = "idle" /\ configs[i] \in Config /\ disk[i] \in Config
          /\ Same(configs[i], disk[i])
      BY <2>2 DEF OwnerIdle, Idle, IInv, TypeOK, AgreeInv
    <3>3. /\ Exists(disk[i]) /\ disk[i].crev = job'[j].prev.crev
          /\ disk[i].body = job'[j].prev.body
      BY <1>3, <2>2, <3>1, <3>2, SameFields DEF Exists
    <3>4. PICK k \in Jobs : Wrote(k, i, disk[i]) /\ InPlace(k)
      BY <1>1, <3>3 DEF AuthorInv
    <3>5. Accepted(k)
      BY <3>2, <3>4 DEF InPlace, Committed
    <3>6. job'[k] = job[k] /\ Accepted(k)'
      BY <3>4, <3>5, InPlaceFacts
    <3> QED
      BY <3>1, <3>3, <3>4, <3>6 DEF Wrote
  <2> QED
    BY <1>3, <2>1, <2>2 DEF Advances, Open
<1>4. ASSUME NEW i \in Ids \ drawn'
      PROVE  NoContent(i)'
  <2>1. NoContent(i) /\ \A k \in Jobs : job[k].id # i
    BY <1>1, <1>4 DEF ContentInv, IInv, DrawnInv
  <2>2. Shrinks(i)
    BY <2>1
  <2> QED
    BY <2>1, <2>2 DEF NoContent, Shrinks
<1>5. ASSUME NEW j \in Jobs, Creates(j)', Unwritten(j)'
      PROVE  NoContent(job[j].id)'
  <2>1. job'[j].id \in Ids
    BY <1>5 DEF Creates, TypeOK, Request
  <2>2. CASE Creates(j) /\ job'[j].id = job[j].id /\ job[j].at # "new"
    <3>1. Unwritten(j)
      BY <1>5, <2>2
    <3>2. NoContent(job[j].id) /\ Traceless(j)
      BY <1>1, <2>2, <3>1 DEF ContentInv, Unwritten, Traceless
    <3>3. Sole(j)
      BY <2>2, <3>2 DEF IInv, TraceInv, TraceOK
    <3>4. Shrinks(job[j].id)
      BY <1>5, <2>1, <2>2, <3>3 DEF Sole
    <3> QED
      BY <2>2, <3>2, <3>4 DEF NoContent, Shrinks
  <2>3. CASE job'[j].id \in Ids \ drawn
    <3>1. NoContent(job'[j].id) /\ \A k \in Jobs : job[k].id # job'[j].id
      BY <1>1, <2>3 DEF ContentInv, IInv, DrawnInv
    <3>2. Shrinks(job'[j].id)
      BY <2>3, <3>1
    <3> QED
      BY <3>1, <3>2 DEF NoContent, Shrinks
  <2>4. job[j].at = "new" => job[j].id = None
    BY NewJobFacts DEF IInv, JobInv, JobOK
  <2> QED
    BY <1>1, <1>5, <2>1, <2>2, <2>3, <2>4 DEF Advances, Creates, Open
<1> QED
  BY <1>2, <1>3, <1>4, <1>5 DEF WorkInv, AuthorInv, ContentInv

\* A step that is about no request.
LEMMA WorkAside ==
  ASSUME IInv, WorkInv, TypeOK', faults = 0, job' = job, drawn' = drawn,
         owner' = owner \/ (owner.at \notin ApplyPlaces /\ owner'.at \notin ApplyPlaces),
         \A i \in Ids : Shrinks(i) /\ KeepsWork(i)
  PROVE  WorkInv'
<1>1. \A k \in Jobs : Advances(k)
  BY DEF Advances
<1>2. \A k \in Jobs : Unwritten(k)' => Unwritten(k)
  BY DEF Unwritten, ApplyPlaces
<1>3. \A k \in Jobs : InPlace(k) => InPlace(k)'
  BY DEF InPlace, Accepted, Committed, ApplyPlaces
<1> QED
  BY <1>1, <1>2, <1>3, WorkKeeps

LEMMA ReconcileWork ==
  ASSUME IInv, faults = 0, up, NEW confirmed \in SUBSET Ids, ReconcileConfirming(confirmed)
  PROVE  \A i \in Ids : KeepsWork(i)
<1> TAKE i \in Ids
<1>1. disk[i] \in Config /\ disk'[i] \in Config /\ Same(configs[i], disk[i])
  BY ReconcileFacts DEF IInv, TypeOK, AgreeInv
<1>2. Same(disk[i], disk'[i])
  BY <1>1, ReconcileStore DEF IInv
<1> QED
  BY <1>1, <1>2, SameFields DEF KeepsWork, Exists

\* A failed write leaves nothing to show.
LEMMA NoFault ==
  ASSUME IInv, faults' = 0
  PROVE  ~Fault /\ (UNCHANGED bounds => faults = 0)
BY FaultFacts DEF IInv, bounds

\* The metadata of i was removed, or is as it was.
LEMMA RemovedWork ==
  ASSUME IInv, NEW i \in Ids, RemoveMetadata(i), faults' = 0
  PROVE  /\ faults = 0
         /\ \A k \in Ids : IF k = i THEN ~Exists(disk'[k]) ELSE disk'[k] = disk[k]
<1>1. disk' = [disk EXCEPT ![i] = NoConfig] /\ UNCHANGED bounds
  BY NoFault DEF RemoveMetadata
<1> QED
  BY <1>1, NoFault, NoConfigFacts DEF IInv, TypeOK

LEMMA ReconcileCommandWork ==
  ASSUME IInv, WorkInv, TypeOK', faults' = 0,
         LoopReconcile \/ SettleLifecycle \/ SettleDeletion
  PROVE  WorkInv'
<1>1. /\ up /\ ReconcileConfirming({}) /\ {} \in SUBSET Ids
      /\ content' = content /\ job' = job /\ drawn' = drawn
  BY DEF LoopReconcile, OwnerIdle, SettleLifecycle, SettleDeletion, Reconcile
<1>2. owner' = owner \/ (owner.at \notin ApplyPlaces /\ owner'.at \notin ApplyPlaces)
  BY DEF LoopReconcile, SettleLifecycle, SettleDeletion, Idle, ApplyPlaces, IInv, TypeOK, Place
<1>3. faults = 0
  BY <1>1, ReconcileFacts DEF IInv
<1>4. \A i \in Ids : Shrinks(i) /\ KeepsWork(i)
  BY <1>1, <1>3, ReconcileWork DEF Shrinks
<1> QED
  BY <1>1, <1>2, <1>3, <1>4, WorkAside

LEMMA LifecycleWork ==
  ASSUME IInv, WorkInv, TypeOK', faults' = 0,
         \/ \E i \in Ids, e \in BOOLEAN, r \in Revs : SetEnabled(i, e, r)
         \/ \E i \in Ids, r \in Revs : Delete(i, r)
         \/ DeleteMetadata \/ DeleteContent
  PROVE  WorkInv'
<1>1. ASSUME NEW i \in Ids, NEW e \in BOOLEAN, NEW r \in Revs, SetEnabled(i, e, r)
      PROVE  WorkInv'
  <2>1. PICK c \in Config, d \in Config : c = configs[i] /\ d = disk[i]
    BY DEF IInv, TypeOK
  <2>2. PICK n : n = [c EXCEPT !.enabled = e, !.rev = c.rev + 1]
    OBVIOUS
  <2>3. /\ disk' = [disk EXCEPT ![i] = n] /\ owner' = [at |-> "lifecycle", job |-> None, id |-> i]
        /\ UNCHANGED bounds
    BY <1>1, <2>1, <2>2, NoFault DEF SetEnabled
  <2>4. /\ up /\ owner = Idle /\ Exists(c)
        /\ content' = content /\ job' = job /\ drawn' = drawn
    BY <1>1, <2>1 DEF SetEnabled, OwnerIdle
  <2>5. faults = 0
    BY <2>3, NoFault
  <2>6. Same(c, d)
    BY <2>1, <2>4, <2>5 DEF IInv, AgreeInv
  <2>7. n.crev = d.crev /\ n.body = d.body /\ Exists(d)
    BY <2>2, <2>4, <2>6, SameFields DEF Config, Exists
  <2>8. /\ disk'[i] = n /\ \A k \in Ids : k # i => disk'[k] = disk[k]
    BY <2>3 DEF IInv, TypeOK
  <2>9. \A k \in Ids : Shrinks(k) /\ KeepsWork(k)
    BY <2>1, <2>4, <2>7, <2>8 DEF Shrinks, KeepsWork
  <2>10. owner.at \notin ApplyPlaces /\ owner'.at \notin ApplyPlaces
    BY <2>3, <2>4 DEF Idle, ApplyPlaces
  <2> QED
    BY <2>4, <2>5, <2>9, <2>10, WorkAside
<1>2. ASSUME NEW i \in Ids, NEW r \in Revs, Delete(i, r)
      PROVE  WorkInv'
  <2>1. /\ owner = Idle /\ content' = content /\ disk' = disk /\ job' = job /\ drawn' = drawn
        /\ owner' = [at |-> "delete", job |-> None, id |-> i] /\ UNCHANGED bounds
    BY <1>2, NoFault DEF Delete, OwnerIdle, store
  <2>2. \A k \in Ids : Shrinks(k) /\ KeepsWork(k)
    BY <2>1 DEF Shrinks, KeepsWork
  <2>3. owner.at \notin ApplyPlaces /\ owner'.at \notin ApplyPlaces
    BY <2>1 DEF Idle, ApplyPlaces
  <2> QED
    BY <2>1, <2>2, <2>3, NoFault, WorkAside
<1>3. ASSUME DeleteMetadata
      PROVE  WorkInv'
  <2>1. /\ owner.at = "delete" /\ owner.at \in OtherPlaces /\ RemoveMetadata(owner.id)
        /\ owner' \in {[owner EXCEPT !.at = "deleted"], Idle}
        /\ content' = content /\ job' = job /\ drawn' = drawn /\ up
    BY <1>3 DEF DeleteMetadata, OtherPlaces
  <2>2. owner.id \in Ids /\ owner \in Place
    BY <2>1, NoRequest DEF IInv, TypeOK
  <2>3. faults = 0 /\ \A k \in Ids : ~Exists(disk'[k]) \/ disk'[k] = disk[k]
    BY <2>1, <2>2, RemovedWork
  <2>4. \A k \in Ids : Shrinks(k) /\ KeepsWork(k)
    BY <2>1, <2>3 DEF Shrinks, KeepsWork
  <2>5. owner.at \notin ApplyPlaces /\ owner'.at \notin ApplyPlaces
    BY <2>1, <2>2 DEF Idle, ApplyPlaces, Place
  <2> QED
    BY <2>1, <2>3, <2>4, <2>5, WorkAside
<1>4. ASSUME DeleteContent
      PROVE  WorkInv'
  <2>1. /\ owner.at = "purge" /\ owner.at \in OtherPlaces /\ owner' \in {owner, Idle}
        /\ disk' = disk /\ job' = job /\ drawn' = drawn /\ up /\ UNCHANGED bounds
        /\ content' = content \/
             \E r \in Revs : content' = [content EXCEPT ![owner.id][r] = None]
    BY <1>4, NoFault DEF DeleteContent, OtherPlaces
  <2>2. \A k \in Ids : Shrinks(k)
    <3>1. CASE content' = content
      BY <3>1 DEF Shrinks
    <3>2. ASSUME NEW r \in Revs, content' = [content EXCEPT ![owner.id][r] = None]
          PROVE  \A k \in Ids : Shrinks(k)
      BY <3>2 DEF Shrinks, IInv, TypeOK
    <3> QED
      BY <2>1, <3>1, <3>2
  <2>3. \A k \in Ids : KeepsWork(k)
    BY <2>1 DEF KeepsWork
  <2>4. owner' = owner \/ (owner.at \notin ApplyPlaces /\ owner'.at \notin ApplyPlaces)
    BY <2>1 DEF Idle, ApplyPlaces
  <2> QED
    BY <2>1, <2>2, <2>3, <2>4, NoFault, WorkAside
<1> QED
  BY <1>1, <1>2, <1>3, <1>4

\* A restart, an edit and idleness concern no request.
LEMMA OutsideWork ==
  ASSUME IInv, WorkInv, TypeOK', faults' = 0,
         \/ Restart \/ UNCHANGED vars
         \/ \E s \in Sources \cup {None} : EditSource(s)
         \/ \E i \in Ids, r \in Revs : Tamper(i, r)
  PROVE  WorkInv'
<1>1. /\ disk' = disk /\ job' = job /\ drawn' = drawn /\ owner' = owner /\ faults' = faults
      /\ content' = content \/
           \E i \in Ids, r \in Revs : content' = [content EXCEPT ![i][r] = None]
  BY DEF Restart, EditSource, Tamper, vars, store, extern, bounds
<1>2. \A k \in Ids : Shrinks(k)
  <2>1. CASE content' = content
    BY <2>1 DEF Shrinks
  <2>2. ASSUME NEW i \in Ids, NEW r \in Revs, content' = [content EXCEPT ![i][r] = None]
        PROVE  \A k \in Ids : Shrinks(k)
    BY <2>2 DEF Shrinks, IInv, TypeOK
  <2> QED
    BY <1>1, <2>1, <2>2
<1>3. \A k \in Ids : KeepsWork(k)
  BY <1>1 DEF KeepsWork
<1> QED
  BY <1>1, <1>2, <1>3, WorkAside

\* A request the owner does not work on yet.
LEMMA WorkRequest ==
  ASSUME IInv, WorkInv, TypeOK', faults = 0, NEW j \in Jobs,
         job[j].at \in {"new", "prepared", "checked"}, Advances(j),
         \A k \in Jobs : k # j => job'[k] = job[k],
         drawn \subseteq drawn', content' = content, disk' = disk,
         owner' = owner \/ (owner'.job = j /\ owner'.at = "content" /\ owner = Idle)
  PROVE  WorkInv'
<1>1. \A k \in Jobs : Advances(k)
  BY DEF Advances
<1>2. \A k \in Jobs : job[k].at # "new" /\ Unwritten(k)' => Unwritten(k)
  BY DEF Unwritten
<1>3. ~InPlace(j)
  BY DEF InPlace, Accepted, Committed, ApplyPlaces, IInv, OwnerInv
<1>4. \A k \in Jobs : InPlace(k) => InPlace(k)'
  BY <1>3 DEF InPlace, Accepted, Idle, Committed
<1>5. \A i \in Ids : Shrinks(i) /\ KeepsWork(i)
  BY DEF Shrinks, KeepsWork
<1> QED
  BY <1>1, <1>2, <1>4, <1>5, WorkKeeps

LEMMA PrepareWork ==
  ASSUME IInv, WorkInv, TypeOK', faults' = 0, NEW j \in Jobs, NEW i \in Ids, NEW b \in Bodies,
         PrepareCreate(j, i, b) \/ PrepareAdopt(j, i, b) \/ \E r \in Revs : PrepareUpdate(j, i, b, r)
  PROVE  WorkInv'
<1> USE DEF IInv
<1>1. /\ owner = Idle /\ owner' = owner /\ up /\ job[j].at = "new" /\ OwnerIdle
      /\ content' = content /\ disk' = disk
      /\ UNCHANGED bounds \/ Refresh
  BY DEF PrepareCreate, PrepareAdopt, PrepareUpdate, OwnerIdle, store
<1>2. faults = 0
  BY <1>1, NoFault, RefreshFacts
<1>3. job[j] = NewJob /\ NewJob.prev = NoConfig /\ NewJob.id = None
  <2>1. job[j] = NewJob
    BY <1>1 DEF JobInv, JobOK
  <2> QED
    BY <2>1 DEF NewJob
<1>4. CASE \E v \in Verdicts : job' = Ended(j, v) /\ drawn' = drawn
  <2>1. /\ job'[j].id = None /\ ~Exists(job'[j].prev)
        /\ \A k \in Jobs : k # j => job'[k] = job[k]
    BY <1>3, <1>4, EndedFacts, NoConfigFacts
  <2>2. Advances(j)
    BY <1>1, <2>1 DEF Advances
  <2> QED
    BY <1>1, <1>2, <1>4, <2>1, <2>2, WorkRequest
<1>5. ASSUME NEW c \in Config, NEW p \in Config, NEW s \in Sources \cup {None},
             Prepared(j, i, c, p, s),
             \/ i \notin drawn /\ ~Exists(p) /\ drawn' = drawn \cup {i}
             \/ Exists(p) /\ p = configs[i] /\ drawn' = drawn
      PROVE  WorkInv'
  <2>1. /\ job'[j].id = i /\ job'[j].prev = p
        /\ \A k \in Jobs : k # j => job'[k] = job[k]
    BY <1>5, PreparedFacts DEF TypeOK
  <2>2. Advances(j)
    BY <1>1, <1>5, <2>1 DEF Advances
  <2>3. drawn \subseteq drawn'
    BY <1>5
  <2> QED
    BY <1>1, <1>2, <2>1, <2>2, <2>3, WorkRequest
<1>6. CASE PrepareCreate(j, i, b)
  <2>1. Prepared(j, i, New(b), NoConfig, None) /\ i \notin drawn /\ drawn' = drawn \cup {i}
    BY <1>6 DEF PrepareCreate
  <2> QED
    BY <1>5, <2>1, NewFacts, NoConfigFacts
<1>7. CASE PrepareAdopt(j, i, b)
  <2>1. \/ Prepared(j, i, New(b), NoConfig, source) /\ i \notin drawn /\ drawn' = drawn \cup {i}
        \/ job' = Ended(j, "rejected") /\ drawn' = drawn
    BY <1>7 DEF PrepareAdopt
  <2>2. source \in Sources \cup {None} /\ "rejected" \in Verdicts
    BY DEF TypeOK, Verdicts
  <2> QED
    BY <1>4, <1>5, <2>1, <2>2, NewFacts, NoConfigFacts
<1>8. ASSUME NEW r \in Revs, PrepareUpdate(j, i, b, r)
      PROVE  WorkInv'
  <2>1. PICK c \in Config : c = configs[i]
    BY DEF TypeOK
  <2>2. PICK d : d = [c EXCEPT !.rev = c.rev + 1, !.crev = c.rev + 1, !.body = b]
    OBVIOUS
  <2>3. /\ Exists(c) /\ c.rev < MaxRev /\ drawn' = drawn
        /\ \/ job' = Ended(j, "stale") \/ job' = Ended(j, "rejected")
           \/ Prepared(j, i, d, c, None)
    BY <1>8, <2>1, <2>2 DEF PrepareUpdate
  <2>4. d \in Config /\ "stale" \in Verdicts /\ "rejected" \in Verdicts
    BY <2>2, <2>3, NextRevision DEF Verdicts
  <2> QED
    BY <1>4, <1>5, <2>1, <2>3, <2>4
<1> QED
  BY <1>6, <1>7, <1>8

LEMMA CheckWork ==
  ASSUME IInv, WorkInv, TypeOK', faults' = 0, NEW j \in Jobs,
         FinishLost(j) \/ \E ok \in BOOLEAN : DryRun(j, ok) \/ StartFinish(j, ok)
  PROVE  WorkInv'
<1> USE DEF IInv
<1>1. /\ job[j].at \in {"prepared", "checked"}
      /\ content' = content /\ disk' = disk /\ drawn' = drawn /\ UNCHANGED bounds
  BY DEF FinishLost, DryRun, StartFinish, store
<1>2. /\ owner' = owner \/ (owner'.job = j /\ owner'.at = "content" /\ owner = Idle)
      /\ \/ \E a \in {"checked", "finishing", "done"}, v \in Verdicts :
              job' = [job EXCEPT ![j].at = a, ![j].verdict = v]
         \/ job' = [job EXCEPT ![j].at = "finishing"]
  BY DEF FinishLost, DryRun, StartFinish, OwnerIdle, Finish, Ended, Go, Verdicts
<1>3. /\ job'[j].id = job[j].id /\ job'[j].cfg = job[j].cfg /\ job'[j].prev = job[j].prev
      /\ \A k \in Jobs : k # j => job'[k] = job[k]
  <2>1. CASE \E a \in {"checked", "finishing", "done"}, v \in Verdicts :
               job' = [job EXCEPT ![j].at = a, ![j].verdict = v]
    BY <2>1, MovedFacts
  <2>2. CASE job' = [job EXCEPT ![j].at = "finishing"]
    BY <2>2 DEF TypeOK, Request
  <2> QED
    BY <1>2, <2>1, <2>2
<1>4. Advances(j)
  BY <1>1, <1>3 DEF Advances, Open
<1> QED
  BY <1>1, <1>2, <1>3, <1>4, NoFault, WorkRequest

\* The manager stops: a request in place was committed, and its verdict is open.
LEMMA CrashWork ==
  ASSUME IInv, WorkInv, TypeOK', faults' = 0, Crash
  PROVE  WorkInv'
<1> USE DEF IInv
<1>1. /\ job' = [j \in Jobs |-> IF job[j].at = "new" THEN job[j]
                                ELSE [job[j] EXCEPT !.at = "done"]]
      /\ owner' = Idle /\ Idle.at = "idle"
      /\ content' = content /\ disk' = disk /\ drawn' = drawn /\ faults' = faults
  BY DEF Crash, Idle
<1>2. ASSUME NEW k \in Jobs
      PROVE  /\ Advances(k) /\ (InPlace(k) => InPlace(k)')
             /\ job[k].at # "new" /\ Unwritten(k)' => Unwritten(k)
  <2>1. PICK q \in Request : q = job[k]
    BY DEF TypeOK
  <2>2. PICK w : w = [q EXCEPT !.at = "done"]
    OBVIOUS
  <2>3. /\ w.at = "done" /\ w.id = q.id /\ w.cfg = q.cfg /\ w.prev = q.prev
        /\ w.verdict = q.verdict /\ w.sig = q.sig
        /\ q.at = "done" => w = q
        /\ q.at \in {"new", "prepared", "checked", "finishing", "done"}
    BY <2>2 DEF Request
  <2>4. job'[k] = IF q.at = "new" THEN q ELSE w
    BY <1>1, <2>1, <2>2
  <2>5. Advances(k)
    BY <2>1, <2>3, <2>4 DEF Advances, Open
  <2>6. q.at = "finishing" => q.verdict = "none"
    BY <2>1 DEF JobInv, JobOK, Proposes
  <2>7. InPlace(k) => q.at = "finishing" \/ Accepted(k)
    BY <2>1, InPlaceFacts
  <2>8. InPlace(k) => InPlace(k)'
    BY <2>1, <2>3, <2>4, <2>6, <2>7 DEF InPlace, Accepted
  <2>9. q.at # "new" /\ Unwritten(k)' => Unwritten(k)
    BY <1>1, <2>1, <2>3, <2>4, <2>6 DEF Unwritten
  <2> QED
    BY <2>1, <2>5, <2>8, <2>9
<1>3. \A i \in Ids : Shrinks(i) /\ KeepsWork(i)
  BY <1>1 DEF Shrinks, KeepsWork
<1> QED
  BY <1>1, <1>2, <1>3, WorkKeeps

\* The owner works on request j: its content file is written when it counts as
\* written, and its metadata stays in the name of a request in place.
LEMMA WorkMoves ==
  ASSUME IInv, WorkInv, TypeOK', faults = 0, drawn' = drawn,
         NEW j \in Jobs, NEW at \in ApplyPlaces, At(at, j),
         \/ job' = job /\ \E a \in ApplyPlaces \ {"content"} : Go(a, j)
         \/ \E v \in Verdicts : Finish(j, v) /\ (v \in {"rejected", "lost"} => job[j].sig # None),
         \A i \in Ids : job[j].id = i \/ Shrinks(i),
         \A i \in Ids : Exists(disk'[i]) =>
           \/ KeepsWork(i) /\ (job[j].id # i \/ at \notin Committed \/ InPlace(j)')
           \/ \E k \in Jobs : Wrote(k, i, disk[i])' /\ InPlace(k)'
  PROVE  WorkInv'
<1>1. /\ owner.at = at /\ owner.job = j /\ job[j].at = "finishing" /\ None \notin Jobs
  BY AtFacts, ApplyAssumption DEF ApplyAssumption
<1>2. /\ job'[j].id = job[j].id /\ job'[j].cfg = job[j].cfg /\ job'[j].prev = job[j].prev
      /\ \A k \in Jobs : k # j => job'[k] = job[k] /\ owner'.job # k
      /\ ~Unwritten(j)'
  <2>1. ASSUME job' = job, NEW a \in ApplyPlaces \ {"content"}, Go(a, j)
        PROVE  /\ ~Unwritten(j)' /\ owner'.job = j
    BY <1>1, <2>1 DEF Go, Unwritten
  <2>2. ASSUME NEW v \in Verdicts, Finish(j, v), v \in {"rejected", "lost"} => job[j].sig # None
        PROVE  /\ job'[j].id = job[j].id /\ job'[j].cfg = job[j].cfg /\ job'[j].prev = job[j].prev
               /\ \A k \in Jobs : k # j => job'[k] = job[k]
               /\ ~Unwritten(j)' /\ owner'.job = None
    <3>1. /\ job'[j].at = "done" /\ job'[j].verdict = v /\ job'[j].sig = job[j].sig
          /\ job'[j].id = job[j].id /\ job'[j].cfg = job[j].cfg /\ job'[j].prev = job[j].prev
          /\ \A k \in Jobs : k # j => job'[k] = job[k]
      BY <2>2, EndedFacts DEF Finish, IInv
    <3>2. owner'.job = None /\ owner'.at = "idle"
      BY <2>2 DEF Finish, Idle
    <3> QED
      BY <2>2, <3>1, <3>2 DEF Unwritten
  <2> QED
    BY <1>1, <2>1, <2>2
<1>3. \A k \in Jobs : Advances(k)
  BY <1>1, <1>2 DEF Advances, Open
<1>4. \A k \in Jobs : Unwritten(k)' => Unwritten(k)
  BY <1>2 DEF Unwritten
<1>5. \A k \in Jobs : k # j /\ InPlace(k) => InPlace(k)'
  BY <1>1, <1>2 DEF InPlace, Accepted
<1>6. at \notin Committed => ~InPlace(j)
  BY <1>1 DEF InPlace, Accepted
<1> QED
  BY <1>2, <1>3, <1>4, <1>5, <1>6, WorkKeeps

LEMMA StoreWork ==
  ASSUME IInv, WorkInv, TypeOK', faults' = 0, NEW j \in Jobs,
         WriteContent(j) \/ WriteMetadata(j)
  PROVE  WorkInv'
<1> USE DEF IInv
<1>1. PICK i : i = job[j].id
  OBVIOUS
<1>2. CASE WriteContent(j)
  <2>1. /\ At("content", j) /\ "content" \in ApplyPlaces
        /\ "metadata" \in ApplyPlaces \ {"content"} /\ "content" \notin Committed
    BY <1>2 DEF WriteContent, ApplyPlaces, Committed
  <2>2. /\ content' = [content EXCEPT ![i][job[j].cfg.crev] = job[j].cfg.body]
        /\ Go("metadata", j) /\ job' = job /\ UNCHANGED bounds
        /\ disk' = disk /\ drawn' = drawn
    BY <1>1, <1>2, NoFault DEF WriteContent
  <2>3. \A k \in Ids : k # i => content'[k] = content[k]
    BY <2>2 DEF TypeOK
  <2>4. \A k \in Ids : (i = k \/ Shrinks(k)) /\ KeepsWork(k)
    BY <2>2, <2>3 DEF Shrinks, KeepsWork
  <2> QED
    BY <1>1, <2>1, <2>2, <2>4, NoFault, WorkMoves
<1>3. CASE WriteMetadata(j)
  <2>1. /\ At("metadata", j) /\ "metadata" \in ApplyPlaces
        /\ {"adopt", "activate"} \subseteq ApplyPlaces \ {"content"}
        /\ {"adopt", "activate"} \subseteq Committed
    BY <1>3 DEF WriteMetadata, ApplyPlaces, Committed
  <2>2. /\ disk' = [disk EXCEPT ![i] = job[j].cfg] /\ AfterCommit(j) /\ UNCHANGED bounds
        /\ content' = content /\ drawn' = drawn
    BY <1>1, <1>3, NoFault DEF WriteMetadata
  <2>3. /\ i \in Ids /\ disk'[i] = job[j].cfg
        /\ \A k \in Ids : k # i => disk'[k] = disk[k]
    BY <1>1, <2>1, <2>2, AtFacts DEF TypeOK
  <2>4. /\ \/ job' = job /\ \E a \in ApplyPlaces \ {"content"} : Go(a, j)
           \/ Finish(j, "succeeded")
        /\ InPlace(j)' /\ job'[j].id = i /\ job'[j].cfg = job[j].cfg
    <3>1. ASSUME NEW a \in {"adopt", "activate"}, Go(a, j), job' = job
          PROVE  InPlace(j)'
      BY <2>1, <3>1 DEF Go, InPlace
    <3>2. ASSUME Finish(j, "succeeded")
          PROVE  /\ InPlace(j)' /\ job'[j].id = i /\ job'[j].cfg = job[j].cfg
      BY <1>1, <3>2, EndedFacts DEF Finish, InPlace, Accepted, Verdicts
    <3> QED
      BY <1>1, <2>1, <2>2, <3>1, <3>2 DEF AfterCommit
  <2>5. Wrote(j, i, disk[i])'
    BY <2>3, <2>4 DEF Wrote
  <2>6. \A k \in Ids : Shrinks(k) /\ (k # i => KeepsWork(k))
    BY <2>2, <2>3 DEF Shrinks, KeepsWork
  <2>7. faults = 0 /\ "succeeded" \in Verdicts
    BY <2>2, NoFault DEF Verdicts
  <2>8. \A k \in Ids : Exists(disk'[k]) =>
           \/ KeepsWork(k) /\ i # k
           \/ \E l \in Jobs : Wrote(l, k, disk[k])' /\ InPlace(l)'
    BY <2>4, <2>5, <2>6
  <2>9. \/ job' = job /\ \E a \in ApplyPlaces \ {"content"} : Go(a, j)
        \/ \E v \in Verdicts : Finish(j, v) /\ (v \in {"rejected", "lost"} => job[j].sig # None)
    BY <2>4, <2>7
  <2> QED
    BY <1>1, <2>1, <2>2, <2>6, <2>7, <2>8, <2>9, WorkMoves
<1> QED
  BY <1>2, <1>3

\* The hand-off of the source, and what is taken back when it fails.
LEMMA HandOffWork ==
  ASSUME IInv, WorkInv, TypeOK', faults' = 0, NEW j \in Jobs,
         MarkAdopted(j) \/ UndoStore(j) \/ Rollback(j) \/ RemoveNew(j)
  PROVE  WorkInv'
<1> USE DEF IInv
<1>1. PICK i : i = job[j].id
  OBVIOUS
<1>2. CASE MarkAdopted(j) \/ Rollback(j)
  <2>1. PICK at \in {"adopt", "rollback"}, a \in {"activate", "undo", "restore", "remove"} :
          /\ At(at, j) /\ Go(a, j) /\ job' = job
          /\ disk' = disk /\ content' = content /\ drawn' = drawn /\ UNCHANGED bounds
    <3>1. CASE MarkAdopted(j)
      BY <3>1, NoFault DEF MarkAdopted, store
    <3>2. CASE Rollback(j)
      BY <3>2, NoFault DEF Rollback, store
    <3> QED
      BY <1>2, <3>1, <3>2
  <2>2. at \in ApplyPlaces /\ a \in ApplyPlaces \ {"content"} /\ a \in Committed
    BY <2>1 DEF ApplyPlaces, Committed
  <2>3. InPlace(j)'
    BY <2>1, <2>2 DEF InPlace, Go
  <2>4. \A k \in Ids : Shrinks(k) /\ KeepsWork(k)
    BY <2>1 DEF Shrinks, KeepsWork
  <2> QED
    BY <2>1, <2>2, <2>3, <2>4, NoFault, WorkMoves
<1>3. CASE UndoStore(j) \/ RemoveNew(j)
  <2>1. PICK at \in {"undo", "remove"} :
          /\ At(at, j) /\ RemoveMetadata(i) /\ content' = content /\ drawn' = drawn
          /\ \/ at = "undo" /\ Finish(j, "rejected")
             \/ at = "remove" /\ Go("settle", j) /\ job' = job
    BY <1>1, <1>3 DEF UndoStore, RemoveNew
  <2>2. at \in ApplyPlaces /\ "settle" \in ApplyPlaces \ {"content"} /\ "rejected" \in Verdicts
    BY DEF ApplyPlaces, Verdicts
  <2>3. i \in Ids /\ owner.at = at /\ owner.job = j
    BY <1>1, <2>1, <2>2, AtFacts
  <2>4. at = "undo" => job[j].sig # None
    BY <2>3 DEF OwnerInv
  <2>5. faults = 0 /\ \A k \in Ids : IF k = i THEN ~Exists(disk'[k]) ELSE disk'[k] = disk[k]
    BY <2>1, <2>3, RemovedWork
  <2>6. \A k \in Ids : Shrinks(k) /\ (Exists(disk'[k]) => KeepsWork(k) /\ i # k)
    BY <2>1, <2>5 DEF Shrinks, KeepsWork
  <2>7. \/ job' = job /\ \E a \in ApplyPlaces \ {"content"} : Go(a, j)
        \/ \E v \in Verdicts : Finish(j, v) /\ (v \in {"rejected", "lost"} => job[j].sig # None)
    BY <2>1, <2>2, <2>4
  <2> QED
    BY <1>1, <2>1, <2>2, <2>5, <2>6, <2>7, WorkMoves
<1> QED
  BY <1>2, <1>3

\* The owner reconciles for its request.
LEMMA ActivateWork ==
  ASSUME IInv, WorkInv, TypeOK', faults' = 0, NEW j \in Jobs,
         Activate(j) \/ Settle(j) \/ RestartPrevious(j)
  PROVE  WorkInv'
<1> USE DEF IInv
<1>1. PICK at \in {"activate", "settle", "restart"} :
        At(at, j) /\ content' = content /\ drawn' = drawn
        /\ \/ at = "activate" /\ ReconcileConfirming({job[j].id}) /\ Finish(j, "succeeded")
           \/ at = "activate" /\ ReconcileConfirming({}) /\ Go("rollback", j) /\ job' = job
           \/ /\ at # "activate" /\ ReconcileConfirming({})
              /\ Finish(j, "failed") \/ Finish(j, "rolled_back")
  BY DEF Activate, Settle, RestartPrevious, Reconcile
<1>2. /\ at \in ApplyPlaces /\ "rollback" \in ApplyPlaces \ {"content"}
      /\ {"succeeded", "failed", "rolled_back"} \subseteq Verdicts
      /\ "rollback" \in Committed
      /\ at # "activate" => at \notin Committed
  BY DEF ApplyPlaces, Verdicts, Committed
<1>3. job[j].id \in Ids /\ up
  BY <1>1, <1>2, AtFacts
<1>4. PICK confirmed \in SUBSET Ids : ReconcileConfirming(confirmed)
  <2>1. {job[j].id} \in SUBSET Ids /\ {} \in SUBSET Ids
    BY <1>3
  <2> QED
    BY <1>1, <2>1
<1>5. faults = 0
  BY <1>4, ReconcileFacts
<1>6. \A k \in Ids : Shrinks(k) /\ KeepsWork(k)
  BY <1>1, <1>3, <1>4, <1>5, ReconcileWork DEF Shrinks
<1>7. at \notin Committed \/ InPlace(j)'
  <2>1. Finish(j, "succeeded") => InPlace(j)'
    BY <1>2, EndedFacts DEF Finish, InPlace, Accepted
  <2>2. Go("rollback", j) => InPlace(j)'
    BY <1>2 DEF Go, InPlace
  <2> QED
    BY <1>1, <1>2, <2>1, <2>2
<1>8. \/ job' = job /\ \E a \in ApplyPlaces \ {"content"} : Go(a, j)
      \/ \E v \in Verdicts : Finish(j, v) /\ (v \in {"rejected", "lost"} => job[j].sig # None)
  BY <1>1, <1>2
<1> QED
  BY <1>1, <1>2, <1>5, <1>6, <1>7, <1>8, WorkMoves

\* What is restored is the work of a request accepted before.
LEMMA RestoreWork ==
  ASSUME IInv, WorkInv, TypeOK', faults' = 0, NEW j \in Jobs, RestorePrevious(j)
  PROVE  WorkInv'
<1> USE DEF IInv
<1>1. PICK i : i = job[j].id
  OBVIOUS
<1>2. /\ At("restore", j) /\ "restore" \in ApplyPlaces /\ "restart" \in ApplyPlaces \ {"content"}
  BY DEF RestorePrevious, ApplyPlaces
<1>3. /\ disk' = [disk EXCEPT ![i] = job[j].prev] /\ Go("restart", j) /\ job' = job
      /\ UNCHANGED bounds /\ content' = content /\ drawn' = drawn
  BY <1>1, NoFault DEF RestorePrevious
<1>4. /\ i \in Ids /\ disk'[i] = job[j].prev /\ owner.at = "restore" /\ owner.job = j
      /\ job[j].at = "finishing"
      /\ \A k \in Ids : k # i => disk'[k] = disk[k]
  BY <1>1, <1>2, <1>3, AtFacts DEF TypeOK
<1>5. faults = 0 /\ Exists(job[j].prev) /\ Open(j)
  BY <1>3, <1>4, NoFault DEF OwnerInv, Open
<1>6. PICK l \in Jobs : Wrote(l, i, job[j].prev) /\ Accepted(l)
  BY <1>1, <1>5 DEF WorkInv, AuthorInv
<1>7. Wrote(l, i, disk[i])' /\ InPlace(l)'
  BY <1>3, <1>4, <1>6 DEF Wrote, InPlace, Accepted
<1>8. \A k \in Ids : Shrinks(k) /\ (k # i => KeepsWork(k))
  BY <1>3, <1>4 DEF Shrinks, KeepsWork
<1>9. \A k \in Ids : Exists(disk'[k]) =>
        \/ KeepsWork(k) /\ i # k
        \/ \E m \in Jobs : Wrote(m, k, disk[k])' /\ InPlace(m)'
  BY <1>7, <1>8
<1> QED
  BY <1>1, <1>2, <1>3, <1>5, <1>8, <1>9, WorkMoves

LEMMA InitWork == Init => WorkInv
<1> SUFFICES ASSUME Init
             PROVE  AuthorInv /\ ContentInv
  BY DEF WorkInv
<1>1. /\ \A i \in Ids : disk[i] = NoConfig /\ \A r \in Revs : content[i][r] = None
      /\ \A j \in Jobs : job[j] = NewJob
  BY DEF Init
<1>2. ~Exists(NoConfig) /\ NewJob.at = "new" /\ NewJob.id = None
  BY NoConfigFacts, NewJobFacts
<1>3. \A j \in Jobs : ~Open(j) /\ ~Creates(j)
  BY <1>1, <1>2 DEF Open, Creates
<1> QED
  BY <1>1, <1>2, <1>3 DEF AuthorInv, ContentInv, NoContent

LEMMA NextWork == IInv /\ WorkInv /\ [Next]_vars => WorkInv'
<1> SUFFICES ASSUME IInv, WorkInv, [Next]_vars, faults' = 0
             PROVE  WorkInv'
  BY DEF WorkInv
<1>1. TypeOK'
  BY NextIInv DEF IInv
<1>2. ASSUME NEW j \in Jobs, Apply(j)
      PROVE  WorkInv'
  <2>1. CASE \E i \in Ids, b \in Bodies : PrepareCreate(j, i, b) \/ PrepareAdopt(j, i, b)
    BY <1>1, <2>1, PrepareWork
  <2>2. CASE \E i \in Ids, b \in Bodies, r \in Revs : PrepareUpdate(j, i, b, r)
    BY <1>1, <2>2, PrepareWork
  <2>3. CASE FinishLost(j) \/ \E ok \in BOOLEAN : DryRun(j, ok) \/ StartFinish(j, ok)
    BY <1>1, <2>3, CheckWork
  <2>4. CASE WriteContent(j) \/ WriteMetadata(j)
    BY <1>1, <2>4, StoreWork
  <2>5. CASE MarkAdopted(j) \/ UndoStore(j) \/ Rollback(j) \/ RemoveNew(j)
    BY <1>1, <2>5, HandOffWork
  <2>6. CASE Activate(j) \/ Settle(j) \/ RestartPrevious(j)
    BY <1>1, <2>6, ActivateWork
  <2>7. CASE RestorePrevious(j)
    BY <1>1, <2>7, RestoreWork
  <2> QED
    BY <1>2, <2>1, <2>2, <2>3, <2>4, <2>5, <2>6, <2>7 DEF Apply
<1>3. CASE LoopReconcile \/ SettleLifecycle \/ SettleDeletion
  BY <1>1, <1>3, ReconcileCommandWork
<1>4. CASE \/ \E i \in Ids, e \in BOOLEAN, r \in Revs : SetEnabled(i, e, r)
           \/ \E i \in Ids, r \in Revs : Delete(i, r)
           \/ DeleteMetadata \/ DeleteContent
  BY <1>1, <1>4, LifecycleWork
<1>5. CASE Crash
  BY <1>1, <1>5, CrashWork
<1>6. CASE \/ Restart \/ UNCHANGED vars
           \/ \E s \in Sources \cup {None} : EditSource(s)
           \/ \E i \in Ids, r \in Revs : Tamper(i, r)
  BY <1>1, <1>6, OutsideWork
<1> QED
  BY <1>2, <1>3, <1>4, <1>5, <1>6 DEF Next

LEMMA WorkInvariance == Spec => []WorkInv
<1>1. Init => WorkInv
  BY InitWork
<1>2. IInv /\ WorkInv /\ [Next]_vars => WorkInv'
  BY NextWork
<1> QED
  BY <1>1, <1>2, Invariance, PTL DEF Spec

-----------------------------------------------------------------------------
(* What it says about the store and about requests.                        *)

\* Wherever the manager stops, the metadata of a configuration names a content
\* file that is there and has the recorded digest, unless another program, a
\* failed write or a commit over an unseen revision touched it: content is
\* written before metadata (writeManagedConfiguration), under a revision the
\* previous metadata does not use.
THEOREM StoreIsIntact == Spec => []StoreIntact
<1>1. IInv => StoreIntact
  BY DEF IInv, StoreInv, StoreIntact
<1> QED
  BY <1>1, Invariance, PTL

\* If no write failed, what memory and the metadata files hold is the work of
\* requests that were not turned down, and a creation or adoption that was
\* rejected, lost or rolled back has left neither a configuration nor a mark on
\* its source, and no content file if it did not come as far as the commit
\* (finishManagedApply, rollbackManagedApply).
THEOREM RejectionsLeaveNothing == Spec => []RejectionLeavesNothing
<1>1. ASSUME IInv, WorkInv
      PROVE  RejectionLeavesNothing
  <2> SUFFICES ASSUME faults = 0, up
               PROVE  RejectionLeavesNothing
    BY DEF RejectionLeavesNothing
  <2>1. AuthorInv /\ ContentInv
    BY <1>1 DEF WorkInv
  <2>2. ASSUME NEW i \in Ids, NEW c \in {configs[i], disk[i]}, Exists(c)
        PROVE  \E j \in Jobs : Wrote(j, i, c) /\ Stands(j)
    <3>1. configs[i] \in Config /\ disk[i] \in Config /\ Same(configs[i], disk[i])
      BY <1>1 DEF IInv, TypeOK, AgreeInv
    <3>2. Exists(disk[i]) /\ disk[i].crev = c.crev /\ disk[i].body = c.body
      BY <2>2, <3>1, SameFields DEF Exists
    <3>3. PICK j \in Jobs : Wrote(j, i, disk[i]) /\ InPlace(j)
      BY <2>1, <3>2 DEF AuthorInv
    <3>4. Stands(j)
      BY <1>1, <3>3, InPlaceFacts DEF Accepted, Stands
    <3> QED
      BY <3>2, <3>3, <3>4 DEF Wrote
  <2>3. ASSUME NEW j \in Jobs, job[j].at = "done",
               job[j].verdict \in {"rejected", "lost", "failed"},
               job[j].id # None, ~Exists(job[j].prev)
        PROVE  /\ Nothing(job[j].id)
               /\ job[j].verdict # "failed" /\ job[j].sig = None => NoContent(job[j].id)
    <3>1. Creates(j) /\ Traceless(j)
      BY <2>3 DEF Creates, Traceless
    <3>2. Nothing(job[j].id)
      BY <1>1, <3>1 DEF IInv, TraceInv, TraceOK
    <3>3. ASSUME job[j].verdict # "failed", job[j].sig = None
          PROVE  NoContent(job[j].id)
      BY <2>1, <2>3, <3>1, <3>3 DEF ContentInv, Unwritten
    <3> QED
      BY <3>2, <3>3
  <2> QED
    BY <2>2, <2>3 DEF RejectionLeavesNothing, Nothing
<1> QED
  BY <1>1, Invariance, WorkInvariance, PTL

\* Without failed writes, however often the manager stops, and without stops,
\* whatever writes fail, an adopted source belongs to a configuration that
\* exists (markExternalConfigurationAdopted after the commit, released before
\* the removal).
THEOREM AdoptionIsBacked == Spec => []((faults = 0 \/ crashes = 0) => AdoptionBacked)
<1>1. IInv => ((faults = 0 \/ crashes = 0) => AdoptionBacked)
  BY DEF IInv, BackedInv
<1> QED
  BY <1>1, Invariance, PTL

-----------------------------------------------------------------------------
(* What a request reports when the owner ends it.                          *)

Honest(j) ==
  LET i == job[j].id IN
  /\ job'[j].verdict = "succeeded" =>
       /\ Same(disk'[i], job[j].cfg) /\ Same(configs'[i], job[j].cfg)
       /\ job[j].cfg.enabled => child'[i] = job[j].cfg.crev
  /\ job'[j].verdict = "rolled_back" =>
       /\ Same(disk'[i], job[j].prev) /\ Same(configs'[i], job[j].prev)
       /\ job[j].live => child'[i] = job[j].prev.crev

\* The other verdicts promise nothing.
LEMMA Modest ==
  ASSUME IInv, NEW j \in Jobs, NEW v \in {"stale", "rejected", "failed", "lost"},
         Finish(j, v)
  PROVE  Honest(j)
<1>1. job'[j].verdict = v
  BY EndedFacts DEF Finish, IInv, Verdicts
<1> QED
  BY <1>1 DEF Honest

\* A request the owner goes on with has not ended.
LEMMA GoesOn ==
  ASSUME NEW j \in Jobs, NEW at \in ApplyPlaces, Go(at, j)
  PROVE  owner' # Idle
BY DEF Go, Idle, ApplyPlaces

\* A reconciliation keeps what was committed, as far as it can be compared.
LEMMA ReconcileKeeps ==
  ASSUME IInv, NEW confirmed \in SUBSET Ids, ReconcileConfirming(confirmed),
         NEW i \in Ids, NEW c \in Config, configs[i] = c, disk[i] = c
  PROVE  /\ Same(configs'[i], c) /\ Same(disk'[i], c)
         /\ child'[i] \in {0, c.crev}
         /\ i \in confirmed => child'[i] # 0
<1>1. TypeOK
  BY DEF IInv
<1>2. /\ Same(configs'[i], configs[i])
      /\ disk'[i] = disk[i] \/ disk'[i] = configs'[i]
      /\ child'[i] = 0 \/ child'[i] = configs[i].crev
      /\ i \in confirmed => child'[i] # 0
  BY <1>1, ReconcileFacts
<1> QED
  BY <1>2, SameTrans

LEMMA CommitIsHonest ==
  ASSUME IInv, NEW j \in Jobs, WriteMetadata(j), owner' = Idle
  PROVE  Honest(j)
<1>1. PICK i : i = job[j].id
  OBVIOUS
<1>2. i \in Ids /\ job[j].cfg \in Config /\ TypeOK
  BY <1>1, AtFacts DEF WriteMetadata, ApplyPlaces, IInv
<1>3. CASE Finish(j, "rejected")
  BY <1>3, Modest
<1>4. CASE /\ disk' = [disk EXCEPT ![i] = job[j].cfg]
           /\ configs' = [configs EXCEPT ![i] = job[j].cfg]
           /\ AfterCommit(j)
  <2>1. Finish(j, "succeeded") /\ ~job[j].cfg.enabled
    BY <1>4, GoesOn DEF AfterCommit, ApplyPlaces
  <2>2. job'[j].verdict = "succeeded"
    BY <1>2, <2>1, EndedFacts DEF Finish, Verdicts
  <2>3. disk'[i] = job[j].cfg /\ configs'[i] = job[j].cfg
    BY <1>2, <1>4 DEF TypeOK
  <2>4. Same(disk'[i], job[j].cfg) /\ Same(configs'[i], job[j].cfg)
    BY <1>2, <2>3, SameTrans
  <2> QED
    BY <1>1, <2>1, <2>2, <2>4 DEF Honest
<1> QED
  BY <1>1, <1>3, <1>4 DEF WriteMetadata

LEMMA ActivationIsHonest ==
  ASSUME IInv, NEW j \in Jobs, Activate(j), owner' = Idle
  PROVE  Honest(j)
<1>1. PICK i : i = job[j].id
  OBVIOUS
<1>2. /\ i \in Ids /\ job[j].cfg \in Config /\ TypeOK
      /\ owner.at = "activate" /\ owner.job = j /\ owner.id = i
  BY <1>1, AtFacts DEF Activate, ApplyPlaces, IInv
<1>3. ReconcileConfirming({i}) /\ Finish(j, "succeeded")
  BY <1>1, GoesOn DEF Activate, ApplyPlaces
<1>4. configs[i] = job[j].cfg /\ disk[i] = job[j].cfg
  BY <1>2 DEF IInv, CommitInv
<1>5. {i} \in SUBSET Ids /\ i \in {i}
  BY <1>2
<1>6. /\ Same(disk'[i], job[j].cfg) /\ Same(configs'[i], job[j].cfg)
      /\ child'[i] = job[j].cfg.crev
  BY <1>2, <1>3, <1>4, <1>5, ReconcileKeeps
<1>7. job'[j].verdict = "succeeded"
  BY <1>2, <1>3, EndedFacts DEF Finish, Verdicts
<1> QED
  BY <1>1, <1>6, <1>7 DEF Honest

LEMMA RestartIsHonest ==
  ASSUME IInv, NEW j \in Jobs, RestartPrevious(j)
  PROVE  Honest(j)
<1>1. PICK i : i = job[j].id
  OBVIOUS
<1>2. /\ i \in Ids /\ job[j].prev \in Config /\ TypeOK
      /\ owner.at = "restart" /\ owner.job = j /\ owner.id = i
  BY <1>1, AtFacts DEF RestartPrevious, ApplyPlaces, IInv
<1>3. configs[i] = job[j].prev /\ disk[i] = job[j].prev
  BY <1>2 DEF IInv, CommitInv
<1>4. {} \in SUBSET Ids /\ ReconcileConfirming({})
  BY DEF RestartPrevious, Reconcile
<1>5. Same(disk'[i], job[j].prev) /\ Same(configs'[i], job[j].prev)
  BY <1>2, <1>3, <1>4, ReconcileKeeps
<1>6. CASE ~job[j].live \/ child'[i] = job[j].prev.crev
  <2>1. Finish(j, "rolled_back")
    BY <1>1, <1>6 DEF RestartPrevious
  <2>2. job'[j].verdict = "rolled_back"
    BY <1>2, <2>1, EndedFacts DEF Finish, Verdicts
  <2> QED
    BY <1>1, <1>5, <1>6, <2>2 DEF Honest
<1>7. CASE ~(~job[j].live \/ child'[i] = job[j].prev.crev)
  <2>1. Finish(j, "failed")
    BY <1>1, <1>7 DEF RestartPrevious
  <2> QED
    BY <2>1, Modest
<1> QED
  BY <1>6, <1>7

\* The owner ends a request only in its own steps.
LEMMA OwnStep ==
  ASSUME IInv, Next, NEW j \in Jobs, owner.job = j, owner' = Idle, up'
  PROVE  \/ WriteContent(j) \/ WriteMetadata(j) \/ MarkAdopted(j) \/ UndoStore(j)
         \/ Activate(j) \/ Rollback(j) \/ RemoveNew(j) \/ Settle(j)
         \/ RestorePrevious(j) \/ RestartPrevious(j)
<1>1. None \notin Jobs /\ Idle.job = None /\ Idle.at = "idle"
  BY ApplyAssumption DEF ApplyAssumption, Idle
<1>2. owner # Idle /\ owner' # owner /\ owner.at # "idle" /\ owner.at \notin OtherPlaces
  BY <1>1 DEF IInv, OwnerInv
<1>3. up
  BY <1>2 DEF IInv, OwnerInv
<1>4. ~OwnerIdle
  BY <1>2 DEF OwnerIdle
<1>5. ~LoopReconcile /\ ~SettleLifecycle /\ ~DeleteMetadata /\ ~SettleDeletion /\ ~DeleteContent
  BY <1>2, <1>4 DEF LoopReconcile, SettleLifecycle, DeleteMetadata, SettleDeletion, DeleteContent,
                      OtherPlaces
<1>6. ~Crash /\ ~Restart
  BY <1>2, <1>3 DEF Crash, Restart
<1>7. \A i \in Ids, r \in Revs : ~Delete(i, r) /\ ~Tamper(i, r)
                                 /\ \A e \in BOOLEAN : ~SetEnabled(i, e, r)
  BY <1>2, <1>4 DEF Delete, Tamper, SetEnabled
<1>8. \A s \in Sources \cup {None} : ~EditSource(s)
  BY <1>2 DEF EditSource
<1>9. PICK k \in Jobs : Apply(k)
  BY <1>5, <1>6, <1>7, <1>8 DEF Next
<1>10. \A i \in Ids, b \in Bodies :
         ~PrepareCreate(k, i, b) /\ ~PrepareAdopt(k, i, b)
         /\ \A r \in Revs : ~PrepareUpdate(k, i, b, r)
  BY <1>4 DEF PrepareCreate, PrepareAdopt, PrepareUpdate
<1>11. ~FinishLost(k) /\ \A ok \in BOOLEAN : ~DryRun(k, ok) /\ ~StartFinish(k, ok)
  BY <1>2, <1>4 DEF FinishLost, DryRun, StartFinish
<1>12. \/ WriteContent(k) \/ WriteMetadata(k) \/ MarkAdopted(k) \/ UndoStore(k)
       \/ Activate(k) \/ Rollback(k) \/ RemoveNew(k) \/ Settle(k)
       \/ RestorePrevious(k) \/ RestartPrevious(k)
  BY <1>9, <1>10, <1>11 DEF Apply
<1>13. k = j
  BY <1>12 DEF WriteContent, WriteMetadata, MarkAdopted, UndoStore, Activate, Rollback,
               RemoveNew, Settle, RestorePrevious, RestartPrevious, At
<1> QED
  BY <1>12, <1>13

LEMMA StepIsHonest ==
  ASSUME IInv, [Next]_vars, NEW j \in Jobs, owner.job = j, owner' = Idle, up'
  PROVE  Honest(j)
<1>1. CASE UNCHANGED vars
  <2>1. owner' = owner /\ None \notin Jobs
    BY <1>1, ApplyAssumption DEF vars, ApplyAssumption
  <2> QED
    BY <2>1 DEF Idle
<1>2. ASSUME Next
      PROVE  Honest(j)
  <2>1. \/ WriteContent(j) \/ WriteMetadata(j) \/ MarkAdopted(j) \/ UndoStore(j)
        \/ Activate(j) \/ Rollback(j) \/ RemoveNew(j) \/ Settle(j)
        \/ RestorePrevious(j) \/ RestartPrevious(j)
    BY <1>2, OwnStep
  <2>2. CASE WriteContent(j)
    <3>1. Go("metadata", j) \/ Finish(j, "rejected")
      BY <2>2 DEF WriteContent
    <3> QED
      BY <3>1, GoesOn, Modest DEF ApplyPlaces
  <2>3. CASE WriteMetadata(j)
    BY <2>3, CommitIsHonest
  <2>4. CASE MarkAdopted(j)
    <3>1. Go("activate", j) \/ Go("undo", j)
      BY <2>4 DEF MarkAdopted
    <3> QED
      BY <3>1, GoesOn DEF ApplyPlaces
  <2>5. CASE UndoStore(j)
    BY <2>5, Modest DEF UndoStore
  <2>6. CASE Activate(j)
    BY <2>6, ActivationIsHonest
  <2>7. CASE Rollback(j)
    <3>1. Go("restore", j) \/ Go("remove", j) \/ Finish(j, "failed")
      BY <2>7 DEF Rollback
    <3> QED
      BY <3>1, GoesOn, Modest DEF ApplyPlaces
  <2>8. CASE RemoveNew(j)
    <3>1. Go("settle", j)
      BY <2>8 DEF RemoveNew
    <3> QED
      BY <3>1, GoesOn DEF ApplyPlaces
  <2>9. CASE Settle(j)
    BY <2>9, Modest DEF Settle
  <2>10. CASE RestorePrevious(j)
    <3>1. Go("restart", j) \/ Finish(j, "failed")
      BY <2>10 DEF RestorePrevious
    <3> QED
      BY <3>1, GoesOn, Modest DEF ApplyPlaces
  <2>11. CASE RestartPrevious(j)
    BY <2>11, RestartIsHonest
  <2> QED
    BY <2>1, <2>2, <2>3, <2>4, <2>5, <2>6, <2>7, <2>8, <2>9, <2>10, <2>11
<1> QED
  BY <1>1, <1>2

\* When the owner ends a request, "succeeded" means that memory and disk hold
\* the new configuration and that its child runs if it is enabled, "rolled
\* back" that they hold the previous one, whose child runs if it ran before
\* (finishManagedApply, rollbackManagedApply), whatever failed and whatever ran
\* while the request was dry-run.
THEOREM VerdictsAreHonest == Spec => VerdictHonest
<1>1. IInv /\ [Next]_vars =>
        [\A j \in Jobs :
           LET i == job[j].id IN
           owner.job = j /\ owner' = Idle /\ up' =>
             /\ job'[j].verdict = "succeeded" =>
                  /\ Same(disk'[i], job[j].cfg) /\ Same(configs'[i], job[j].cfg)
                  /\ job[j].cfg.enabled => child'[i] = job[j].cfg.crev
             /\ job'[j].verdict = "rolled_back" =>
                  /\ Same(disk'[i], job[j].prev) /\ Same(configs'[i], job[j].prev)
                  /\ job[j].live => child'[i] = job[j].prev.crev]_vars
  BY StepIsHonest DEF Honest
<1> QED
  BY <1>1, Invariance, PTL DEF Spec, VerdictHonest
===============================================================================
