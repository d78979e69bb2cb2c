------------------------------ MODULE Migrations ------------------------------
(***************************************************************************)
(* migrations::run, started by several deployments at once, and the probe  *)
(* of /ready.                                                              *)
(*                                                                         *)
(* A run is one transaction under an advisory lock: it creates the         *)
(* tracking table, gives a database of the old tooling its baseline, and   *)
(* executes what is not recorded, in order.  What it does is invisible     *)
(* until it commits and undone when it fails or its process dies.          *)
(* Deployments may run binaries with different bundles.  The probe takes   *)
(* no lock and reads twice.                                                *)
(*                                                                         *)
(* A version is its position in MIGRATIONS; the objects a migration        *)
(* creates are named after it.                                             *)
(*                                                                         *)
(* Init, Next, TypeOK and vars carry the module's name: RouterProofs       *)
(* extends this module and Webhook.                                        *)
(***************************************************************************)
EXTENDS Naturals, FiniteSets, Sequences

CONSTANTS
  Deploys,      \* invocations of xtask migrate
  Probes,       \* invocations of /ready
  Bundles,      \* lengths of MIGRATIONS in the binaries around
  Nobody,       \* holder of a free lock
  LegacyCount,  \* length of LEGACY_BASELINE
  MaxRuns       \* bound of the model: runs that are started

\* Every binary bundles the whole frozen baseline and something newer, and one
\* bundle is the newest.
ASSUME MigrationsAssumption ==
  /\ Nobody \notin Deploys
  /\ LegacyCount \in Nat \ {0, 1}
  /\ Bundles \subseteq {n \in Nat : n > LegacyCount}
  /\ \E n \in Bundles : \A k \in Bundles : k <= n
  /\ MaxRuns \in Nat

VARIABLES
  db,         \* committed: tracking table there, versions recorded, objects
  lock,       \* holder of the advisory lock
  run,        \* what each deployment is doing, with its view of db
  probe,      \* what each probe is doing
  started,    \* number of runs started
  executed    \* history: versions in the order they were executed for good

migrationsVars == <<db, lock, run, probe, started, executed>>

-----------------------------------------------------------------------------
Newest == CHOOSE n \in Bundles : \A k \in Bundles : k <= n
Versions == 0..(Newest - 1)
Users == 0                     \* the migration that creates table users
Outbound == LegacyCount - 1    \* the one that creates outbound_messages

Database == [tracked: BOOLEAN, applied: SUBSET Versions, objects: SUBSET Versions]

\* Databases a first run may meet: an empty one, and the two LEGACY_BASELINE
\* provides for, with and without its last object.  A shorter prefix is not among
\* them: the code takes it that the older legacy objects exist.
Empty == [tracked |-> FALSE, applied |-> {}, objects |-> {}]
Legacy(n) == [tracked |-> FALSE, applied |-> {}, objects |-> 0..(n - 1)]

\* pc: where in run(); bundle: of its binary; next: version the loop is at; view:
\* db as the transaction sees it; did: what it executed.
Run == [pc: {"idle", "begun", "locked", "tracked", "loop"}, bundle: Bundles,
        next: 0..Newest, view: Database, did: Seq(Versions)]

NoRun == [pc |-> "idle", bundle |-> Newest, next |-> 0, view |-> Empty, did |-> <<>>]

\* seen: the tracking table was there; answer: the one given last.
Probe == [pc: {"idle", "asked"}, seen: BOOLEAN, bundle: Bundles,
          answer: {"none", "ok", "pending"}]

MigrationsTypeOK ==
  /\ db \in Database
  /\ lock \in Deploys \cup {Nobody}
  /\ run \in [Deploys -> Run]
  /\ probe \in [Probes -> Probe]
  /\ started \in 0..MaxRuns
  /\ executed \in Seq(Versions)

MigrationsInit ==
  /\ db \in {Empty, Legacy(LegacyCount - 1), Legacy(LegacyCount)}
  /\ lock = Nobody
  /\ run = [d \in Deploys |-> NoRun]
  /\ probe \in [Probes -> {[pc |-> "idle", seen |-> FALSE, bundle |-> n, answer |-> "none"] :
                             n \in Bundles}]
  /\ started = 0
  /\ executed = <<>>

-----------------------------------------------------------------------------
(***************************************************************************)
(* run.                                                                    *)
(***************************************************************************)

\* pool.begin
Begin(d, bundle) ==
  /\ run[d].pc = "idle" /\ started < MaxRuns
  /\ started' = started + 1
  /\ run' = [run EXCEPT ![d] = [NoRun EXCEPT !.pc = "begun", !.bundle = bundle]]
  /\ UNCHANGED <<db, lock, probe, executed>>

\* Mutant: pg_advisory_lock forgotten.
Lock_Free(d) ==
  /\ run[d].pc = "begun"
  /\ run' = [run EXCEPT ![d].pc = "locked", ![d].view = db]
  /\ UNCHANGED <<db, lock, probe, started, executed>>

\* pg_advisory_xact_lock.  Every later statement sees what was committed by then,
\* and nobody else commits while the lock is held.
Lock(d) ==
  /\ run[d].pc = "begun" /\ lock = Nobody
  /\ lock' = d
  /\ run' = [run EXCEPT ![d].pc = "locked", ![d].view = db]
  /\ UNCHANGED <<db, probe, started, executed>>

\* ensure_tracking_table
EnsureTrackingTable(d) ==
  /\ run[d].pc = "locked"
  /\ run' = [run EXCEPT ![d].pc = "tracked", ![d].view.tracked = TRUE]
  /\ UNCHANGED <<db, lock, probe, started, executed>>

\* Mutant: every legacy version is recorded.
BaselineOf_Whole(view) ==
  IF view.applied # {} \/ Users \notin view.objects THEN {} ELSE 0..(LegacyCount - 1)

\* What baseline_existing_schema records: the legacy versions of a database that
\* has users and no record, the last of them only with its table.
BaselineOf(view) ==
  IF view.applied # {} \/ Users \notin view.objects THEN {}
  ELSE {v \in 0..(LegacyCount - 1) : v = Outbound => Outbound \in view.objects}

BaselineExistingSchema(d) ==
  /\ run[d].pc = "tracked"
  /\ run' = [run EXCEPT ![d].pc = "loop",
                        ![d].view.applied = @ \cup BaselineOf(run[d].view)]
  /\ UNCHANGED <<db, lock, probe, started, executed>>

\* migration_applied: nothing to do for this version.
SkipApplied(d) ==
  /\ run[d].pc = "loop" /\ run[d].next < run[d].bundle
  /\ run[d].next \in run[d].view.applied
  /\ run' = [run EXCEPT ![d].next = @ + 1]
  /\ UNCHANGED <<db, lock, probe, started, executed>>

\* The SQL of the version, then mark_applied.
Apply(d) ==
  LET v == run[d].next IN
  /\ run[d].pc = "loop" /\ v < run[d].bundle
  /\ v \notin run[d].view.applied
  /\ run' = [run EXCEPT ![d].next = v + 1,
                        ![d].view.objects = @ \cup {v},
                        ![d].view.applied = @ \cup {v},
                        ![d].did = Append(@, v)]
  /\ UNCHANGED <<db, lock, probe, started, executed>>

\* tx.commit, which releases the lock.
Commit(d) ==
  /\ run[d].pc = "loop" /\ run[d].next = run[d].bundle
  /\ db' = run[d].view
  /\ executed' = executed \o run[d].did
  /\ lock' = IF lock = d THEN Nobody ELSE lock
  /\ run' = [run EXCEPT ![d] = NoRun]
  /\ UNCHANGED <<probe, started>>

\* An error of any statement, or the end of the process: the transaction is
\* rolled back and the lock released.
Fail(d) ==
  /\ run[d].pc # "idle"
  /\ lock' = IF lock = d THEN Nobody ELSE lock
  /\ run' = [run EXCEPT ![d] = NoRun]
  /\ UNCHANGED <<db, probe, started, executed>>

-----------------------------------------------------------------------------
(***************************************************************************)
(* applied_count_if_tracked, and what ready makes of it.                   *)
(***************************************************************************)
AskTracked(p) ==
  /\ probe[p].pc = "idle"
  /\ probe' = [probe EXCEPT ![p].pc = "asked", ![p].seen = db.tracked]
  /\ UNCHANGED <<db, lock, run, started, executed>>

\* Mutant: the table is enough.
IsReady_Tracked(seen, bundle) == seen

\* A missing table is pending; else the count of recorded versions decides.
IsReady(seen, bundle) == seen /\ Cardinality(db.applied) >= bundle

CountApplied(p) ==
  /\ probe[p].pc = "asked"
  /\ probe' = [probe EXCEPT ![p].pc = "idle",
       ![p].answer = IF IsReady(probe[p].seen, probe[p].bundle) THEN "ok" ELSE "pending"]
  /\ UNCHANGED <<db, lock, run, started, executed>>

MigrationsNext ==
  \/ \E d \in Deploys :
       \/ \E n \in Bundles : Begin(d, n)
       \/ Lock(d) \/ EnsureTrackingTable(d) \/ BaselineExistingSchema(d)
       \/ SkipApplied(d) \/ Apply(d) \/ Commit(d) \/ Fail(d)
  \/ \E p \in Probes : AskTracked(p) \/ CountApplied(p)

MigrationsSpec == MigrationsInit /\ [][MigrationsNext]_migrationsVars

-----------------------------------------------------------------------------
(***************************************************************************)
(* Properties.                                                             *)
(***************************************************************************)

\* Whatever runs meet, fail or have older bundles, no migration is executed twice
\* or before an earlier one.
ExecutedOnceInOrder ==
  \A i, j \in DOMAIN executed : i < j => executed[i] < executed[j]

\* What the tracking table records is what the schema has: no version is recorded
\* that was never created, by a baseline or by a binary with a shorter bundle.
RecordedIsCreated == db.tracked => db.applied = db.objects

\* A binary that answers ready finds every object its queries need, now and from
\* then on, whichever binary migrated the database.
ReadyHasSchema ==
  \A p \in Probes :
    probe[p].answer = "ok" => 0..(probe[p].bundle - 1) \subseteq db.objects
=============================================================================
