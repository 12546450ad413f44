------------------------------- MODULE Fleet -------------------------------
(***************************************************************************)
(* The start of the instances of a fleet: main of cmd/fsserver/main.go up  *)
(* to "started successfully", with the migrations                          *)
(* (internal/database/migration.go), the bucket of the object storage, the *)
(* temp directories, and the registration with service discovery           *)
(* (internal/discovery/discovery.go).                                      *)
(*                                                                         *)
(* Instances share the database, the object storage and etcd; those of one *)
(* host share os.TempDir().  What goes wrong ends the process              *)
(* (os.Exit(1)), and its supervisor starts it again; only the errors of    *)
(* the calls on the temp directories are logged or ignored.                *)
(***************************************************************************)
EXTENDS Naturals

CONSTANTS
  AllInstances, Hosts,
  Versions,    \* the versions of the registered migrations
  Statements,  \* the number of SQL statements of each
  Interval,    \* Discovery.Interval, in ticks
  MaxDelay,    \* how late a keepalive may be
  MaxFaults,   \* bound: crashes and failed calls
  Settings

VARIABLES
  setting,   \* never changes
  pc,        \* per instance: the step of main it is at
  todo,      \* ... the pending migrations it has read
  stmt,      \* ... the statements of the current one it has executed
  list,      \* ... the temp directories it has yet to remove
  run,       \* ... the number of temp directories it has created
  applied,   \* database: executed statements <<version, number>>
  recorded,  \* database: the rows of schema_migrations
  bucket,    \* the bucket exists
  dirs,      \* temp directories <<instance, run>>
  lease,     \* etcd: what is left of the lease of the instance's key; 0 without a key
  beat,      \* time since the last keepalive of the instance
  faults,    \* the crashes and failed calls so far
  warned     \* history: instances for which a call on temp directories failed since their start

vars == <<setting, pc, todo, stmt, list, run, applied, recorded, bucket, dirs, lease, beat, faults, warned>>
database == <<applied, recorded>>
discovery == <<lease, beat>>
locals == <<todo, stmt, list>>
failures == <<faults, warned>>

Instances == setting.instances
HostOf(i) == setting.host[i]
MinIO == setting.minio          \* cfg.Storage.Type = "minio"
Discovery == setting.discovery  \* cfg.Discovery.Enabled

Setting == [instances : SUBSET AllInstances, host : [AllInstances -> Hosts],
            minio : BOOLEAN, discovery : BOOLEAN]

ASSUME FleetConstants ==
  /\ Settings \subseteq Setting
  /\ Versions \subseteq Nat /\ Statements \in [Versions -> Nat \ {0}]
  /\ Interval \in Nat \ {0} /\ MaxDelay \in Nat /\ MaxDelay < 2 * Interval
  /\ MaxFaults \in Nat

(* Register: lease of three intervals, which the client renews every interval *)
LeaseShort == Interval
LeaseTTL == 3 * Interval

StatementsOf(v) == {v} \X (1 .. Statements[v])

Init ==
  /\ setting \in Settings
  /\ pc = [i \in Instances |-> "down"]
  /\ todo = [i \in Instances |-> {}] /\ stmt = [i \in Instances |-> 0]
  /\ list = [i \in Instances |-> {}] /\ run = [i \in Instances |-> 0]
  /\ applied = {} /\ recorded = {}
  /\ bucket = FALSE /\ dirs = {}
  /\ lease = [i \in Instances |-> 0] /\ beat = [i \in Instances |-> 0]
  /\ faults = 0 /\ warned = {}

-----------------------------------------------------------------------------
Goto(i, label) == pc' = [pc EXCEPT ![i] = label] /\ UNCHANGED setting

(* The process ends.  Its temp directory stays, and its key until the     *)
(* lease is over: main does not call Deregister.                          *)
Exit(i) ==
  /\ Goto(i, "down")
  /\ todo' = [todo EXCEPT ![i] = {}] /\ stmt' = [stmt EXCEPT ![i] = 0]
  /\ list' = [list EXCEPT ![i] = {}] /\ beat' = [beat EXCEPT ![i] = 0]

(* A crash, a signal, or an error of a call to the database, the storage,  *)
(* Redis or etcd.                                                          *)
Crash(i) ==
  /\ pc[i] # "down" /\ faults < MaxFaults /\ faults' = faults + 1
  /\ Exit(i)
  /\ UNCHANGED <<run, database, bucket, dirs, lease, warned>>

(* main, Connect and Initialize *)
Start(i) ==
  /\ pc[i] = "down" /\ Goto(i, "pending") /\ warned' = warned \ {i}
  /\ UNCHANGED <<locals, run, database, bucket, dirs, discovery, faults>>

(* getPendingMigrations *)
GetPending(i) ==
  /\ pc[i] = "pending" /\ todo' = [todo EXCEPT ![i] = Versions \ recorded]
  /\ Goto(i, IF Versions \subseteq recorded THEN "storage" ELSE "up")
  /\ UNCHANGED <<stmt, list, run, database, bucket, dirs, discovery, failures>>

Current(i, v) == v \in todo[i] /\ \A w \in todo[i] : v <= w

(* Mutants: CREATE without IF NOT EXISTS; the first statement is enough. *)
UpStrict(i, v) ==
  /\ pc[i] = "up" /\ Current(i, v)
  /\ IF <<v, stmt[i] + 1>> \in applied
       THEN Exit(i) /\ UNCHANGED applied
       ELSE /\ applied' = applied \cup {<<v, stmt[i] + 1>>}
            /\ stmt' = [stmt EXCEPT ![i] = @ + 1]
            /\ Goto(i, IF stmt[i] + 1 = Statements[v] THEN "record" ELSE "up")
            /\ UNCHANGED <<todo, list, beat>>
  /\ UNCHANGED <<run, recorded, bucket, dirs, lease, failures>>
UpFirst(i, v) ==
  /\ pc[i] = "up" /\ Current(i, v)
  /\ applied' = applied \cup {<<v, stmt[i] + 1>>}
  /\ Goto(i, "record") /\ UNCHANGED <<locals, run, recorded, bucket, dirs, discovery, failures>>

(* Up: one statement, which does nothing when it was executed before *)
Up(i, v) ==
  /\ pc[i] = "up" /\ Current(i, v)
  /\ applied' = applied \cup {<<v, stmt[i] + 1>>}
  /\ stmt' = [stmt EXCEPT ![i] = @ + 1]
  /\ Goto(i, IF stmt[i] + 1 = Statements[v] THEN "record" ELSE "up")
  /\ UNCHANGED <<todo, list, run, recorded, bucket, dirs, discovery, failures>>

(* recordMigration: the INSERT of a version that another instance has     *)
(* recorded meanwhile meets the PRIMARY KEY, and the process exits.       *)
Record(i, v) ==
  /\ pc[i] = "record" /\ Current(i, v)
  /\ \/ /\ v \notin recorded /\ recorded' = recorded \cup {v}
        /\ todo' = [todo EXCEPT ![i] = @ \ {v}] /\ stmt' = [stmt EXCEPT ![i] = 0]
        /\ Goto(i, IF todo[i] = {v} THEN "storage" ELSE "up")
        /\ UNCHANGED <<list, beat>>
     \/ v \in recorded /\ Exit(i) /\ UNCHANGED recorded
  /\ UNCHANGED <<run, applied, bucket, dirs, lease, failures>>

(* NewMinIOStorage: BucketExists ... *)
CheckBucket(i) ==
  /\ pc[i] = "storage" /\ Goto(i, IF MinIO /\ ~bucket THEN "bucket" ELSE "temp")
  /\ UNCHANGED <<locals, run, database, bucket, dirs, discovery, failures>>

(* ... and MakeBucket, which fails when the bucket is there by now *)
MakeBucket(i) ==
  /\ pc[i] = "bucket"
  /\ \/ ~bucket /\ bucket' = TRUE /\ Goto(i, "temp") /\ UNCHANGED <<locals, beat>>
     \/ bucket /\ Exit(i) /\ UNCHANGED bucket
  /\ UNCHANGED <<run, database, dirs, lease, failures>>

(* Mutant: the names do not have the prefix that is looked for. *)
ReadTempDirMissing(i) ==
  /\ pc[i] = "temp" /\ Goto(i, "sweep")
  /\ UNCHANGED <<locals, run, database, bucket, dirs, discovery, failures>>

(* A call on temp directories fails, and main goes on. *)
Warn(i) == faults < MaxFaults /\ faults' = faults + 1 /\ warned' = warned \cup {i}

(* os.ReadDir of the temp directory of the host; an error leaves the names *)
(* that were read until then.                                              *)
ReadTempDir(i) ==
  LET here == {d \in dirs : HostOf(d[1]) = HostOf(i)} IN
  /\ pc[i] = "temp" /\ Goto(i, "sweep")
  /\ \/ list' = [list EXCEPT ![i] = here] /\ UNCHANGED failures
     \/ Warn(i) /\ \E read \in SUBSET here : list' = [list EXCEPT ![i] = read]
  /\ UNCHANGED <<todo, stmt, run, database, bucket, dirs, discovery>>

(* os.RemoveAll of one of the directories; then Redis and etcd *)
Sweep(i) ==
  /\ pc[i] = "sweep"
  /\ \/ \E d \in list[i] :
          /\ \/ dirs' = dirs \ {d} /\ UNCHANGED failures
             \/ Warn(i) /\ UNCHANGED dirs
          /\ list' = [list EXCEPT ![i] = @ \ {d}] /\ UNCHANGED <<setting, pc>>
     \/ /\ list[i] = {} /\ Goto(i, IF Discovery THEN "register" ELSE "services")
        /\ UNCHANGED <<dirs, list, failures>>
  /\ UNCHANGED <<todo, stmt, run, database, bucket, discovery>>

(* Register: Put moves the key of the instance to a new lease, whatever   *)
(* its earlier run left there.                                             *)
Register(i) ==
  /\ pc[i] = "register" /\ Goto(i, "services")
  /\ lease' = [lease EXCEPT ![i] = LeaseTTL] /\ beat' = [beat EXCEPT ![i] = 0]
  /\ UNCHANGED <<locals, run, database, bucket, dirs, failures>>

(* NewFileTransferServiceWithRedis creates the temp directory of this run, *)
(* or logs that it could not, and the servers are started.                 *)
CreateServices(i) ==
  /\ pc[i] = "services" /\ Goto(i, "serving") /\ run' = [run EXCEPT ![i] = @ + 1]
  /\ \/ dirs' = dirs \cup {<<i, run[i] + 1>>} /\ UNCHANGED failures
     \/ Warn(i) /\ UNCHANGED dirs
  /\ UNCHANGED <<locals, database, bucket, discovery>>

-----------------------------------------------------------------------------
Registered(i) == Discovery /\ pc[i] \in {"services", "serving"}

(* KeepAlive: the client renews the lease every third of its time. *)
KeepAlive(i) ==
  /\ Registered(i) /\ beat[i] >= Interval /\ lease[i] > 0
  /\ lease' = [lease EXCEPT ![i] = LeaseTTL] /\ beat' = [beat EXCEPT ![i] = 0]
  /\ UNCHANGED <<setting, pc, locals, run, database, bucket, dirs, failures>>

(* Time passes; a keepalive is at most MaxDelay late. *)
Tick ==
  /\ \E i \in Instances : lease[i] > 0
  /\ \A i \in Instances : Registered(i) => beat[i] < Interval + MaxDelay
  /\ lease' = [i \in Instances |-> IF lease[i] > 0 THEN lease[i] - 1 ELSE 0]
  /\ beat' = [i \in Instances |-> IF Registered(i) THEN beat[i] + 1 ELSE 0]
  /\ UNCHANGED <<setting, pc, locals, run, database, bucket, dirs, failures>>

Step(i) ==
  \/ Start(i) \/ GetPending(i) \/ \E v \in Versions : Up(i, v) \/ Record(i, v)
  \/ CheckBucket(i) \/ MakeBucket(i) \/ ReadTempDir(i) \/ Sweep(i)
  \/ Register(i) \/ CreateServices(i)

Next ==
  \/ \E i \in Instances : Step(i) \/ Crash(i) \/ KeepAlive(i)
  \/ Tick

Spec == Init /\ [][Next]_vars

(* Processes run, and a supervisor starts the ones that have ended. *)
FairSpec == Spec /\ \A i \in AllInstances : WF_vars(i \in Instances /\ Step(i))

-----------------------------------------------------------------------------
Label == {"down", "pending", "up", "record", "storage", "bucket", "temp", "sweep", "register",
          "services", "serving"}
Migrated == {"storage", "bucket", "temp", "sweep", "register", "services", "serving"}

(* The type of the state *)
TypeOK ==
  /\ setting \in Settings
  /\ pc \in [Instances -> Label]
  /\ todo \in [Instances -> SUBSET Versions] /\ stmt \in [Instances -> Nat]
  /\ list \in [Instances -> SUBSET (Instances \X Nat)] /\ run \in [Instances -> Nat]
  /\ applied \subseteq Versions \X Nat /\ recorded \subseteq Versions
  /\ bucket \in BOOLEAN /\ dirs \subseteq Instances \X Nat
  /\ lease \in [Instances -> Nat] /\ beat \in [Instances -> Nat]
  /\ faults \in Nat /\ warned \subseteq Instances

(***************************************************************************)
(* RunMigrations, without a lock or a transaction: a version is recorded   *)
(* only when all of its statements have been executed, and an instance     *)
(* goes on from the migrations only when every version is, however         *)
(* instances that start together and crash interleave.                     *)
(***************************************************************************)
SchemaComplete ==
  /\ \A v \in recorded : StatementsOf(v) \subseteq applied
  /\ \A i \in Instances : pc[i] \in Migrated => recorded = Versions

Alone(i) == \A j \in Instances : HostOf(j) = HostOf(i) => j = i

(***************************************************************************)
(* "Clean up orphaned temp directories from previous runs" (main.go:181):  *)
(* an instance that serves has its own temp directory, and the directories *)
(* of its earlier runs are gone, however these ended and whatever their    *)
(* own sweeps left behind, when it is the only one of its host and no call *)
(* on temp directories failed in this start.                               *)
(***************************************************************************)
OwnTempOnly ==
  \A i \in Instances : pc[i] = "serving" /\ Alone(i) /\ i \notin warned =>
    {d \in dirs : HostOf(d[1]) = HostOf(i)} = {<<i, run[i]>>}

(***************************************************************************)
(* An instance that serves can be found in etcd, also when it has been     *)
(* started again before the lease of its earlier run was over, as long as  *)
(* no keepalive is later than two intervals.                               *)
(***************************************************************************)
ServingFound == Discovery => \A i \in Instances : pc[i] = "serving" => lease[i] > 0

(***************************************************************************)
(* Every instance serves in the end, although an instance that meets       *)
(* another one in the migrations or in MakeBucket exits: what it has done  *)
(* by then it can do again.                                                *)
(***************************************************************************)
FleetStarts == \A i \in AllInstances : <>[](i \in Instances => pc[i] = "serving")
=============================================================================
