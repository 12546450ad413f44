---------------------------- MODULE Fleet_proofs ----------------------------
(***************************************************************************)
(* Proofs about Fleet: for any number of instances on any hosts, any       *)
(* migrations, any crashes, and any interval whose keepalives are at most  *)
(* two intervals late.                                                     *)
(***************************************************************************)
EXTENDS Fleet, TLAPS

(***************************************************************************)
(* The migrations: what an instance has not on its list is recorded, and   *)
(* the statements it has executed are applied.                             *)
(***************************************************************************)
SchemaInv ==
  /\ \A v \in recorded : StatementsOf(v) \subseteq applied
  /\ \A i \in Instances :
       /\ pc[i] \in {"down", "pending"} => stmt[i] = 0
       /\ pc[i] \in Migrated => recorded = Versions
       /\ pc[i] \in {"up", "record"} => Versions \ todo[i] \subseteq recorded
       /\ pc[i] = "up" => \A v \in Versions : Current(i, v) =>
            stmt[i] < Statements[v] /\ {v} \X (1 .. stmt[i]) \subseteq applied
       /\ pc[i] = "record" => \A v \in Versions : Current(i, v) => StatementsOf(v) \subseteq applied

(***************************************************************************)
(* The temp directories: an instance lists those of its host only, has     *)
(* listed its earlier ones when it sweeps, and has none until it creates   *)
(* its own, when no call on temp directories has failed since its start.   *)
(***************************************************************************)
TempInv ==
  /\ \A d \in dirs : d[2] <= run[d[1]]
  /\ \A i \in Instances :
       /\ \A d \in list[i] : HostOf(d[1]) = HostOf(i)
       /\ i \notin warned =>
            /\ pc[i] = "sweep" => \A d \in dirs : d[1] = i => d \in list[i]
            /\ pc[i] \in {"register", "services"} => \A d \in dirs : d[1] # i
            /\ pc[i] = "serving" => \A d \in dirs : d[1] = i => d[2] = run[i]
            /\ pc[i] = "serving" /\ Alone(i) => <<i, run[i]>> \in dirs

(* The lease of a registered instance is as old as its last keepalive. *)
LeaseInv ==
  \A i \in Instances : Registered(i) =>
    beat[i] <= Interval + MaxDelay /\ lease[i] + beat[i] = LeaseTTL

FleetInv == TypeOK /\ SchemaInv /\ TempInv /\ LeaseInv

(***************************************************************************)
(* No action changes the setting.                                          *)
(***************************************************************************)
LEMMA SettingFixed == [Next]_vars => setting' = setting
BY DEF Next, vars, Step, Start, GetPending, Up, Record, CheckBucket, MakeBucket, ReadTempDir,
       Sweep, Register, CreateServices, Crash, KeepAlive, Tick, Exit, Goto, Warn

(***************************************************************************)
(* What a process that ends leaves of its own state                        *)
(***************************************************************************)
LEMMA ExitEffect ==
  ASSUME TypeOK, NEW i \in Instances, Exit(i)
  PROVE  /\ pc' \in [Instances -> Label] /\ todo' \in [Instances -> SUBSET Versions]
         /\ stmt' \in [Instances -> Nat] /\ list' \in [Instances -> SUBSET (Instances \X Nat)]
         /\ beat' \in [Instances -> Nat]
         /\ pc'[i] = "down" /\ stmt'[i] = 0 /\ list'[i] = {}
         /\ \A j \in Instances : j # i =>
              /\ pc'[j] = pc[j] /\ todo'[j] = todo[j] /\ stmt'[j] = stmt[j]
              /\ list'[j] = list[j] /\ beat'[j] = beat[j]
BY Zenon DEF TypeOK, Exit, Goto, Label

(***************************************************************************)
(* Every action keeps the types.                                           *)
(***************************************************************************)
LEMMA TypeStep == TypeOK /\ [Next]_vars => TypeOK'
<1> SUFFICES ASSUME TypeOK, [Next]_vars PROVE TypeOK'
  BY Zenon
<1>0. setting' = setting
  BY SettingFixed, Zenon
<1> USE <1>0, FleetConstants DEF TypeOK, Instances, Label, failures
<1>1. ASSUME NEW i \in Instances, Start(i) PROVE TypeOK'
  BY <1>1, Zenon DEF Start, Goto, locals, database, discovery
<1>2. ASSUME NEW i \in Instances, GetPending(i) PROVE TypeOK'
  BY <1>2, Zenon DEF GetPending, Goto, database, discovery
<1>3. ASSUME NEW i \in Instances, NEW v \in Versions, Up(i, v) PROVE TypeOK'
  <2>1. stmt[i] + 1 \in Nat
    OBVIOUS
  <2>2. stmt' \in [Instances -> Nat] /\ applied' \subseteq Versions \X Nat
    BY <1>3, <2>1 DEF Up
  <2>3. pc' \in [Instances -> Label]
    BY <1>3, Zenon DEF Up, Goto
  <2> QED BY <1>3, <2>2, <2>3, Zenon DEF Up, discovery
<1>4. ASSUME NEW i \in Instances, NEW v \in Versions, Record(i, v) PROVE TypeOK'
  <2>1. CASE v \in recorded
    <3>1. Exit(i) /\ UNCHANGED <<recorded, run, applied, bucket, dirs, lease, failures>>
      BY <1>4, <2>1, Zenon DEF Record
    <3> QED BY <3>1, ExitEffect, Zenon
  <2>2. CASE v \notin recorded
    <3>1. /\ recorded' = recorded \cup {v} /\ todo' = [todo EXCEPT ![i] = @ \ {v}]
          /\ stmt' = [stmt EXCEPT ![i] = 0]
          /\ pc' = [pc EXCEPT ![i] = IF todo[i] = {v} THEN "storage" ELSE "up"]
          /\ UNCHANGED <<list, beat, run, applied, bucket, dirs, lease, failures>>
      BY <1>4, <2>2, Zenon DEF Record, Goto
    <3>2. todo' \in [Instances -> SUBSET Versions] /\ stmt' \in [Instances -> Nat]
      BY <3>1, Zenon
    <3>3. pc' \in [Instances -> Label]
      BY <3>1, Zenon
    <3> QED BY <3>1, <3>2, <3>3, Zenon
  <2> QED BY <2>1, <2>2, Zenon
<1>5. ASSUME NEW i \in Instances, CheckBucket(i) PROVE TypeOK'
  BY <1>5, Zenon DEF CheckBucket, Goto, locals, database, discovery
<1>6. ASSUME NEW i \in Instances, MakeBucket(i) PROVE TypeOK'
  <2>1. CASE bucket
    BY <1>6, <2>1, ExitEffect, Zenon DEF MakeBucket, database
  <2>2. CASE ~bucket
    BY <1>6, <2>2, Zenon DEF MakeBucket, Goto, locals, database
  <2> QED BY <2>1, <2>2, Zenon
<1>7. ASSUME NEW i \in Instances, ReadTempDir(i) PROVE TypeOK'
  <2>1. PICK l \in SUBSET dirs : list' = [list EXCEPT ![i] = l]
    BY <1>7, Zenon DEF ReadTempDir
  <2>2. faults' \in Nat /\ warned' \subseteq Instances
    BY <1>7 DEF ReadTempDir, Warn
  <2> QED BY <1>7, <2>1, <2>2, Zenon DEF ReadTempDir, Goto, database, discovery
<1>8. ASSUME NEW i \in Instances, Sweep(i) PROVE TypeOK'
  BY <1>8 DEF Sweep, Warn, Goto, database, discovery
<1>9. ASSUME NEW i \in Instances, Register(i) PROVE TypeOK'
  BY <1>9 DEF Register, Goto, locals, database, LeaseTTL
<1>10. ASSUME NEW i \in Instances, CreateServices(i) PROVE TypeOK'
  BY <1>10 DEF CreateServices, Warn, Goto, locals, database, discovery
<1>11. ASSUME NEW i \in Instances, Crash(i) PROVE TypeOK'
  BY <1>11 DEF Crash, Exit, Goto, database
<1>12. ASSUME NEW i \in Instances, KeepAlive(i) PROVE TypeOK'
  BY <1>12 DEF KeepAlive, locals, database, LeaseTTL
<1>13. CASE Tick
  BY <1>13 DEF Tick, locals, database
<1>14. CASE UNCHANGED vars
  BY <1>14, Zenon DEF vars
<1> QED
  BY <1>1, <1>2, <1>3, <1>4, <1>5, <1>6, <1>7, <1>8, <1>9, <1>10, <1>11, <1>12, <1>13, <1>14, Zenon
     DEF Next, Step

(***************************************************************************)
(* Every action keeps what the migrations rely on.                         *)
(***************************************************************************)
LEMMA SchemaStep == TypeOK /\ SchemaInv /\ [Next]_vars => SchemaInv'
<1> SUFFICES ASSUME TypeOK, SchemaInv, [Next]_vars PROVE SchemaInv'
  BY Zenon
<1>0. setting' = setting
  BY SettingFixed, Zenon
<1> USE <1>0, FleetConstants DEF TypeOK, Instances, Migrated, Current, StatementsOf, SchemaInv
<1>1. ASSUME NEW i \in Instances, Start(i) PROVE SchemaInv'
  BY <1>1 DEF Start, Goto, locals, database, discovery
<1>2. ASSUME NEW i \in Instances, GetPending(i) PROVE SchemaInv'
  <2>1. /\ todo' = [todo EXCEPT ![i] = Versions \ recorded] /\ UNCHANGED <<stmt, applied, recorded>>
        /\ pc' = [pc EXCEPT ![i] = IF Versions \subseteq recorded THEN "storage" ELSE "up"]
        /\ stmt[i] = 0
    BY <1>2, Zenon DEF GetPending, Goto, database
  <2>2. \A w \in Versions : 0 < Statements[w] /\ {w} \X (1 .. 0) \subseteq applied
    OBVIOUS
  <2>3. \A j \in Instances : j # i =>
          pc'[j] = pc[j] /\ todo'[j] = todo[j] /\ \A w \in Versions : Current(j, w)' <=> Current(j, w)
    BY <2>1, Zenon
  <2>4. (pc'[i] = "storage" /\ recorded' = Versions) \/ pc'[i] = "up"
    BY <2>1, Zenon
  <2>5. Versions \ todo'[i] \subseteq recorded'
    BY <2>1, Zenon
  <2> QED BY <2>1, <2>2, <2>3, <2>4, <2>5
<1>3. ASSUME NEW i \in Instances, NEW v \in Versions, Up(i, v) PROVE SchemaInv'
  <2> DEFINE n == stmt[i] + 1
  <2>1. /\ applied' = applied \cup {<<v, n>>} /\ recorded' = recorded /\ todo' = todo
        /\ stmt' = [stmt EXCEPT ![i] = n]
        /\ pc' = [pc EXCEPT ![i] = IF n = Statements[v] THEN "record" ELSE "up"]
        /\ pc[i] = "up" /\ Current(i, v)
    BY <1>3, Zenon DEF Up, Goto
  <2>2. n \in Nat /\ n <= Statements[v] /\ {v} \X (1 .. n) \subseteq applied'
    <3>1. stmt[i] < Statements[v] /\ {v} \X (1 .. stmt[i]) \subseteq applied
      BY <2>1, Zenon
    <3>2. stmt[i] \in Nat /\ Statements[v] \in Nat /\ 1 .. n = (1 .. stmt[i]) \cup {n}
      OBVIOUS
    <3> QED BY <2>1, <3>1, <3>2
  <2>3. \A w \in Versions : Current(i, w)' => w = v
    BY <2>1, <2>2
  <2>4. /\ pc'[i] = "up" => n < Statements[v]
        /\ pc'[i] = "record" => StatementsOf(v) \subseteq applied'
        /\ pc'[i] \in {"up", "record"} /\ stmt'[i] = n
    BY <2>1, <2>2
  <2>5. \A j \in Instances : j # i =>
          pc'[j] = pc[j] /\ stmt'[j] = stmt[j] /\ \A w \in Versions : Current(j, w)' <=> Current(j, w)
    BY <2>1, Zenon
  <2>6. applied \subseteq applied'
    BY <2>1, Zenon
  <2> HIDE DEF n
  <2>7. ASSUME NEW j \in Instances
        PROVE  /\ pc'[j] \in {"down", "pending"} => stmt'[j] = 0
               /\ pc'[j] \in Migrated => recorded' = Versions
               /\ pc'[j] \in {"up", "record"} => Versions \ todo'[j] \subseteq recorded'
    BY <2>1, <2>4, <2>5, Zenon
  <2>8. ASSUME NEW j \in Instances, NEW w \in Versions, Current(j, w)', pc'[j] = "up"
        PROVE  stmt'[j] < Statements[w] /\ {w} \X (1 .. stmt'[j]) \subseteq applied'
    <3>1. CASE j = i
      BY <2>2, <2>3, <2>4, <2>8, <3>1, Zenon
    <3>2. CASE j # i
      <4>1. stmt[j] < Statements[w] /\ {w} \X (1 .. stmt[j]) \subseteq applied
        BY <2>5, <2>8, <3>2, Zenon
      <4> QED BY <2>5, <2>6, <3>2, <4>1, Zenon
    <3> QED BY <3>1, <3>2, Zenon
  <2>9. ASSUME NEW j \in Instances, NEW w \in Versions, Current(j, w)', pc'[j] = "record"
        PROVE  StatementsOf(w) \subseteq applied'
    <3>1. CASE j = i
      BY <2>3, <2>4, <2>9, <3>1, Zenon
    <3>2. CASE j # i
      <4>1. StatementsOf(w) \subseteq applied
        BY <2>5, <2>9, <3>2, ZenonT(30)
      <4> QED BY <2>6, <4>1, Zenon
    <3> QED BY <3>1, <3>2, Zenon
  <2>10. \A w \in recorded' : StatementsOf(w) \subseteq applied'
    BY <2>1, <2>6, Zenon
  <2> QED BY <2>7, <2>8, <2>9, <2>10, Zenon
<1>4. ASSUME NEW i \in Instances, NEW v \in Versions, Record(i, v) PROVE SchemaInv'
  <2>1. CASE v \in recorded
    <3>1. Exit(i) /\ UNCHANGED <<recorded, applied>>
      BY <1>4, <2>1, Zenon DEF Record
    <3>2. \A j \in Instances : j # i =>
            pc'[j] = pc[j] /\ todo'[j] = todo[j] /\ stmt'[j] = stmt[j]
      BY <3>1, ExitEffect
    <3>3. pc'[i] = "down" /\ stmt'[i] = 0
      BY <3>1, ExitEffect, Zenon
    <3>4. \A j \in Instances : j # i => \A w \in Versions : Current(j, w)' <=> Current(j, w)
      BY <3>2, Zenon
    <3>5. ASSUME NEW j \in Instances
          PROVE  /\ pc'[j] \in {"down", "pending"} => stmt'[j] = 0
                 /\ pc'[j] \in Migrated => recorded' = Versions
                 /\ pc'[j] \in {"up", "record"} => Versions \ todo'[j] \subseteq recorded'
      BY <3>1, <3>2, <3>3, Zenon
    <3>6. ASSUME NEW j \in Instances
          PROVE  /\ pc'[j] = "up" => \A w \in Versions : Current(j, w)' =>
                      stmt'[j] < Statements[w] /\ {w} \X (1 .. stmt'[j]) \subseteq applied'
                 /\ pc'[j] = "record" => \A w \in Versions : Current(j, w)' => StatementsOf(w) \subseteq applied'
      BY <3>1, <3>2, <3>3, <3>4, SMTT(30)
    <3> QED BY <3>1, <3>5, <3>6, ZenonT(30)
  <2>2. CASE v \notin recorded
    <3>1. /\ recorded' = recorded \cup {v} /\ todo' = [todo EXCEPT ![i] = @ \ {v}]
          /\ stmt' = [stmt EXCEPT ![i] = 0] /\ applied' = applied
          /\ pc' = [pc EXCEPT ![i] = IF todo[i] = {v} THEN "storage" ELSE "up"]
          /\ pc[i] = "record" /\ Current(i, v)
      BY <1>4, <2>2, Zenon DEF Record, Goto
    <3>2. StatementsOf(v) \subseteq applied'
      BY <3>1, Zenon
    <3>3. todo[i] = {v} => recorded' = Versions
      BY <3>1, Zenon
    <3>4. recorded' \subseteq Versions /\ Versions \ todo'[i] \subseteq recorded'
      BY <3>1, Zenon
    <3>5. \A w \in Versions : 0 < Statements[w] /\ {w} \X (1 .. 0) \subseteq applied'
      OBVIOUS
    <3>6. \A j \in Instances : j # i =>
            /\ pc'[j] = pc[j] /\ stmt'[j] = stmt[j] /\ todo'[j] = todo[j]
            /\ \A w \in Versions : Current(j, w)' <=> Current(j, w)
      BY <3>1, Zenon
    <3>7. \A w \in recorded' : StatementsOf(w) \subseteq applied'
      BY <3>1, <3>2, Zenon
    <3>8. pc'[i] \in {"storage", "up"} /\ (pc'[i] = "storage" => todo[i] = {v}) /\ stmt'[i] = 0
      BY <3>1, Zenon
    <3>9. ASSUME NEW j \in Instances
          PROVE  /\ pc'[j] \in Migrated => recorded' = Versions
                 /\ pc'[j] \in {"up", "record"} => Versions \ todo'[j] \subseteq recorded'
                 /\ pc'[j] \in {"down", "pending"} => stmt'[j] = 0
      BY <3>1, <3>3, <3>4, <3>6, <3>8
    <3>10. ASSUME NEW j \in Instances
           PROVE  /\ pc'[j] = "up" => \A w \in Versions : Current(j, w)' =>
                       stmt'[j] < Statements[w] /\ {w} \X (1 .. stmt'[j]) \subseteq applied'
                  /\ pc'[j] = "record" => \A w \in Versions : Current(j, w)' => StatementsOf(w) \subseteq applied'
      BY <3>1, <3>5, <3>6, <3>8
    <3> QED BY <3>7, <3>9, <3>10
  <2> QED BY <2>1, <2>2, Zenon
<1>5. ASSUME NEW i \in Instances, CheckBucket(i) PROVE SchemaInv'
  BY <1>5 DEF CheckBucket, Goto, locals, database, discovery
<1>6. ASSUME NEW i \in Instances, MakeBucket(i) PROVE SchemaInv'
  BY <1>6 DEF MakeBucket, Goto, Exit, locals, database
<1>7. ASSUME NEW i \in Instances, ReadTempDir(i) PROVE SchemaInv'
  BY <1>7 DEF ReadTempDir, Goto, database, discovery
<1>8. ASSUME NEW i \in Instances, Sweep(i) PROVE SchemaInv'
  BY <1>8 DEF Sweep, Goto, database, discovery
<1>9. ASSUME NEW i \in Instances, Register(i) PROVE SchemaInv'
  BY <1>9 DEF Register, Goto, locals, database, LeaseTTL
<1>10. ASSUME NEW i \in Instances, CreateServices(i) PROVE SchemaInv'
  BY <1>10 DEF CreateServices, Goto, locals, database, discovery
<1>11. ASSUME NEW i \in Instances, Crash(i) PROVE SchemaInv'
  BY <1>11 DEF Crash, Exit, Goto, database
<1>12. ASSUME NEW i \in Instances, KeepAlive(i) PROVE SchemaInv'
  BY <1>12 DEF KeepAlive, locals, database
<1>13. CASE Tick
  BY <1>13 DEF Tick, locals, database
<1>14. CASE UNCHANGED vars
  BY <1>14 DEF vars
<1> QED
  BY <1>1, <1>2, <1>3, <1>4, <1>5, <1>6, <1>7, <1>8, <1>9, <1>10, <1>11, <1>12, <1>13, <1>14, Zenon
     DEF Next, Step

(***************************************************************************)
(* Every action keeps what the temp directories rely on.                   *)
(***************************************************************************)
LEMMA TempStep == TypeOK /\ TempInv /\ [Next]_vars => TempInv'
<1> SUFFICES ASSUME TypeOK, TempInv, [Next]_vars PROVE TempInv'
  OBVIOUS
<1>0. setting' = setting
  BY SettingFixed
<1> USE <1>0, FleetConstants DEF TypeOK, Instances, TempInv, HostOf, Alone, failures
<1>1. ASSUME NEW i \in Instances, Start(i) PROVE TempInv'
  BY <1>1 DEF Start, Goto, locals
<1>2. ASSUME NEW i \in Instances, GetPending(i) PROVE TempInv'
  BY <1>2 DEF GetPending, Goto
<1>3. ASSUME NEW i \in Instances, NEW v \in Versions, Up(i, v) PROVE TempInv'
  BY <1>3 DEF Up, Goto
<1>4. ASSUME NEW i \in Instances, NEW v \in Versions, Record(i, v) PROVE TempInv'
  BY <1>4 DEF Record, Goto, Exit
<1>5. ASSUME NEW i \in Instances, CheckBucket(i) PROVE TempInv'
  BY <1>5 DEF CheckBucket, Goto, locals
<1>6. ASSUME NEW i \in Instances, MakeBucket(i) PROVE TempInv'
  BY <1>6 DEF MakeBucket, Goto, Exit, locals
<1>7. ASSUME NEW i \in Instances, ReadTempDir(i) PROVE TempInv'
  <2>1. PICK l \in SUBSET {d \in dirs : HostOf(d[1]) = HostOf(i)} : list' = [list EXCEPT ![i] = l]
    BY <1>7, Zenon DEF ReadTempDir
  <2>2. /\ pc' = [pc EXCEPT ![i] = "sweep"] /\ run' = run /\ dirs' = dirs
        /\ warned \subseteq warned'
        /\ i \notin warned' => \A d \in dirs : d[1] = i => d \in list'[i]
    BY <1>7 DEF ReadTempDir, Goto, Warn
  <2> QED BY <2>1, <2>2
<1>8. ASSUME NEW i \in Instances, Sweep(i) PROVE TempInv'
  <2>1. CASE list[i] = {}
    BY <1>8, <2>1 DEF Sweep, Goto
  <2>2. ASSUME NEW d \in list[i], dirs' = dirs \ {d}, list' = [list EXCEPT ![i] = @ \ {d}],
               UNCHANGED pc, UNCHANGED run, UNCHANGED warned
        PROVE  TempInv'
    <3>1. pc[i] = "sweep"
      BY <1>8, Zenon DEF Sweep
    <3>2. \A e \in dirs' : e \in dirs /\ e # d
      BY <2>2, Zenon
    <3>3. \A j \in Instances : /\ list'[j] \subseteq list[j]
                               /\ \A e \in list[j] : e # d => e \in list'[j]
      BY <2>2
    <3>4. ASSUME NEW j \in Instances, j \notin warned, pc[j] = "serving", Alone(j)
          PROVE  <<j, run[j]>> \in dirs'
      <4>1. <<j, run[j]>> \in dirs /\ j # i
        BY <3>1, <3>4, Zenon
      <4>2. HostOf(d[1]) = HostOf(i) /\ HostOf(j) # HostOf(i)
        BY <3>4, <4>1, Zenon
      <4>3. d # <<j, run[j]>>
        BY <4>2
      <4> QED BY <2>2, <4>1, <4>3, Zenon
    <3>5. \A e \in dirs' : e[2] <= run'[e[1]]
      BY <2>2, <3>2, Zenon
    <3>6. ASSUME NEW j \in Instances PROVE \A e \in list'[j] : HostOf(e[1]) = HostOf(j)
      BY <3>3, Zenon
    <3>7. ASSUME NEW j \in Instances, j \notin warned
          PROVE  /\ pc'[j] = "sweep" => \A e \in dirs' : e[1] = j => e \in list'[j]
                 /\ pc'[j] \in {"register", "services"} => \A e \in dirs' : e[1] # j
                 /\ pc'[j] = "serving" => \A e \in dirs' : e[1] = j => e[2] = run'[j]
      BY <2>2, <3>2, <3>3, <3>7, ZenonT(60)
    <3> QED BY <2>2, <3>4, <3>5, <3>6, <3>7
  <2>3. ASSUME NEW d \in list[i], Warn(i), list' = [list EXCEPT ![i] = @ \ {d}],
               UNCHANGED pc, UNCHANGED run, UNCHANGED dirs
        PROVE  TempInv'
    <3>1. warned' = warned \cup {i}
      BY <2>3, Zenon DEF Warn
    <3>2. \A j \in Instances : list'[j] \subseteq list[j] /\ (j # i => list'[j] = list[j])
      BY <2>3
    <3> QED BY <2>3, <3>1, <3>2
  <2> QED BY <1>8, <2>1, <2>2, <2>3, Zenon DEF Sweep, Goto
<1>9. ASSUME NEW i \in Instances, Register(i) PROVE TempInv'
  BY <1>9 DEF Register, Goto, locals
<1>10. ASSUME NEW i \in Instances, CreateServices(i) PROVE TempInv'
  <2> DEFINE n == run[i] + 1
  <2>1. /\ pc[i] = "services" /\ pc' = [pc EXCEPT ![i] = "serving"] /\ list' = list
        /\ run' = [run EXCEPT ![i] = n] /\ dirs \subseteq dirs' /\ dirs' \subseteq dirs \cup {<<i, n>>}
        /\ warned \subseteq warned'
        /\ i \notin warned' => <<i, n>> \in dirs'
    BY <1>10, Zenon DEF CreateServices, Warn, Goto, locals
  <2>2. run[i] \in Nat /\ n \in Nat /\ run'[i] = n /\ \A j \in Instances : j # i => run'[j] = run[j]
    BY <2>1
  <2>3. \A d \in dirs : d \in Instances \X Nat /\ (i \notin warned => d[1] # i)
    BY <2>1, Zenon
  <2>4. ASSUME NEW d \in dirs' PROVE d[2] <= run'[d[1]]
    <3>1. CASE d \in dirs
      <4>1. d[1] \in Instances /\ d[2] \in Nat /\ d[2] <= run[d[1]]
        BY <2>3, <3>1
      <4> QED BY <2>2, <4>1
    <3>2. CASE d = <<i, n>> BY <2>2, <3>2
    <3> QED BY <2>1, <3>1, <3>2, Zenon
  <2>5. ASSUME NEW j \in Instances, j # i
        PROVE  /\ pc'[j] = pc[j]
               /\ \A d \in dirs' : d[1] = j => d \in dirs
    BY <2>1, <2>5
  <2>6. i \notin warned' => \A d \in dirs' : d[1] = i => d = <<i, n>>
    BY <2>1, <2>3, Zenon
  <2>7. pc'[i] = "serving"
    BY <2>1
  <2> HIDE DEF n
  <2>8. ASSUME NEW j \in Instances, j \notin warned'
        PROVE  /\ pc'[j] = "sweep" => \A d \in dirs' : d[1] = j => d \in list'[j]
               /\ pc'[j] \in {"register", "services"} => \A d \in dirs' : d[1] # j
               /\ pc'[j] = "serving" => \A d \in dirs' : d[1] = j => d[2] = run'[j]
               /\ pc'[j] = "serving" /\ Alone(j) => <<j, run'[j]>> \in dirs'
    <3>1. CASE j = i
      <4>1. \A d \in dirs' : d[1] = i => d[2] = n
        BY <2>6, <2>8, <3>1
      <4> QED BY <2>1, <2>2, <2>7, <2>8, <3>1, <4>1, Zenon
    <3>2. CASE j # i
      <4>1. j \notin warned
        BY <2>1, <2>8, Zenon
      <4> QED BY <2>1, <2>2, <2>5, <3>2, <4>1
    <3> QED BY <3>1, <3>2, Zenon
  <2>9. \A j \in Instances : \A d \in list'[j] : HostOf(d[1]) = HostOf(j)
    BY <2>1, Zenon
  <2> QED BY <2>4, <2>8, <2>9
<1>11. ASSUME NEW i \in Instances, Crash(i) PROVE TempInv'
  BY <1>11 DEF Crash, Exit, Goto
<1>12. ASSUME NEW i \in Instances, KeepAlive(i) PROVE TempInv'
  BY <1>12 DEF KeepAlive, locals
<1>13. CASE Tick
  BY <1>13 DEF Tick, locals
<1>14. CASE UNCHANGED vars
  BY <1>14 DEF vars
<1> QED
  BY <1>1, <1>2, <1>3, <1>4, <1>5, <1>6, <1>7, <1>8, <1>9, <1>10, <1>11, <1>12, <1>13, <1>14, Zenon
     DEF Next, Step

(***************************************************************************)
(* Every action keeps the lease as old as the last keepalive.              *)
(***************************************************************************)
LEMMA LeaseStep == TypeOK /\ LeaseInv /\ [Next]_vars => LeaseInv'
<1> SUFFICES ASSUME TypeOK, LeaseInv, [Next]_vars PROVE LeaseInv'
  OBVIOUS
<1>0. setting' = setting
  BY SettingFixed
<1> USE <1>0, FleetConstants DEF TypeOK, Instances, LeaseInv, Registered, Discovery, LeaseTTL
<1>1. ASSUME NEW i \in Instances, Start(i) PROVE LeaseInv'
  BY <1>1, Zenon DEF Start, Goto, discovery
<1>2. ASSUME NEW i \in Instances, GetPending(i) PROVE LeaseInv'
  BY <1>2, Zenon DEF GetPending, Goto, discovery
<1>3. ASSUME NEW i \in Instances, NEW v \in Versions, Up(i, v) PROVE LeaseInv'
  BY <1>3, Zenon DEF Up, Goto, discovery
<1>4. ASSUME NEW i \in Instances, NEW v \in Versions, Record(i, v) PROVE LeaseInv'
  BY <1>4 DEF Record, Goto, Exit
<1>5. ASSUME NEW i \in Instances, CheckBucket(i) PROVE LeaseInv'
  BY <1>5, Zenon DEF CheckBucket, Goto, discovery
<1>6. ASSUME NEW i \in Instances, MakeBucket(i) PROVE LeaseInv'
  BY <1>6 DEF MakeBucket, Goto, Exit
<1>7. ASSUME NEW i \in Instances, ReadTempDir(i) PROVE LeaseInv'
  BY <1>7, Zenon DEF ReadTempDir, Goto, discovery
<1>8. ASSUME NEW i \in Instances, Sweep(i) PROVE LeaseInv'
  BY <1>8, Zenon DEF Sweep, Goto, discovery
<1>9. ASSUME NEW i \in Instances, Register(i) PROVE LeaseInv'
  BY <1>9 DEF Register, Goto
<1>10. ASSUME NEW i \in Instances, CreateServices(i) PROVE LeaseInv'
  BY <1>10, Zenon DEF CreateServices, Goto, discovery
<1>11. ASSUME NEW i \in Instances, Crash(i) PROVE LeaseInv'
  BY <1>11, Zenon DEF Crash, Exit, Goto
<1>12. ASSUME NEW i \in Instances, KeepAlive(i) PROVE LeaseInv'
  BY <1>12 DEF KeepAlive
<1>13. CASE Tick
  BY <1>13 DEF Tick
<1>14. CASE UNCHANGED vars
  BY <1>14, Zenon DEF vars
<1> QED
  BY <1>1, <1>2, <1>3, <1>4, <1>5, <1>6, <1>7, <1>8, <1>9, <1>10, <1>11, <1>12, <1>13, <1>14, Zenon
     DEF Next, Step

(***************************************************************************)
(* Before anything has started, everything is as the invariant says.       *)
(***************************************************************************)
LEMMA InitHolds == Init => FleetInv
<1> SUFFICES ASSUME Init PROVE FleetInv
  BY Zenon
<1> USE DEF Init
<1>1. TypeOK
  BY Zenon DEF TypeOK, Label
<1>2. SchemaInv
  BY Zenon DEF SchemaInv, Migrated
<1>3. TempInv
  BY Zenon DEF TempInv
<1>4. LeaseInv
  BY Zenon DEF LeaseInv, Registered
<1> QED BY <1>1, <1>2, <1>3, <1>4, Zenon DEF FleetInv

(***************************************************************************)
(* FleetInv is an invariant of every start of every fleet.                 *)
(***************************************************************************)
THEOREM FleetInvariant == Spec => []FleetInv
<1>1. FleetInv /\ [Next]_vars => FleetInv'
  BY TypeStep, SchemaStep, TempStep, LeaseStep, Zenon DEF FleetInv
<1> QED BY InitHolds, <1>1, PTL DEF Spec

(***************************************************************************)
(* Migrations are recorded after they are complete, and nobody goes on     *)
(* without them: RunMigrations needs no lock for this.                     *)
(***************************************************************************)
THEOREM MigrationsComplete == Spec => []SchemaComplete
<1>1. FleetInv => SchemaComplete
  BY Zenon DEF FleetInv, SchemaInv, SchemaComplete
<1> QED BY <1>1, FleetInvariant, PTL

(***************************************************************************)
(* The cleanup of the temp directories leaves an instance that is alone on *)
(* its host exactly the directory of its current run, unless a call on     *)
(* temp directories failed in this start.                                  *)
(***************************************************************************)
THEOREM TempDirectoriesExact == Spec => []OwnTempOnly
<1>1. FleetInv => OwnTempOnly
  <2> SUFFICES ASSUME FleetInv, NEW i \in Instances, pc[i] = "serving", Alone(i), i \notin warned
               PROVE  {d \in dirs : HostOf(d[1]) = HostOf(i)} = {<<i, run[i]>>}
    BY Zenon DEF OwnTempOnly
  <2>1. <<i, run[i]>> \in dirs
    BY Zenon DEF FleetInv, TempInv
  <2>2. ASSUME NEW d \in dirs, HostOf(d[1]) = HostOf(i) PROVE d = <<i, run[i]>>
    <3>1. d \in Instances \X Nat
      BY Zenon DEF FleetInv, TypeOK
    <3>2. d[1] = i
      BY <2>2, <3>1, Zenon DEF Alone
    <3>3. d[2] = run[i]
      BY <3>2, Zenon DEF FleetInv, TempInv
    <3> QED BY <3>1, <3>2, <3>3
  <2> QED BY <2>1, <2>2
<1> QED BY <1>1, FleetInvariant, PTL

(***************************************************************************)
(* An instance that serves is registered as long as its keepalives are     *)
(* less than two intervals late.                                           *)
(***************************************************************************)
THEOREM ServingRegistered == Spec => []ServingFound
<1>1. FleetInv => ServingFound
  BY FleetConstants DEF FleetInv, TypeOK, LeaseInv, ServingFound, Registered, LeaseTTL
<1> QED BY <1>1, FleetInvariant, PTL
=============================================================================
