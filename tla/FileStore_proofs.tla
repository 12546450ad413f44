------------------------- MODULE FileStore_proofs -------------------------
(***************************************************************************)
(* Proofs about FileStore: the rows keep distinct ids, the row a request   *)
(* has read is the row of its path as long as it exists, and so the live   *)
(* rows are the map of files that clients are promised.                    *)
(***************************************************************************)
EXTENDS FileStore, TLAPS

RowsTyped ==
  /\ row \in [Paths -> Row \cup {None}]
  /\ \A p, q \in Paths : row[p] # None /\ row[q] # None /\ p # q => row[p].id # row[q].id

WorkersTyped ==
  /\ lock \in [Paths -> Workers \cup {None}] /\ pc \in [Workers -> Label]
  /\ op \in [Workers -> Op \cup {None}] /\ meta \in [Workers -> Row \cup {None}]

(* The requests that get to a label, and what they have read by then. *)
Labelled(label, o, m) ==
  /\ label = "lookup" \/ (label = "write" /\ o.kind = "stream") => m = None
  /\ label \in {"write", "record", "restore", "insert", "undo"} => o.kind \in {"upload", "stream"}
  /\ label \in {"restore", "insert", "undo"} => m = None
  /\ label \in {"remove", "unrecord"} => m # None /\ o.kind = "delete"
  /\ label \in {"target", "move", "repath", "rollback"} => m # None /\ o.kind = "rename"

(* A request at work holds the lock of its path. *)
At(w) ==
  /\ pc[w] = "idle" => op[w] = None /\ meta[w] = None
  /\ pc[w] # "idle" =>
       /\ op[w] \in Op /\ lock[Path(w)] = w
       /\ op[w].kind = "rename" => op[w].target # Path(w)
       /\ Labelled(pc[w], op[w], meta[w])

(* The row it has read is there as it was, or not at all. *)
Own(w) ==
  meta[w] # None =>
    \A p \in Paths : HasId(p, meta[w].id) => p = Path(w) /\ Live(p) /\ row[p].hash = meta[w].hash

StoreInv == TypeOK /\ (\A w \in Workers : At(w)) /\ (\A w \in Workers : Own(w))

(* The requests other than w do not change. *)
OthersStay(w) ==
  \A v \in Workers \ {w} : pc'[v] = pc[v] /\ op'[v] = op[v] /\ meta'[v] = meta[v]

LEMMA SettingFixed == [Next]_vars => setting' = setting
<1>1. ASSUME NEW w, Work(w) PROVE setting' = setting
  BY <1>1, Zenon DEF Work, Lookup, Write, Record, Restore, Insert, Undo, DeleteObject, DeleteRow,
       RenameCheck, RenameObject, RenameRow, RenameRollback, Return, Continue, Goto
<1>2. ASSUME Clean PROVE setting' = setting
  BY <1>2, Zenon DEF Clean, CleanList, CleanObject, CleanRow
<1>3. ASSUME NEW w, NEW o, Begin(w, o) \/ Crash(w) PROVE setting' = setting
  BY <1>3, Zenon DEF Begin, Crash, Return, Goto
<1>4. ASSUME NEW p, Age(p) PROVE setting' = setting
  BY <1>4, Zenon DEF Age
<1>5. UNCHANGED vars => setting' = setting
  BY Zenon DEF vars
<1> QED BY <1>1, <1>2, <1>3, <1>4, <1>5, Zenon DEF Next

LEMMA OpTypes ==
  ASSUME setting \in Settings, NEW o \in Op
  PROVE  o.path \in Paths /\ o.target \in Paths /\ o.data \in Contents /\ o.kind \in Kinds
BY StoreConstants, Zenon DEF Op, Setting, Kinds

(***************************************************************************)
(* What a return and a step within an operation leave.                     *)
(***************************************************************************)
LEMMA ReturnEffect ==
  ASSUME StoreInv, setting' = setting, NEW w \in Workers, pc[w] # "idle", Return(w)
  PROVE  /\ WorkersTyped' /\ (\A v \in Workers : At(v)') /\ OthersStay(w)
         /\ meta'[w] = None /\ pc'[w] = "idle"
<1>1. WorkersTyped /\ (\A v \in Workers : At(v)) /\ setting \in Settings
  BY Zenon DEF StoreInv, TypeOK, WorkersTyped
<1>2. Op' = Op /\ Path(w) \in Paths /\ lock[Path(w)] = w
  BY <1>1, OpTypes, Zenon DEF Op, Kinds, At, Path
<1>3. WorkersTyped' /\ OthersStay(w) /\ meta'[w] = None /\ pc'[w] = "idle" /\ op'[w] = None
  BY <1>1, <1>2, Zenon DEF WorkersTyped, Return, Goto, OthersStay, Label
<1>4. ASSUME NEW v \in Workers \ {w}, pc[v] # "idle" PROVE lock'[Path(v)] = v
  BY <1>1, <1>2, <1>4, OpTypes, Zenon DEF At, Path, Return, WorkersTyped
<1>5. ASSUME NEW v \in Workers \ {w} PROVE At(v)'
  BY <1>1, <1>2, <1>3, <1>4 DEF At, OthersStay, Path
<1>6. At(w)'
  BY <1>3, Zenon DEF At
<1> QED BY <1>3, <1>5, <1>6, Zenon

LEMMA ContinueEffect ==
  ASSUME StoreInv, setting' = setting, NEW w \in Workers, pc[w] # "idle",
         NEW label \in Label \ {"idle"}, Goto(w, label), UNCHANGED <<lock, op>>,
         NEW m \in Row \cup {None}, meta' = [meta EXCEPT ![w] = m], Labelled(label, op[w], m)
  PROVE  WorkersTyped' /\ (\A v \in Workers : At(v)') /\ OthersStay(w) /\ meta'[w] = m
<1>1. WorkersTyped /\ (\A v \in Workers : At(v))
  BY Zenon DEF StoreInv, TypeOK, WorkersTyped
<1>2. Op' = Op
  BY Zenon DEF Op, Kinds
<1>3. WorkersTyped' /\ OthersStay(w) /\ meta'[w] = m /\ pc'[w] = label
  BY <1>1, <1>2, Zenon DEF WorkersTyped, Goto, OthersStay
<1>4. ASSUME NEW v \in Workers \ {w} PROVE At(v)'
  BY <1>1, <1>2, <1>3 DEF At, OthersStay, Path
<1>5. At(w)'
  BY <1>1, <1>2, <1>3, Zenon DEF At, Path
<1> QED BY <1>3, <1>4, <1>5, Zenon

LEMMA ContinueOn ==
  ASSUME StoreInv, setting' = setting, NEW w \in Workers, pc[w] # "idle",
         NEW label \in Label \ {"idle"}, Continue(w, label), Labelled(label, op[w], meta[w])
  PROVE  WorkersTyped' /\ (\A v \in Workers : At(v)') /\ OthersStay(w) /\ meta' = meta
<1>1. meta[w] \in Row \cup {None} /\ meta' = [meta EXCEPT ![w] = meta[w]] /\ meta' = meta
  BY Zenon DEF StoreInv, TypeOK, Continue
<1> QED BY <1>1, ContinueEffect, Zenon DEF Continue

(***************************************************************************)
(* What the statements do to the rows.                                     *)
(***************************************************************************)
LEMMA UpdateEffect ==
  ASSUME RowsTyped, NEW id \in Ids, NEW q \in Paths, NEW hash \in Contents, ~Conflict(id, q),
         row' = Updated(id, q, hash)
  PROVE  /\ RowsTyped'
         /\ \/ row' = row /\ \A x \in Paths : ~HasId(x, id)
            \/ \E p \in Paths :
                 /\ HasId(p, id) /\ (p # q => row[q] = None /\ row'[p] = None)
                 /\ row'[q] = [id |-> id, hash |-> hash, deleted |-> FALSE, old |-> FALSE]
                 /\ \A x \in Paths \ {p, q} : row'[x] = row[x]
<1>1. CASE \A x \in Paths : ~HasId(x, id)
  <2>1. row' = row
    BY <1>1, Zenon DEF Updated
  <2> QED BY <1>1, <2>1, Zenon DEF RowsTyped
<1>2. ASSUME NEW p \in Paths, HasId(p, id) PROVE RowsTyped' /\
            (/\ HasId(p, id) /\ (p # q => row[q] = None /\ row'[p] = None)
             /\ row'[q] = [id |-> id, hash |-> hash, deleted |-> FALSE, old |-> FALSE]
             /\ \A x \in Paths \ {p, q} : row'[x] = row[x])
  <2> DEFINE new == [id |-> id, hash |-> hash, deleted |-> FALSE, old |-> FALSE]
  <2>1. new \in Row /\ new.id = id
    BY Zenon DEF Row
  <2>2. row' = [x \in Paths |-> IF x = q THEN new ELSE IF HasId(x, id) THEN None ELSE row[x]]
    BY <1>2, Zenon DEF Updated
  <2> HIDE DEF new
  <2>3. \A x \in Paths : HasId(x, id) => x = p
    BY <1>2, Zenon DEF RowsTyped, HasId
  <2>4. row' \in [Paths -> Row \cup {None}]
    BY <2>1, <2>2, Zenon DEF RowsTyped
  <2>5. row'[q] = new /\ \A x \in Paths \ {q} : row'[x] # None => row'[x] = row[x] /\ row[x].id # id
    BY <2>2, Zenon DEF HasId
  <2>6. RowsTyped'
    BY <2>1, <2>4, <2>5 DEF RowsTyped
  <2>7. p # q => row[q] = None /\ row'[p] = None
    BY <1>2, <2>2, Zenon DEF Conflict
  <2>8. \A x \in Paths \ {p, q} : row'[x] = row[x]
    BY <2>2, <2>3, Zenon
  <2> QED BY <1>2, <2>5, <2>6, <2>7, <2>8, Zenon DEF new
<1> QED BY <1>1, <1>2, Zenon

LEMMA SoftDeleteEffect ==
  ASSUME RowsTyped, NEW id \in Ids, row' = SoftDeleted(id)
  PROVE  /\ RowsTyped'
         /\ \A x \in Paths : ~HasId(x, id) => row'[x] = row[x]
         /\ \A x \in Paths : HasId(x, id) => ~Live(x)' /\ row'[x].id = id
<1>1. \A x \in Paths : row'[x] = IF HasId(x, id) THEN [row[x] EXCEPT !.deleted = TRUE, !.old = FALSE] ELSE row[x]
  BY Zenon DEF SoftDeleted
<1>2. ASSUME NEW x \in Paths, HasId(x, id)
      PROVE  row'[x] \in Row /\ row'[x].id = row[x].id /\ row'[x].deleted = TRUE
  <2>1. row[x] \in Row /\ row'[x] = [row[x] EXCEPT !.deleted = TRUE, !.old = FALSE]
    BY <1>1, <1>2, Zenon DEF HasId, RowsTyped
  <2> QED BY <2>1, Zenon DEF Row
<1>3. row' \in [Paths -> Row \cup {None}]
  BY <1>1, <1>2, Zenon DEF SoftDeleted, RowsTyped
<1>4. \A x \in Paths : row'[x] # None => row[x] # None /\ row'[x].id = row[x].id
  BY <1>1, <1>2, Zenon DEF HasId
<1>5. RowsTyped'
  BY <1>3, <1>4 DEF RowsTyped
<1>6. \A x \in Paths : HasId(x, id) => ~Live(x)' /\ row'[x].id = id
  BY <1>2, Zenon DEF HasId, Live
<1> QED BY <1>1, <1>5, <1>6, Zenon

LEMMA PurgeEffect ==
  ASSUME RowsTyped, NEW id, row' = Purged(id)
  PROVE  /\ RowsTyped'
         /\ \A x \in Paths : ~HasId(x, id) => row'[x] = row[x]
         /\ \A x \in Paths : HasId(x, id) => row'[x] = None
BY Zenon DEF RowsTyped, Purged

LEMMA RowAged ==
  ASSUME NEW r \in Row
  PROVE  LET s == [r EXCEPT !.old = TRUE] IN s \in Row /\ s.id = r.id /\ s.deleted = r.deleted
BY Zenon DEF Row

LEMMA AgeEffect ==
  ASSUME RowsTyped, NEW p \in Paths, Age(p)
  PROVE  /\ RowsTyped'
         /\ \A x \in Paths \ {p} : row'[x] = row[x]
         /\ ~Live(p) /\ ~Live(p)' /\ row[p] # None /\ row'[p].id = row[p].id
<1>1. row[p] \in Row /\ row' = [row EXCEPT ![p].old = TRUE] /\ row[p].deleted /\ row[p] # None
  BY Zenon DEF Age, RowsTyped
<1>2. row'[p] = [row[p] EXCEPT !.old = TRUE]
  BY <1>1, Zenon DEF RowsTyped
<1>3. row'[p] \in Row /\ row'[p].id = row[p].id /\ row'[p].deleted = row[p].deleted
  BY <1>1, <1>2, RowAged, Zenon
<1>4. \A x \in Paths \ {p} : row'[x] = row[x]
  BY <1>1, Zenon DEF RowsTyped
<1>5. row' \in [Paths -> Row \cup {None}]
  BY <1>1, <1>3, <1>4, Zenon DEF RowsTyped
<1> QED BY <1>1, <1>3, <1>4, <1>5 DEF RowsTyped, Live

LEMMA NewRowEffect ==
  ASSUME StoreInv, NEW w \in Workers, op[w] \in Op, Ids \ UsedIds # {},
         row' = [row EXCEPT ![Path(w)] = NewRow(w)]
  PROVE  /\ RowsTyped' /\ NewRow(w) \in Row /\ NewRow(w).hash = op[w].data /\ ~NewRow(w).deleted
         /\ row'[Path(w)] = NewRow(w) /\ \A x \in Paths \ {Path(w)} : row'[x] = row[x]
         /\ NewRow(w).id \notin UsedIds
<1>1. RowsTyped /\ Path(w) \in Paths /\ op[w].data \in Contents
  BY OpTypes, Zenon DEF StoreInv, TypeOK, RowsTyped, Path
<1>2. PICK i : i = CHOOSE j \in Ids \ UsedIds : TRUE
  BY Zenon
<1>3. i \in Ids \ UsedIds
  BY <1>2, Zenon
<1>4. NewRow(w) = [id |-> i, hash |-> op[w].data, deleted |-> FALSE, old |-> FALSE]
  BY <1>2, Zenon DEF NewRow
<1>5. NewRow(w) \in Row /\ NewRow(w).id = i /\ NewRow(w).hash = op[w].data /\ ~NewRow(w).deleted
  BY <1>1, <1>3, <1>4 DEF Row
<1>6. \A x \in Paths : row[x] # None => row[x].id # i
  BY <1>3, Zenon DEF UsedIds
<1>7. row'[Path(w)] = NewRow(w) /\ \A x \in Paths \ {Path(w)} : row'[x] = row[x]
  BY <1>1, Zenon DEF RowsTyped
<1>8. row' \in [Paths -> Row \cup {None}]
  BY <1>1, <1>5, Zenon DEF RowsTyped
<1>9. RowsTyped'
  BY <1>1, <1>5, <1>6, <1>7, <1>8 DEF RowsTyped
<1> QED BY <1>3, <1>5, <1>7, <1>9, Zenon

-----------------------------------------------------------------------------
(***************************************************************************)
(* The row a request has read, through the steps of others.                *)
(***************************************************************************)
LEMMA DistinctPaths ==
  ASSUME StoreInv, NEW v \in Workers, NEW w \in Workers \ {v}, pc[v] # "idle", pc[w] # "idle"
  PROVE  Path(v) # Path(w)
BY Zenon DEF StoreInv, At

LEMMA OwnFrame ==
  ASSUME StoreInv, NEW v \in Workers, meta'[v] = meta[v], op'[v] = op[v],
         meta[v] # None => \A p \in Paths : HasId(p, meta[v].id)' => row'[p] = row[p]
  PROVE  Own(v)'
<1> SUFFICES ASSUME meta[v] # None, NEW p \in Paths, HasId(p, meta[v].id)'
             PROVE  p = Path(v)' /\ Live(p)' /\ row'[p].hash = meta'[v].hash
  BY Zenon DEF Own
<1>1. row'[p] = row[p] /\ HasId(p, meta[v].id)
  BY Zenon DEF HasId
<1>2. p = Path(v) /\ Live(p) /\ row[p].hash = meta[v].hash
  BY <1>1, Zenon DEF StoreInv, Own
<1> QED BY <1>1, <1>2, Zenon DEF Path, Live

(* Nobody else has read the row that a request has read. *)
LEMMA OwnAlone ==
  ASSUME StoreInv, NEW w \in Workers, meta[w] # None, NEW v \in Workers \ {w}, meta[v] # None,
         NEW p \in Paths, HasId(p, meta[w].id)
  PROVE  meta[v].id # meta[w].id
<1>1. pc[v] # "idle" /\ pc[w] # "idle"
  BY Zenon DEF StoreInv, At
<1> QED BY <1>1, DistinctPaths DEF StoreInv, Own

(* The steps that leave the rows alone. *)
LEMMA RowsStay ==
  ASSUME StoreInv, NEW w \in Workers, OthersStay(w), row' = row,
         meta'[w] = None \/ (meta'[w] = meta[w] /\ op'[w] = op[w])
  PROVE  RowsTyped' /\ (\A v \in Workers : Own(v)') /\ Files' = Files
<1>1. RowsTyped' /\ Files' = Files
  BY Zenon DEF StoreInv, TypeOK, RowsTyped, Files, Live
<1>2. ASSUME NEW v \in Workers \ {w} PROVE Own(v)'
  BY OwnFrame, Zenon DEF OthersStay
<1>3. Own(w)'
  <2>1. CASE meta'[w] = None
    BY <2>1, Zenon DEF Own
  <2>2. CASE meta'[w] = meta[w] /\ op'[w] = op[w]
    BY <2>2, OwnFrame, Zenon
  <2> QED BY <2>1, <2>2, Zenon
<1> QED BY <1>1, <1>2, <1>3, Zenon

-----------------------------------------------------------------------------
(* The live rows as a map of files *)

LEMMA FilesPut ==
  ASSUME NEW p \in Paths, Live(p)', row'[p].hash \in Contents, \A x \in Paths \ {p} : row'[x] = row[x]
  PROVE  Map!Next
<1>1. Files' = [Files EXCEPT ![p] = row'[p].hash]
  BY Zenon DEF Files, Live
<1> QED BY <1>1, Zenon DEF Map!Next, Map!Put

LEMMA FilesDelete ==
  ASSUME RowsTyped, NEW p \in Paths, ~Live(p)', \A x \in Paths \ {p} : row'[x] = row[x]
  PROVE  [Map!Next]_Files
<1>1. Files' = [Files EXCEPT ![p] = None]
  BY Zenon DEF Files, Live
<1>2. CASE Files[p] = None
  <2>1. Files' = Files
    BY <1>1, <1>2, Zenon DEF Files
  <2> QED BY <2>1, Zenon
<1>3. CASE Files[p] # None
  BY <1>1, <1>3, Zenon DEF Map!Next, Map!Delete
<1> QED BY <1>2, <1>3, Zenon

LEMMA FilesRename ==
  ASSUME RowsTyped, NEW p \in Paths, NEW q \in Paths \ {p}, Live(p), row[q] = None, row'[p] = None,
         Live(q)', row'[q].hash = row[p].hash, \A x \in Paths \ {p, q} : row'[x] = row[x]
  PROVE  Map!Next
<1>1. row[p] \in Row
  BY Zenon DEF RowsTyped, Live
<1>2. row[p].hash \in Contents /\ row[p].hash # None
  BY <1>1, StoreConstants, Zenon DEF Row
<1>3. Files[p] = row[p].hash /\ Files[q] = None
  BY Zenon DEF Files, Live
<1>4. Files' = [Files EXCEPT ![p] = None, ![q] = row[p].hash]
  BY Zenon DEF Files, Live
<1> QED BY <1>2, <1>3, <1>4, Zenon DEF Map!Next, Map!Rename

-----------------------------------------------------------------------------
(* The statements of a request that returns after them *)

LEMMA UpdateReturns ==
  ASSUME StoreInv, setting' = setting, NEW w \in Workers, meta[w] # None,
         NEW q \in Paths, NEW hash \in Contents,
         q = Path(w) \/ (~Conflict(meta[w].id, q) /\ hash = meta[w].hash),
         row' = Updated(meta[w].id, q, hash), Return(w)
  PROVE  /\ RowsTyped' /\ WorkersTyped' /\ (\A v \in Workers : At(v)' /\ Own(v)')
         /\ [Map!Next]_Files
<1> DEFINE id == meta[w].id
<1>1. RowsTyped /\ meta[w] \in Row /\ pc[w] # "idle"
  BY DEF StoreInv, TypeOK, RowsTyped, At
<1>2. id \in Ids
  BY <1>1, Zenon DEF Row
<1>3. \A p \in Paths : HasId(p, id) => p = Path(w) /\ Live(p) /\ row[p].hash = meta[w].hash
  BY Zenon DEF StoreInv, Own
<1>4. ~Conflict(id, q)
  BY <1>3, Zenon DEF Conflict
<1> HIDE DEF id
<1>5. /\ RowsTyped'
      /\ \/ row' = row /\ \A x \in Paths : ~HasId(x, id)
         \/ \E p \in Paths :
              /\ HasId(p, id) /\ (p # q => row[q] = None /\ row'[p] = None)
              /\ row'[q] = [id |-> id, hash |-> hash, deleted |-> FALSE, old |-> FALSE]
              /\ \A x \in Paths \ {p, q} : row'[x] = row[x]
  BY <1>1, <1>2, <1>4, UpdateEffect DEF id
<1>6. WorkersTyped' /\ (\A v \in Workers : At(v)') /\ OthersStay(w) /\ meta'[w] = None
  BY <1>1, ReturnEffect, Zenon
<1>7. CASE row' = row
  <2>1. (\A v \in Workers : Own(v)') /\ Files' = Files
    BY <1>6, <1>7, RowsStay, Zenon
  <2> QED BY <1>5, <1>6, <2>1, Zenon
<1>8. ASSUME NEW p \in Paths, HasId(p, id), p # q => row[q] = None /\ row'[p] = None,
             row'[q] = [id |-> id, hash |-> hash, deleted |-> FALSE, old |-> FALSE],
             \A x \in Paths \ {p, q} : row'[x] = row[x]
      PROVE  (\A v \in Workers : Own(v)') /\ [Map!Next]_Files
  <2>1. p = Path(w) /\ Live(p) /\ row[p].hash = meta[w].hash
    BY <1>3, <1>8, Zenon
  <2>2. row'[q] # None /\ row'[q].id = id /\ row'[q].hash = hash /\ row'[q].deleted = FALSE
    <3>1. row'[q] \in Row
      BY <1>2, <1>8 DEF Row
    <3>2. row'[q] # None
      BY <3>1, StoreConstants, Zenon
    <3>3. row'[q].id = id /\ row'[q].hash = hash /\ row'[q].deleted = FALSE
      BY <1>8
    <3> QED BY <3>2, <3>3, Zenon
  <2>3. ASSUME NEW v \in Workers \ {w} PROVE Own(v)'
    <3>1. ASSUME meta[v] # None, NEW x \in Paths, HasId(x, meta[v].id)' PROVE row'[x] = row[x]
      <4>1. meta[v].id # id
        BY <1>8, <3>1, OwnAlone, Zenon DEF id
      <4>2. x # q /\ x # p
        BY <1>6, <1>8, <2>2, <3>1, <4>1 DEF HasId, OthersStay
      <4> QED BY <1>8, <4>2, Zenon
    <3> QED BY <1>6, <3>1, OwnFrame, Zenon DEF OthersStay
  <2>4. Own(w)'
    BY <1>6, Zenon DEF Own
  <2>5. [Map!Next]_Files
    <3>1. CASE p = q
      <4>1. \A x \in Paths \ {q} : row'[x] = row[x]
        BY <1>8, <3>1, Zenon
      <4>2. Live(q)' /\ row'[q].hash \in Contents
        BY <2>2, Zenon DEF Live
      <4>3. Map!Next
        BY <4>1, <4>2, FilesPut, Zenon
      <4> QED BY <4>3, Zenon
    <3>2. CASE p # q
      <4>1. hash = row[p].hash
        BY <2>1, <3>2, Zenon
      <4> QED BY <1>1, <1>8, <2>1, <2>2, <3>2, <4>1, FilesRename, Zenon DEF Live
    <3> QED BY <3>1, <3>2, Zenon
  <2> QED BY <2>3, <2>4, <2>5, Zenon
<1> QED BY <1>5, <1>6, <1>7, <1>8, Zenon

LEMMA DeleteReturns ==
  ASSUME StoreInv, setting' = setting, NEW w \in Workers, meta[w] # None,
         row' = SoftDeleted(meta[w].id), Return(w)
  PROVE  /\ RowsTyped' /\ WorkersTyped' /\ (\A v \in Workers : At(v)' /\ Own(v)')
         /\ [Map!Next]_Files
<1>1. RowsTyped /\ meta[w] \in Row /\ pc[w] # "idle" /\ op[w] \in Op /\ setting \in Settings
  BY DEF StoreInv, TypeOK, RowsTyped, At
<1>2. meta[w].id \in Ids /\ Path(w) \in Paths
  BY <1>1, OpTypes, Zenon DEF Row, Path
<1>3. /\ RowsTyped'
      /\ \A x \in Paths : ~HasId(x, meta[w].id) => row'[x] = row[x]
      /\ \A x \in Paths : HasId(x, meta[w].id) => ~Live(x)' /\ row'[x].id = meta[w].id
  BY <1>1, <1>2, SoftDeleteEffect, Zenon
<1>4. WorkersTyped' /\ (\A v \in Workers : At(v)') /\ OthersStay(w) /\ meta'[w] = None
  BY <1>1, ReturnEffect, Zenon
<1>5. ASSUME NEW v \in Workers \ {w} PROVE Own(v)'
  <2>1. ASSUME meta[v] # None, NEW x \in Paths, HasId(x, meta[v].id)' PROVE row'[x] = row[x]
    <3>1. CASE HasId(x, meta[w].id)
      <4>1. meta[v].id # meta[w].id
        BY <2>1, <3>1, OwnAlone, Zenon
      <4> QED BY <1>3, <1>4, <2>1, <3>1, <4>1, Zenon DEF HasId, OthersStay
    <3> QED BY <1>3, <3>1, Zenon
  <2> QED BY <1>4, <2>1, OwnFrame, Zenon DEF OthersStay
<1>6. Own(w)'
  BY <1>4, Zenon DEF Own
<1>7. \A x \in Paths : HasId(x, meta[w].id) => x = Path(w)
  BY Zenon DEF StoreInv, Own
<1>8. [Map!Next]_Files
  <2>1. CASE HasId(Path(w), meta[w].id)
    BY <1>1, <1>2, <1>3, <1>7, <2>1, FilesDelete, Zenon
  <2>2. CASE ~HasId(Path(w), meta[w].id)
    <3>1. Files' = Files
      BY <1>3, <1>7, <2>2, Zenon DEF Files, Live
    <3> QED BY <3>1, Zenon
  <2> QED BY <2>1, <2>2, Zenon
<1> QED BY <1>3, <1>4, <1>5, <1>6, <1>8, Zenon

LEMMA CreateReturns ==
  ASSUME StoreInv, setting' = setting, NEW w \in Workers, pc[w] # "idle", Ids \ UsedIds # {},
         row' = [row EXCEPT ![Path(w)] = NewRow(w)], Return(w)
  PROVE  /\ RowsTyped' /\ WorkersTyped' /\ (\A v \in Workers : At(v)' /\ Own(v)')
         /\ [Map!Next]_Files
<1>1. op[w] \in Op /\ setting \in Settings
  BY Zenon DEF StoreInv, TypeOK, At
<1>2. Path(w) \in Paths /\ op[w].data \in Contents
  BY <1>1, OpTypes, Zenon DEF Path
<1>3. /\ RowsTyped' /\ NewRow(w) \in Row /\ NewRow(w).hash = op[w].data /\ ~NewRow(w).deleted
      /\ row'[Path(w)] = NewRow(w) /\ \A x \in Paths \ {Path(w)} : row'[x] = row[x]
      /\ NewRow(w).id \notin UsedIds
  BY <1>1, NewRowEffect, Zenon
<1>4. WorkersTyped' /\ (\A v \in Workers : At(v)') /\ OthersStay(w) /\ meta'[w] = None
  BY ReturnEffect, Zenon
<1>5. ASSUME NEW v \in Workers \ {w} PROVE Own(v)'
  <2>1. ASSUME meta[v] # None, NEW x \in Paths, HasId(x, meta[v].id)' PROVE row'[x] = row[x]
    <3>1. meta[v].id \in UsedIds
      BY <2>1, Zenon DEF UsedIds
    <3>2. x # Path(w)
      BY <1>3, <1>4, <2>1, <3>1, Zenon DEF HasId, OthersStay
    <3> QED BY <1>3, <3>2, Zenon
  <2> QED BY <1>4, <2>1, OwnFrame, Zenon DEF OthersStay
<1>6. Own(w)'
  BY <1>4, Zenon DEF Own
<1>7. PICK p \in Paths : p = Path(w)
  BY <1>2, Zenon
<1>8. Map!Next
  <2>1. row'[p] # None
    BY <1>3, <1>7, StoreConstants, Zenon
  <2>2. Live(p)' /\ row'[p].hash \in Contents
    BY <1>2, <1>3, <1>7, <2>1, Zenon DEF Live
  <2> QED BY <1>3, <1>7, <2>2, FilesPut, Zenon
<1> QED BY <1>3, <1>4, <1>5, <1>6, <1>8, Zenon

-----------------------------------------------------------------------------
(* What a step has to show *)
Sound ==
  /\ RowsTyped' /\ WorkersTyped' /\ (\A v \in Workers : At(v)' /\ Own(v)')
  /\ [Map!Next]_Files

ObjectsTyped ==
  /\ object \in [Paths -> Contents \cup {None, "torn"}]
  /\ list \subseteq Ids \X Paths /\ purging \in (Ids \X Paths) \cup {None}

LEMMA WorkSound ==
  ASSUME StoreInv, setting' = setting, NEW w \in Workers, Work(w) \/ Crash(w)
  PROVE  Sound /\ ObjectsTyped'
<1>a. /\ RowsTyped /\ WorkersTyped /\ ObjectsTyped /\ At(w) /\ Own(w) /\ setting \in Settings
      /\ pc[w] # "idle"
  BY Zenon DEF StoreInv, TypeOK, RowsTyped, WorkersTyped, ObjectsTyped, Work, Lookup, Write, Record, Restore,
         Insert, Undo, DeleteObject, DeleteRow, RenameCheck, RenameObject, RenameRow, RenameRollback, Crash
<1>b. /\ op[w] \in Op /\ Path(w) \in Paths /\ op[w].target \in Paths /\ op[w].data \in Contents
      /\ Labelled(pc[w], op[w], meta[w]) /\ meta[w] \in Row \cup {None}
  BY <1>a, OpTypes, Zenon DEF At, Path, WorkersTyped
<1>c. ASSUME Return(w), UNCHANGED row PROVE Sound
  <2>1. WorkersTyped' /\ (\A v \in Workers : At(v)') /\ OthersStay(w) /\ meta'[w] = None
    BY <1>a, <1>c, ReturnEffect, Zenon
  <2> QED BY <1>c, <2>1, RowsStay, Zenon DEF Sound
<1>d. ASSUME NEW label \in Label \ {"idle"}, Continue(w, label), Labelled(label, op[w], meta[w]), UNCHANGED row
      PROVE  Sound
  <2>1. WorkersTyped' /\ (\A v \in Workers : At(v)') /\ OthersStay(w) /\ meta' = meta
    BY <1>a, <1>d, ContinueOn, Zenon
  <2>2. op' = op
    BY <1>d, Zenon DEF Continue
  <2> QED BY <1>d, <2>1, <2>2, RowsStay, Zenon DEF Sound
<1>e. ASSUME UNCHANGED cleanup, object' \in [Paths -> Contents \cup {None, "torn"}] PROVE ObjectsTyped'
  BY <1>a, <1>e, Zenon DEF ObjectsTyped, cleanup
<1>f. ASSUME UNCHANGED <<object, cleanup>> PROVE ObjectsTyped'
  BY <1>a, <1>f, Zenon DEF ObjectsTyped, cleanup
<1>g. \A p \in Paths : Removed(p) \in [Paths -> Contents \cup {None, "torn"}]
  BY <1>a, Zenon DEF Removed, ObjectsTyped
<1>h. \A p, q \in Paths : Moved(p, q) \in [Paths -> Contents \cup {None, "torn"}]
  BY <1>a, Zenon DEF Moved, ObjectsTyped
<1>1. CASE Lookup(w)
  <2>1. ObjectsTyped' /\ row' = row
    BY <1>1, <1>f, Zenon DEF Lookup
  <2>2. PICK m \in Found(Path(w)) :
          IF m = None /\ op[w].kind \in {"delete", "rename"}
            THEN Return(w)
            ELSE /\ meta' = [meta EXCEPT ![w] = m]
                 /\ Goto(w, CASE op[w].kind = "upload" -> "write"
                              [] op[w].kind = "stream" -> "record"
                              [] op[w].kind = "delete" -> "remove"
                              [] op[w].kind = "rename" -> "target")
                 /\ UNCHANGED <<lock, op>>
    BY <1>1, Zenon DEF Lookup
  <2>3. m \in Row \cup {None} /\ (m # None => m = row[Path(w)] /\ Live(Path(w)))
    BY <1>a, <1>b, Zenon DEF Found, RowsTyped
  <2>4. CASE m = None /\ op[w].kind \in {"delete", "rename"}
    BY <1>c, <2>1, <2>2, <2>4, Zenon
  <2>5. CASE ~(m = None /\ op[w].kind \in {"delete", "rename"})
    <3> DEFINE label == CASE op[w].kind = "upload" -> "write"
                          [] op[w].kind = "stream" -> "record"
                          [] op[w].kind = "delete" -> "remove"
                          [] op[w].kind = "rename" -> "target"
    <3>1. op[w].kind \in {"upload", "stream", "delete", "rename"}
      BY <1>a, <1>b, OpTypes, StoreConstants, Zenon DEF Setting, Kinds
    <3>2. label \in Label \ {"idle"} /\ Labelled(label, op[w], m)
      BY <2>5, <3>1, Zenon DEF Label, Labelled
    <3>3. meta' = [meta EXCEPT ![w] = m] /\ Goto(w, label) /\ UNCHANGED <<lock, op>>
      BY <2>2, <2>5, Zenon
    <3> HIDE DEF label
    <3>4. WorkersTyped' /\ (\A v \in Workers : At(v)') /\ OthersStay(w) /\ meta'[w] = m
      BY <1>a, <2>3, <3>2, <3>3, ContinueEffect, Zenon
    <3>5. RowsTyped' /\ Files' = Files
      BY <1>a, <2>1, Zenon DEF RowsTyped, Files, Live
    <3>6. \A v \in Workers \ {w} : Own(v)'
      BY <2>1, <3>4, OwnFrame, Zenon DEF OthersStay
    <3>7. Own(w)'
      <4> SUFFICES ASSUME m # None, NEW p \in Paths, HasId(p, m.id)
                   PROVE  p = Path(w) /\ Live(p) /\ row[p].hash = m.hash
        BY <2>1, <3>3, <3>4, Zenon DEF Own, HasId, Live, Path
      <4> QED BY <1>a, <1>b, <2>3, Zenon DEF RowsTyped, HasId, Live
    <3> QED BY <2>1, <3>4, <3>5, <3>6, <3>7, Zenon DEF Sound
  <2> QED BY <2>4, <2>5, <2>1, Zenon
<1>2. CASE Write(w)
  <2>1. row' = row /\ UNCHANGED cleanup /\ op[w].kind \in {"upload", "stream"}
    BY <1>2, <1>b, Zenon DEF Write, Labelled
  <2>2. CASE object' = Stored(Path(w), op[w].data) /\ Continue(w, IF op[w].kind = "upload" THEN "record" ELSE "lookup")
    <3>1. object' \in [Paths -> Contents \cup {None, "torn"}]
      BY <1>a, <1>b, <2>2, Zenon DEF Stored, ObjectsTyped
    <3>2. CASE op[w].kind = "upload"
      <4>1. Labelled("record", op[w], meta[w]) /\ "record" \in Label \ {"idle"}
        BY <3>2, Zenon DEF Labelled, Label
      <4> QED BY <1>d, <1>e, <2>1, <2>2, <3>1, <3>2, <4>1, Zenon
    <3>3. CASE op[w].kind # "upload"
      <4>1. meta[w] = None
        BY <1>2, <1>b, <2>1, <3>3, Zenon DEF Write, Labelled
      <4>2. Labelled("lookup", op[w], meta[w]) /\ "lookup" \in Label \ {"idle"}
        BY <4>1, Zenon DEF Labelled, Label
      <4> QED BY <1>d, <1>e, <2>1, <2>2, <3>1, <3>3, <4>2, Zenon
    <3> QED BY <3>2, <3>3, Zenon
  <2>3. CASE object' \in Interrupted(Path(w)) /\ Return(w)
    <3>1. object' \in [Paths -> Contents \cup {None, "torn"}]
      BY <1>a, <1>b, <2>3, Zenon DEF Interrupted, ObjectsTyped
    <3> QED BY <1>c, <1>e, <2>1, <2>3, <3>1, Zenon
  <2> QED BY <1>2, <2>2, <2>3, Zenon DEF Write
<1>3. CASE Record(w)
  <2>1. ObjectsTyped' /\ op[w].kind \in {"upload", "stream"}
    BY <1>3, <1>b, <1>f, Zenon DEF Record, Labelled
  <2>2. CASE meta[w] # None /\ Return(w) /\ row' = Updated(meta[w].id, Path(w), op[w].data)
    BY <1>b, <2>1, <2>2, UpdateReturns, Zenon DEF Sound
  <2>3. CASE Return(w) /\ UNCHANGED row
    BY <1>c, <2>1, <2>3, Zenon
  <2>4. ASSUME meta[w] = None, UNCHANGED row, NEW label \in {"restore", "insert"}, Continue(w, label)
        PROVE  Sound
    <3>1. Labelled(label, op[w], meta[w]) /\ label \in Label \ {"idle"}
      BY <2>1, <2>4, Zenon DEF Labelled, Label
    <3> QED BY <1>d, <2>4, <3>1, Zenon
  <2> QED BY <1>3, <2>1, <2>2, <2>3, <2>4, Zenon DEF Record
<1>4. CASE Restore(w)
  <2>1. ObjectsTyped' /\ op[w].kind \in {"upload", "stream"} /\ meta[w] = None
    BY <1>4, <1>b, <1>f, Zenon DEF Restore, Labelled
  <2>2. CASE /\ row' = [row EXCEPT ![Path(w)] = IF @ = None THEN None ELSE NewRow(w)]
             /\ Ids \ UsedIds # {} /\ Return(w)
    <3>1. CASE row[Path(w)] = None
      <4>1. row' = row
        BY <1>a, <1>b, <2>2, <3>1, Zenon DEF RowsTyped
      <4> QED BY <1>c, <2>1, <2>2, <4>1, Zenon
    <3>2. CASE row[Path(w)] # None
      <4>1. row' = [row EXCEPT ![Path(w)] = NewRow(w)]
        BY <2>2, <3>2, Zenon
      <4> QED BY <1>a, <2>1, <2>2, <4>1, CreateReturns, Zenon DEF Sound
    <3> QED BY <3>1, <3>2, Zenon
  <2>3. CASE Continue(w, "undo") /\ UNCHANGED row
    <3>1. Labelled("undo", op[w], meta[w]) /\ "undo" \in Label \ {"idle"}
      BY <2>1, Zenon DEF Labelled, Label
    <3> QED BY <1>d, <2>1, <2>3, <3>1, Zenon
  <2> QED BY <1>4, <2>2, <2>3, Zenon DEF Restore
<1>5. CASE Insert(w)
  <2>1. ObjectsTyped' /\ op[w].kind \in {"upload", "stream"} /\ meta[w] = None
    BY <1>5, <1>b, <1>f, Zenon DEF Insert, Labelled
  <2>2. CASE row' = [row EXCEPT ![Path(w)] = NewRow(w)] /\ Ids \ UsedIds # {} /\ Return(w)
    BY <1>a, <2>1, <2>2, CreateReturns, Zenon DEF Sound
  <2>3. CASE Continue(w, "undo") /\ UNCHANGED row
    <3>1. Labelled("undo", op[w], meta[w]) /\ "undo" \in Label \ {"idle"}
      BY <2>1 DEF Labelled, Label
    <3> QED BY <1>d, <2>1, <2>3, <3>1
  <2> QED BY <1>5, <2>2, <2>3, Zenon DEF Insert
<1>6. CASE Undo(w)
  <2>1. ObjectsTyped'
    BY <1>6, <1>b, <1>e, <1>f, <1>g, Zenon DEF Undo
  <2> QED BY <1>6, <1>c, <2>1, Zenon DEF Undo
<1>7. CASE DeleteObject(w)
  <2>1. ObjectsTyped' /\ UNCHANGED row
    BY <1>7, <1>b, <1>e, <1>f, <1>g, Zenon DEF DeleteObject
  <2>2. Labelled("unrecord", op[w], meta[w]) /\ "unrecord" \in Label \ {"idle"}
    BY <1>7, <1>b, Zenon DEF DeleteObject, Labelled, Label
  <2> QED BY <1>7, <1>c, <1>d, <2>1, <2>2, Zenon DEF DeleteObject
<1>8. CASE DeleteRow(w)
  <2>1. ObjectsTyped' /\ meta[w] # None
    BY <1>8, <1>b, <1>f, Zenon DEF DeleteRow, Labelled
  <2>2. CASE row' = SoftDeleted(meta[w].id)
    BY <1>8, <2>1, <2>2, DeleteReturns, Zenon DEF DeleteRow, Sound
  <2> QED BY <1>8, <1>c, <2>1, <2>2, Zenon DEF DeleteRow
<1>9. CASE RenameCheck(w)
  <2>1. ObjectsTyped' /\ UNCHANGED row
    BY <1>9, <1>f, Zenon DEF RenameCheck
  <2>2. Labelled("move", op[w], meta[w]) /\ "move" \in Label \ {"idle"}
    BY <1>9, <1>b, Zenon DEF RenameCheck, Labelled, Label
  <2> QED BY <1>9, <1>c, <1>d, <2>1, <2>2, Zenon DEF RenameCheck
<1>10. CASE RenameObject(w)
  <2>1. ObjectsTyped' /\ UNCHANGED row
    BY <1>10, <1>b, <1>e, <1>f, <1>h, Zenon DEF RenameObject
  <2>2. Labelled("repath", op[w], meta[w]) /\ "repath" \in Label \ {"idle"}
    BY <1>10, <1>b, Zenon DEF RenameObject, Labelled, Label
  <2> QED BY <1>10, <1>c, <1>d, <2>1, <2>2, Zenon DEF RenameObject
<1>11. CASE RenameRow(w)
  <2>1. ObjectsTyped' /\ meta[w] # None /\ meta[w] \in Row
    BY <1>11, <1>b, <1>f, Zenon DEF RenameRow, Labelled
  <2>2. CASE ~Conflict(meta[w].id, op[w].target) /\ Return(w)
             /\ row' = Updated(meta[w].id, op[w].target, meta[w].hash)
    <3>1. meta[w].hash \in Contents
      BY <2>1, Zenon DEF Row
    <3> QED BY <1>b, <2>1, <2>2, <3>1, UpdateReturns, Zenon DEF Sound
  <2>3. Labelled("rollback", op[w], meta[w]) /\ "rollback" \in Label \ {"idle"}
    BY <1>11, <1>b, Zenon DEF RenameRow, Labelled, Label
  <2> QED BY <1>11, <1>d, <2>1, <2>2, <2>3, Zenon DEF RenameRow
<1>12. CASE RenameRollback(w)
  <2>1. ObjectsTyped'
    BY <1>12, <1>b, <1>e, <1>f, <1>h, Zenon DEF RenameRollback
  <2> QED BY <1>12, <1>c, <2>1, Zenon DEF RenameRollback
<1>13. CASE Crash(w)
  BY <1>13, <1>c, <1>f, Zenon DEF Crash
<1> QED
  BY <1>1, <1>2, <1>3, <1>4, <1>5, <1>6, <1>7, <1>8, <1>9, <1>10, <1>11, <1>12, <1>13, Zenon DEF Work

LEMMA BeginSound ==
  ASSUME StoreInv, setting' = setting, NEW w \in Workers, NEW o \in Op, Begin(w, o)
  PROVE  Sound /\ ObjectsTyped'
<1>1. /\ RowsTyped /\ WorkersTyped /\ ObjectsTyped /\ (\A v \in Workers : At(v)) /\ setting \in Settings
      /\ Op' = Op
  BY Zenon DEF StoreInv, TypeOK, RowsTyped, WorkersTyped, ObjectsTyped, Op, Kinds
<1>2. /\ o.path \in Paths /\ (o.kind = "rename" => o.target # o.path) /\ lock[o.path] = None
      /\ meta[w] = None /\ meta' = meta /\ row' = row /\ UNCHANGED <<object, cleanup>>
  BY <1>1, OpTypes, Zenon DEF Begin, MaySend, At
<1>3. /\ WorkersTyped' /\ OthersStay(w) /\ op'[w] = o /\ lock'[o.path] = w
      /\ pc'[w] = IF o.kind = "stream" THEN "write" ELSE "lookup"
  BY <1>1, <1>2, Zenon DEF Begin, Goto, WorkersTyped, OthersStay, Label
<1>4. At(w)'
  BY <1>1, <1>2, <1>3, Zenon DEF At, Path, Labelled
<1>5. ASSUME NEW v \in Workers \ {w}, pc[v] # "idle" PROVE lock'[Path(v)] = v
  BY <1>1, <1>2, <1>5, StoreConstants, OpTypes DEF At, Path, Begin, WorkersTyped
<1>6. ASSUME NEW v \in Workers \ {w} PROVE At(v)'
  BY <1>1, <1>3, <1>5 DEF At, OthersStay, Path
<1>7. RowsTyped' /\ (\A v \in Workers : Own(v)') /\ Files' = Files
  BY <1>2, <1>3, RowsStay, Zenon
<1>8. ObjectsTyped'
  BY <1>1, <1>2, Zenon DEF ObjectsTyped, cleanup
<1> QED BY <1>3, <1>4, <1>6, <1>7, <1>8, Zenon DEF Sound

(***************************************************************************)
(* Time and the cleanup, which take no lock.                               *)
(***************************************************************************)
LEMMA CleanSound ==
  ASSUME StoreInv, setting' = setting, (\E p \in Paths : Age(p)) \/ Clean
  PROVE  Sound /\ ObjectsTyped'
<1>a. /\ RowsTyped /\ WorkersTyped /\ ObjectsTyped /\ (\A v \in Workers : At(v)) /\ Op' = Op
      /\ \A p \in Paths : Removed(p) \in [Paths -> Contents \cup {None, "torn"}]
  BY Zenon DEF StoreInv, TypeOK, RowsTyped, WorkersTyped, ObjectsTyped, Op, Kinds, Removed
<1>b. UNCHANGED <<lock, pc, op, meta>>
  BY Zenon DEF Age, Clean, CleanList, CleanObject, CleanRow
<1>c. WorkersTyped' /\ (\A v \in Workers : At(v)')
  BY <1>a, <1>b, Zenon DEF WorkersTyped, At, Path
<1>d. ASSUME row' = row PROVE Sound
  <2>1. RowsTyped' /\ Files' = Files
    BY <1>a, <1>d, Zenon DEF RowsTyped, Files, Live
  <2>2. ASSUME NEW v \in Workers PROVE Own(v)'
    BY <1>b, <1>d, OwnFrame, Zenon
  <2> QED BY <1>c, <2>1, <2>2, Zenon DEF Sound
<1>1. ASSUME NEW p \in Paths, Age(p) PROVE Sound /\ ObjectsTyped'
  <2>1. /\ RowsTyped' /\ (\A x \in Paths \ {p} : row'[x] = row[x])
        /\ ~Live(p) /\ ~Live(p)' /\ row[p] # None /\ row'[p].id = row[p].id
    BY <1>a, <1>1, AgeEffect, Zenon
  <2>2. ASSUME NEW v \in Workers PROVE Own(v)'
    <3>1. ASSUME meta[v] # None, NEW x \in Paths, HasId(x, meta[v].id)' PROVE row'[x] = row[x]
      <4>1. CASE x = p
        <5>1. HasId(p, meta[v].id)
          BY <1>b, <2>1, <3>1, <4>1, Zenon DEF HasId
        <5> QED BY <2>1, <3>1, <5>1, Zenon DEF StoreInv, Own
      <4> QED BY <2>1, <4>1, Zenon
    <3> QED BY <1>b, <3>1, OwnFrame, Zenon
  <2>3. [Map!Next]_Files
    BY <1>a, <2>1, FilesDelete, Zenon
  <2>4. ObjectsTyped'
    BY <1>a, <1>1, Zenon DEF Age, ObjectsTyped, cleanup
  <2> QED BY <1>c, <2>1, <2>2, <2>3, <2>4, Zenon DEF Sound
<1>2. CASE CleanList
  <2>1. \A p \in Paths : row[p] # None => row[p].id \in Ids
    BY <1>a, Zenon DEF RowsTyped, Row
  <2>2. list' \subseteq Ids \X Paths
    BY <1>2, <2>1 DEF CleanList, Deleted
  <2>3. ObjectsTyped'
    BY <1>a, <1>2, <2>2, Zenon DEF CleanList, ObjectsTyped
  <2> QED BY <1>2, <1>d, <2>3, Zenon DEF CleanList
<1>3. ASSUME NEW x \in list, CleanObject(x) PROVE Sound /\ ObjectsTyped'
  <2>1. x \in Ids \X Paths /\ x[2] \in Paths
    BY <1>a, Zenon DEF ObjectsTyped
  <2>2. ObjectsTyped'
    BY <1>a, <1>3, <2>1, Zenon DEF CleanObject, ObjectsTyped
  <2> QED BY <1>3, <1>d, <2>2, Zenon DEF CleanObject
<1>4. CASE CleanRow
  <2>1. ObjectsTyped'
    BY <1>a, <1>4, Zenon DEF CleanRow, ObjectsTyped
  <2>2. CASE row' = Purged(purging[1])
    <3>1. /\ RowsTyped'
          /\ \A x \in Paths : ~HasId(x, purging[1]) => row'[x] = row[x]
          /\ \A x \in Paths : HasId(x, purging[1]) => row'[x] = None
      BY <1>a, <2>2, PurgeEffect, Zenon
    <3>2. ASSUME NEW v \in Workers PROVE Own(v)'
      BY <1>b, <3>1, OwnFrame, Zenon DEF HasId
    <3>3. [Map!Next]_Files
      <4>1. ASSUME NEW p \in Paths, HasId(p, purging[1]) PROVE [Map!Next]_Files
        <5>1. \A x \in Paths \ {p} : row'[x] = row[x]
          BY <1>a, <3>1, <4>1 DEF RowsTyped, HasId
        <5>2. ~Live(p)'
          BY <3>1, <4>1, Zenon DEF Live
        <5> QED BY <1>a, <5>1, <5>2, FilesDelete, Zenon
      <4>2. CASE \A p \in Paths : ~HasId(p, purging[1])
        <5>1. Files' = Files
          BY <3>1, <4>2, Zenon DEF Files, Live
        <5> QED BY <5>1, Zenon
      <4> QED BY <4>1, <4>2, Zenon
    <3> QED BY <1>c, <2>1, <3>1, <3>2, <3>3, Zenon DEF Sound
  <2> QED BY <1>4, <1>d, <2>1, <2>2, Zenon DEF CleanRow
<1> QED BY <1>1, <1>2, <1>3, <1>4, Zenon DEF Clean

LEMMA StoreStep == StoreInv /\ [Next]_vars => StoreInv' /\ [Map!Next]_Files
<1> SUFFICES ASSUME StoreInv, [Next]_vars PROVE StoreInv' /\ [Map!Next]_Files
  BY Zenon
<1>0. setting' = setting /\ setting \in Settings
  BY SettingFixed, Zenon DEF StoreInv, TypeOK
<1>1. ASSUME Sound, ObjectsTyped' PROVE StoreInv' /\ [Map!Next]_Files
  BY <1>0, <1>1, Zenon DEF Sound, ObjectsTyped, RowsTyped, WorkersTyped, StoreInv, TypeOK
<1>2. CASE UNCHANGED vars
  <2>1. Op' = Op /\ Files' = Files
    BY <1>0, <1>2, Zenon DEF Op, Kinds, Files, Live, vars
  <2>2. TypeOK'
    BY <1>2, <2>1, Zenon DEF vars, StoreInv, TypeOK
  <2>3. \A w \in Workers : At(w)' /\ Own(w)'
    BY <1>2, <2>1 DEF vars, StoreInv, At, Own, Path, HasId, Live
  <2> QED BY <2>1, <2>2, <2>3, Zenon DEF StoreInv
<1> QED BY <1>0, <1>1, <1>2, WorkSound, BeginSound, CleanSound, Zenon DEF Next

LEMMA InitHolds == Init => StoreInv /\ Map!Init
BY StoreConstants DEF Init, StoreInv, TypeOK, At, Own, Label, Map!Init, Files, Live

(***************************************************************************)
(* The rows keep distinct ids, a request holds the lock of its path, and   *)
(* the row that it read is there unchanged or not at all.                  *)
(***************************************************************************)
THEOREM StoreInvariant == Spec => []StoreInv
BY InitHolds, StoreStep, PTL DEF Spec

(***************************************************************************)
(* Every variable keeps its type, and the id of a row is that of no other. *)
(***************************************************************************)
THEOREM TypeCorrect == Spec => []TypeOK
<1>1. StoreInv => TypeOK
  BY Zenon DEF StoreInv
<1> QED BY StoreInvariant, <1>1, PTL

(***************************************************************************)
(* UploadFile, DeleteFile, RenameFile and the cleanup implement a map of   *)
(* files, for any number of requests and paths, whatever fails.            *)
(***************************************************************************)
THEOREM FileMapImplemented == Spec => ImplementsFileMap
BY InitHolds, StoreStep, StoreInvariant, PTL DEF Spec, ImplementsFileMap, Map!Spec

-----------------------------------------------------------------------------
(***************************************************************************)
(* Uploads without deletions and renames: a request that found no row is   *)
(* right until it returns, and has written the object when it records it.  *)
(***************************************************************************)
UploadsOnly == Kinds \subseteq {"upload", "stream"} /\ "query" \notin Faults

Gone(w) ==
  /\ meta[w] = None
  /\ pc[w] \in {"record", "restore", "insert", "undo"} \/ (pc[w] = "write" /\ op[w].kind = "upload")
Written(w) ==
  pc[w] \in {"record", "restore", "insert"} \/ (pc[w] = "lookup" /\ op[w].kind = "stream")

Kept(p) == row[p] # None => ~row[p].deleted /\ object[p] # None
Known(w) == (Gone(w) => row[Path(w)] = None) /\ (Written(w) => object[Path(w)] # None)

LossInv ==
  UploadsOnly =>
    /\ \A p \in Paths : Kept(p)
    /\ \A w \in Workers : Known(w)
    /\ list = {} /\ purging = None

(* A step of a request on its own path *)
LEMMA LossFrame ==
  ASSUME StoreInv, \A p \in Paths : Kept(p), \A v \in Workers : Known(v),
         NEW w \in Workers, pc[w] # "idle", OthersStay(w),
         \A p \in Paths \ {Path(w)} : row'[p] = row[p] /\ object'[p] = object[p],
         NEW q \in Paths, q = Path(w), Kept(q)', Known(w)'
  PROVE  (\A p \in Paths : Kept(p)') /\ (\A v \in Workers : Known(v)')
<1>1. ASSUME NEW v \in Workers \ {w} PROVE Known(v)'
  <2>1. pc'[v] = pc[v] /\ op'[v] = op[v] /\ meta'[v] = meta[v]
    BY Zenon DEF OthersStay
  <2>2. CASE pc[v] = "idle"
    BY <2>1, <2>2, Zenon DEF Known, Gone, Written
  <2>3. CASE pc[v] # "idle"
    <3>1. Path(v) # Path(w) /\ Path(v) \in Paths
      BY <2>3, DistinctPaths, OpTypes, Zenon DEF StoreInv, TypeOK, At, Path
    <3> QED BY <2>1, <3>1 DEF Known, Gone, Written, Path
  <2> QED BY <2>2, <2>3, Zenon
<1>2. \A p \in Paths : Kept(p)'
  BY Zenon DEF Kept
<1> QED BY <1>1, <1>2, Zenon

LEMMA LossStep == StoreInv /\ LossInv /\ [Next]_vars => LossInv'
<1> SUFFICES ASSUME StoreInv, LossInv, [Next]_vars, UploadsOnly PROVE LossInv'
  BY SettingFixed, Zenon DEF LossInv, UploadsOnly, Kinds, Faults
<1>0. setting' = setting /\ setting \in Settings
  BY SettingFixed, Zenon DEF StoreInv, TypeOK
<1>a. (\A p \in Paths : Kept(p)) /\ (\A v \in Workers : Known(v)) /\ list = {} /\ purging = None
  BY Zenon DEF LossInv
<1>b. RowsTyped /\ WorkersTyped /\ ObjectsTyped /\ \A v \in Workers : At(v) /\ Own(v)
  BY Zenon DEF StoreInv, TypeOK, RowsTyped, WorkersTyped, ObjectsTyped
<1>c. ASSUME \A p \in Paths : Kept(p)', \A v \in Workers : Known(v)', UNCHANGED cleanup PROVE LossInv'
  BY <1>a, <1>c, Zenon DEF LossInv, cleanup
<1>d. ASSUME NEW w \in Workers, pc[w] # "idle"
      PROVE  /\ op[w] \in Op /\ Path(w) \in Paths /\ op[w].data \in Contents /\ Labelled(pc[w], op[w], meta[w])
             /\ op[w].kind \in {"upload", "stream"}
  BY <1>0, <1>b, <1>d, OpTypes, Zenon DEF At, Path, UploadsOnly
<1>e. ASSUME NEW w \in Workers, pc[w] # "idle", Return(w), UNCHANGED cleanup, NEW q \in Paths, q = Path(w),
             Kept(q)', \A p \in Paths \ {q} : row'[p] = row[p] /\ object'[p] = object[p]
      PROVE  LossInv'
  <2>1. OthersStay(w) /\ pc'[w] = "idle"
    BY <1>0, <1>e, ReturnEffect, Zenon
  <2>2. Known(w)'
    BY <2>1, Zenon DEF Known, Gone, Written
  <2> QED BY <1>a, <1>c, <1>e, <2>1, <2>2, LossFrame, Zenon
<1>f. ASSUME NEW w \in Workers, pc[w] # "idle", NEW label, Goto(w, label), UNCHANGED op,
             OthersStay(w), UNCHANGED <<row, cleanup>>, NEW q \in Paths, q = Path(w),
             Gone(w)' => row[q] = None, Written(w)' => object'[q] # None,
             object[q] # None => object'[q] # None,
             \A p \in Paths \ {q} : object'[p] = object[p]
      PROVE  LossInv'
  <2>1. Known(w)'
    BY <1>f, Zenon DEF Known, Path
  <2>2. Kept(q)'
    BY <1>a, <1>f, Zenon DEF Kept
  <2> QED BY <1>a, <1>c, <1>f, <2>1, <2>2, LossFrame, Zenon
<1>1. CASE UNCHANGED vars
  BY <1>1, <1>a, Zenon DEF vars, LossInv, Kept, Known, Gone, Written, Path
<1>2. ASSUME NEW w \in Workers, NEW o \in Op, Begin(w, o) PROVE LossInv'
  <2>1. /\ OthersStay(w) /\ UNCHANGED <<row, object, cleanup, meta>> /\ pc[w] = "idle"
        /\ op'[w] = o /\ pc'[w] = IF o.kind = "stream" THEN "write" ELSE "lookup"
    BY <1>2, <1>b, Zenon DEF Begin, Goto, OthersStay, WorkersTyped
  <2>2. Known(w)'
    BY <2>1, Zenon DEF Known, Gone, Written
  <2>3. \A v \in Workers \ {w} : Known(v)'
    BY <1>a, <2>1 DEF OthersStay, Known, Gone, Written, Path
  <2>4. \A p \in Paths : Kept(p)'
    BY <1>a, <2>1, Zenon DEF Kept
  <2> QED BY <1>c, <2>1, <2>2, <2>3, <2>4, Zenon
<1>3. ASSUME NEW w \in Workers, Work(w) \/ Crash(w) PROVE LossInv'
  <2>a. pc[w] # "idle"
    BY <1>3, Zenon DEF Work, Lookup, Write, Record, Restore, Insert, Undo, DeleteObject, DeleteRow, RenameCheck,
                RenameObject, RenameRow, RenameRollback, Crash
  <2>b. PICK q \in Paths : q = Path(w)
    BY <1>d, <2>a, Zenon
  <2>c. /\ op[w] \in Op /\ op[w].data \in Contents /\ Labelled(pc[w], op[w], meta[w])
        /\ op[w].kind \in {"upload", "stream"} /\ Kept(q) /\ Known(w)
    BY <1>a, <1>d, <2>a, Zenon
  <2>d. ASSUME Return(w), UNCHANGED <<row, object, cleanup>> PROVE LossInv'
    BY <1>e, <2>a, <2>b, <2>c, <2>d, Zenon DEF Kept
  <2>e. ASSUME NEW label \in Label \ {"idle"}, Continue(w, label)
        PROVE  OthersStay(w) /\ pc'[w] = label /\ meta' = meta /\ op' = op
    BY <1>b, <2>e, Zenon DEF Continue, Goto, WorkersTyped, OthersStay
  <2>1. CASE Lookup(w)
    <3>1. PICK m \in Found(q) :
            IF m = None /\ op[w].kind \in {"delete", "rename"}
              THEN Return(w)
              ELSE /\ meta' = [meta EXCEPT ![w] = m]
                   /\ Goto(w, CASE op[w].kind = "upload" -> "write"
                                [] op[w].kind = "stream" -> "record"
                                [] op[w].kind = "delete" -> "remove"
                                [] op[w].kind = "rename" -> "target")
                   /\ UNCHANGED <<lock, op>>
      BY <2>1, <2>b, Zenon DEF Lookup
    <3>2. UNCHANGED <<row, object, cleanup, op>>
      BY <2>1, <2>c, <3>1, Zenon DEF Lookup
    <3>3. /\ meta' = [meta EXCEPT ![w] = m]
          /\ Goto(w, IF op[w].kind = "upload" THEN "write" ELSE "record")
      BY <2>c, <3>1, Zenon
    <3>4. m = IF Live(q) THEN row[q] ELSE None
      BY Zenon DEF Found, UploadsOnly
    <3>5. /\ OthersStay(w) /\ meta'[w] = m
          /\ pc'[w] = IF op[w].kind = "upload" THEN "write" ELSE "record"
      BY <1>b, <3>2, <3>3, Zenon DEF WorkersTyped, Goto, OthersStay
    <3>6. Gone(w)' => row[q] = None
      BY <2>c, <3>4, <3>5, Zenon DEF Gone, Kept, Live
    <3>7. Written(w)' => object'[q] # None
      BY <2>1, <2>b, <2>c, <3>2, <3>5, Zenon DEF Lookup, Written, Known
    <3> QED BY <1>f, <2>a, <2>b, <3>2, <3>3, <3>5, <3>6, <3>7, Zenon
  <2>2. CASE Write(w)
    <3>1. UNCHANGED <<row, cleanup>>
      BY <2>2, Zenon DEF Write
    <3>2. CASE object' = Stored(Path(w), op[w].data) /\ Continue(w, IF op[w].kind = "upload" THEN "record" ELSE "lookup")
      <4>1. object'[q] # None /\ \A p \in Paths \ {q} : object'[p] = object[p]
        BY <1>b, <2>b, <2>c, <3>2, StoreConstants, Zenon DEF Stored, ObjectsTyped
      <4>2. PICK label \in Label \ {"idle"} : Continue(w, label) /\ label = IF op[w].kind = "upload" THEN "record" ELSE "lookup"
        BY <3>2, Zenon DEF Label
      <4>3. OthersStay(w) /\ pc'[w] = label /\ meta' = meta /\ op' = op
        BY <2>e, <4>2, Zenon
      <4>4. Gone(w)' => row[q] = None
        BY <2>2, <2>b, <2>c, <4>2, <4>3, Zenon DEF Write, Gone, Known
      <4> QED BY <1>f, <2>a, <2>b, <3>1, <4>1, <4>2, <4>3, <4>4, Zenon DEF Continue
    <3>3. CASE object' \in Interrupted(Path(w)) /\ Return(w)
      <4>1. (object[q] # None => object'[q] # None) /\ \A p \in Paths \ {q} : object'[p] = object[p]
        BY <1>b, <2>b, <3>3, StoreConstants DEF Interrupted, ObjectsTyped
      <4>2. Kept(q)'
        BY <2>c, <3>1, <4>1, Zenon DEF Kept
      <4> QED BY <1>e, <2>a, <2>b, <3>1, <3>3, <4>1, <4>2, Zenon
    <3> QED BY <2>2, <3>2, <3>3, Zenon DEF Write
  <2>3. CASE Record(w)
    <3>1. UNCHANGED <<object, cleanup>> /\ object[q] # None
      BY <2>3, <2>b, <2>c, Zenon DEF Record, Known, Written
    <3>2. CASE meta[w] # None /\ Return(w) /\ row' = Updated(meta[w].id, Path(w), op[w].data)
      <4>1. meta[w] \in Row /\ \A p \in Paths : HasId(p, meta[w].id) => p = q
        BY <1>b, <2>b, <3>2, Zenon DEF WorkersTyped, Own
      <4>2. meta[w].id \in Ids
        BY <4>1, Zenon DEF Row
      <4>3. ~Conflict(meta[w].id, q)
        BY <4>1, Zenon DEF Conflict
      <4>4. \/ row' = row
            \/ /\ row'[q] = [id |-> meta[w].id, hash |-> op[w].data, deleted |-> FALSE, old |-> FALSE]
               /\ \A x \in Paths \ {q} : row'[x] = row[x]
        BY <1>b, <2>b, <2>c, <3>2, <4>1, <4>2, <4>3, UpdateEffect
      <4>5. Kept(q)' /\ \A x \in Paths \ {q} : row'[x] = row[x]
        BY <2>c, <3>1, <4>4 DEF Kept
      <4> QED BY <1>e, <2>a, <2>b, <3>1, <3>2, <4>5, Zenon
    <3>3. CASE Return(w) /\ UNCHANGED row
      BY <2>d, <3>1, <3>3, Zenon
    <3>4. ASSUME meta[w] = None, UNCHANGED row, NEW label \in {"restore", "insert"}, Continue(w, label)
          PROVE  LossInv'
      <4>1. OthersStay(w) /\ pc'[w] = label /\ meta' = meta /\ op' = op
        BY <2>e, <3>4, Zenon DEF Label
      <4>2. row[q] = None
        BY <2>3, <2>b, <2>c, <3>4, Zenon DEF Record, Known, Gone
      <4> QED BY <1>f, <2>a, <2>b, <3>1, <3>4, <4>1, <4>2, Zenon DEF Continue
    <3> QED BY <2>3, <3>2, <3>3, <3>4, Zenon DEF Record
  <2>4. CASE Restore(w) \/ Insert(w)
    <3>1. UNCHANGED <<object, cleanup>> /\ object[q] # None /\ row[q] = None
      BY <2>4, <2>b, <2>c, Zenon DEF Restore, Insert, Known, Written, Gone, Labelled
    <3>2. CASE Continue(w, "undo") /\ UNCHANGED row
      <4>1. OthersStay(w) /\ pc'[w] = "undo" /\ meta' = meta /\ op' = op
        BY <2>e, <3>2, Zenon DEF Label
      <4> QED BY <1>f, <2>a, <2>b, <3>1, <3>2, <4>1, Zenon DEF Continue, Written
    <3>3. CASE row' = [row EXCEPT ![Path(w)] = NewRow(w)] /\ Ids \ UsedIds # {} /\ Return(w)
      <4>1. /\ row'[q] = NewRow(w) /\ ~NewRow(w).deleted
            /\ \A x \in Paths \ {q} : row'[x] = row[x]
        BY <2>b, <2>c, <3>3, NewRowEffect, Zenon
      <4>2. Kept(q)'
        BY <3>1, <4>1, Zenon DEF Kept
      <4> QED BY <1>e, <2>a, <2>b, <3>1, <3>3, <4>1, <4>2, Zenon
    <3>4. CASE row' = [row EXCEPT ![Path(w)] = IF @ = None THEN None ELSE NewRow(w)] /\ Return(w)
      <4>1. row' = row
        BY <1>b, <2>b, <3>1, <3>4, Zenon DEF RowsTyped
      <4> QED BY <2>d, <3>1, <3>4, <4>1, Zenon
    <3> QED BY <2>4, <3>2, <3>3, <3>4, Zenon DEF Restore, Insert
  <2>5. CASE Undo(w)
    <3>1. Return(w) /\ UNCHANGED <<row, cleanup>> /\ row[q] = None
      BY <2>5, <2>b, <2>c, Zenon DEF Undo, Known, Gone, Labelled
    <3>2. Kept(q)' /\ \A p \in Paths \ {q} : object'[p] = object[p]
      BY <1>b, <2>5, <2>b, <3>1, Zenon DEF Undo, Removed, Kept, ObjectsTyped
    <3> QED BY <1>e, <2>a, <2>b, <3>1, <3>2, Zenon
  <2>6. CASE Crash(w)
    BY <2>6, <2>d, Zenon DEF Crash
  <2>7. pc[w] \notin {"remove", "unrecord", "target", "move", "repath", "rollback"}
    BY <2>c, Zenon DEF Labelled
  <2> QED
    BY <1>3, <2>1, <2>2, <2>3, <2>4, <2>5, <2>6, <2>7, Zenon
       DEF Work, DeleteObject, DeleteRow, RenameCheck, RenameObject, RenameRow, RenameRollback
<1>4. ASSUME NEW p \in Paths, Age(p) PROVE FALSE
  BY <1>a, <1>4, Zenon DEF Age, Kept
<1>5. CASE CleanList
  <2>1. list' = {} /\ UNCHANGED <<row, object, pc, op, meta, purging>>
    BY <1>5, <1>a, Zenon DEF CleanList, Deleted, Kept
  <2> QED BY <1>a, <2>1, Zenon DEF LossInv, Kept, Known, Gone, Written, Path
<1>6. ASSUME (\E x \in list : CleanObject(x)) \/ CleanRow PROVE FALSE
  BY <1>a, <1>6, Zenon DEF CleanRow
<1> QED BY <1>1, <1>2, <1>3, <1>4, <1>5, <1>6, Zenon DEF Next, Clean

(***************************************************************************)
(* UploadFile and UploadFileFromReader lose no file, for any number of     *)
(* uploads, whichever write fails and whenever an instance stops.          *)
(***************************************************************************)
THEOREM UploadsLoseNothing == Spec => []NoFileLost
<1>1. Init => LossInv
  BY Zenon DEF Init, LossInv, Kept, Known, Gone, Written
<1>2. LossInv => NoFileLost
  BY Zenon DEF LossInv, UploadsOnly, NoFileLost, Lost, Live, Kept
<1> QED BY <1>1, <1>2, LossStep, StoreInvariant, PTL DEF Spec

-----------------------------------------------------------------------------
(***************************************************************************)
(* The two stores.  In a calm setting every path belongs to at most one    *)
(* request, as its path or as the new name of its rename; the stores agree *)
(* about the paths that belong to none, and about the others they differ   *)
(* by what the request has done so far.  The cleanup has listed deleted    *)
(* rows of paths that belong to none.                                      *)
(***************************************************************************)
Calm == Faults = {} /\ ~SharedTargets /\ ~Reuploads

Renames(w, p) == op[w].kind = "rename" /\ op[w].target = p
Uses(w, p) == pc[w] # "idle" /\ (Path(w) = p \/ Renames(w, p))
Free(p) == \A w \in Workers : ~Uses(w, p)

(* The row r and the object x of a path *)
LiveRow(r) == r # None /\ ~r.deleted
Agree(r, x) == IF LiveRow(r) THEN x = r.hash ELSE x = None

(* ... of a request at a label, with arguments o, that has read m, *)
Held(label, o, m, r, x) ==
  /\ label # "undo"
  /\ label \in {"remove", "unrecord", "target", "move", "repath", "rollback"} => r = m /\ LiveRow(m)
  /\ label = "record" \/ (label = "write" /\ o.kind = "upload") => m = IF LiveRow(r) THEN r ELSE None
  /\ label = "restore" => r # None /\ r.deleted
  /\ label = "insert" => r = None
  /\ IF label \in {"record", "restore", "insert"} \/ (label = "lookup" /\ o.kind = "stream") THEN x = o.data
     ELSE IF label \in {"unrecord", "repath", "rollback"} THEN x = None
     ELSE Agree(r, x)

(* ... and of the new name of its rename *)
Aimed(label, m, r, x) ==
  /\ label \in {"move", "repath", "rollback"} => ~LiveRow(r)
  /\ IF label \in {"repath", "rollback"} THEN x = m.hash ELSE Agree(r, x)

Stage(w) ==
  pc[w] # "idle" =>
    /\ Held(pc[w], op[w], meta[w], row[Path(w)], object[Path(w)])
    /\ op[w].kind = "rename" => Aimed(pc[w], meta[w], row[op[w].target], object[op[w].target])

Pending == list \cup ({purging} \ {None})
Listed(y) == HasId(y[2], y[1]) /\ row[y[2]].deleted /\ row[y[2]].old /\ Free(y[2])

CalmInv ==
  /\ \A v, w \in Workers, p \in Paths : Uses(v, p) /\ Uses(w, p) => v = w
  /\ \A p \in Paths : Free(p) => Agree(row[p], object[p])
  /\ \A w \in Workers : Stage(w)
  /\ \A y \in Pending : Listed(y)
  /\ purging # None => purging \notin list

(* A step of a request on the paths it uses *)
LEMMA CalmFrame ==
  ASSUME StoreInv, CalmInv, NEW w \in Workers, pc[w] # "idle", OthersStay(w), UNCHANGED cleanup,
         \A p \in Paths : ~Uses(w, p) => row'[p] = row[p] /\ object'[p] = object[p],
         \A p \in Paths : Uses(w, p)' => Uses(w, p),
         \A p \in Paths : Uses(w, p) /\ ~Uses(w, p)' => Agree(row'[p], object'[p]),
         Stage(w)'
  PROVE  CalmInv'
<1>1. \A v \in Workers \ {w} : pc'[v] = pc[v] /\ op'[v] = op[v] /\ meta'[v] = meta[v] /\ Path(v)' = Path(v)
  BY Zenon DEF OthersStay, Path
<1>2. \A v \in Workers \ {w}, p \in Paths : Uses(v, p)' <=> Uses(v, p)
  BY <1>1, Zenon DEF Uses, Renames
<1>3. ASSUME NEW v \in Workers \ {w}, pc[v] # "idle"
      PROVE  /\ Path(v) \in Paths /\ ~Uses(w, Path(v))
             /\ op[v].kind = "rename" => op[v].target \in Paths /\ ~Uses(w, op[v].target)
  <2>1. op[v] \in Op /\ setting \in Settings
    BY <1>3, Zenon DEF StoreInv, TypeOK, At
  <2>2. Path(v) \in Paths /\ op[v].target \in Paths
    BY <2>1, OpTypes, Zenon DEF Path
  <2>3. Uses(v, Path(v)) /\ (op[v].kind = "rename" => Uses(v, op[v].target))
    BY <1>3, Zenon DEF Uses, Renames
  <2> QED BY <2>2, <2>3, Zenon DEF CalmInv
<1>4. \A u, v \in Workers, p \in Paths : Uses(u, p)' /\ Uses(v, p)' => u = v
  BY <1>2, Zenon DEF CalmInv
<1>5. ASSUME NEW p \in Paths, Free(p)' PROVE Agree(row'[p], object'[p])
  <2>1. CASE Uses(w, p)
    BY <1>5, <2>1, Zenon DEF Free
  <2>2. CASE ~Uses(w, p)
    <3>1. Free(p)
      BY <1>2, <1>5, <2>2, Zenon DEF Free
    <3> QED BY <2>2, <3>1, Zenon DEF CalmInv
  <2> QED BY <2>1, <2>2, Zenon
<1>6. ASSUME NEW v \in Workers \ {w} PROVE Stage(v)'
  <2>1. CASE pc[v] = "idle"
    BY <1>1, <2>1, Zenon DEF Stage
  <2>2. CASE pc[v] # "idle"
    <3>1. Stage(v)
      BY Zenon DEF CalmInv
    <3>2. Held(pc[v], op[v], meta[v], row'[Path(v)], object'[Path(v)])
      BY <1>3, <2>2, <3>1, Zenon DEF Stage
    <3>3. op[v].kind = "rename" => Aimed(pc[v], meta[v], row'[op[v].target], object'[op[v].target])
      BY <1>3, <2>2, <3>1, Zenon DEF Stage
    <3> QED BY <1>1, <3>2, <3>3, Zenon DEF Stage
  <2> QED BY <2>1, <2>2, Zenon
<1>7. Pending' = Pending /\ purging' = purging /\ list' = list
  BY Zenon DEF Pending, cleanup
<1>8. ASSUME NEW y \in Pending PROVE Listed(y)'
  <2>1. Listed(y) /\ y[2] \in Paths
    BY Zenon DEF CalmInv, Pending, StoreInv, TypeOK
  <2>2. row'[y[2]] = row[y[2]]
    BY <2>1, Zenon DEF Listed, Free
  <2>3. Free(y[2])'
    BY <1>2, <2>1, Zenon DEF Listed, Free
  <2> QED BY <2>1, <2>2, <2>3, Zenon DEF Listed, HasId
<1>9. \A v \in Workers : Stage(v)'
  BY <1>6, Zenon
<1>10. \A y \in Pending' : Listed(y)'
  BY <1>7, <1>8, Zenon
<1>11. purging' # None => purging' \notin list'
  BY <1>7, Zenon DEF CalmInv
<1> QED BY <1>4, <1>5, <1>9, <1>10, <1>11, Zenon DEF CalmInv

(* ... which returns after it, *)
LEMMA CalmReturn ==
  ASSUME StoreInv, CalmInv, setting' = setting, NEW w \in Workers, pc[w] # "idle", Return(w), UNCHANGED cleanup,
         \A p \in Paths : ~Uses(w, p) => row'[p] = row[p] /\ object'[p] = object[p],
         \A p \in Paths : Uses(w, p) => Agree(row'[p], object'[p])
  PROVE  CalmInv'
<1>1. OthersStay(w) /\ pc'[w] = "idle"
  BY ReturnEffect, Zenon
<1>2. Stage(w)' /\ \A p \in Paths : ~Uses(w, p)'
  BY <1>1, Zenon DEF Stage, Uses
<1> QED BY <1>1, <1>2, CalmFrame, Zenon

(* ... or goes on. *)
LEMMA CalmContinue ==
  ASSUME StoreInv, CalmInv, NEW w \in Workers, pc[w] # "idle", OthersStay(w), UNCHANGED <<op, cleanup>>,
         NEW label, pc'[w] = label, NEW m, meta'[w] = m,
         \A p \in Paths : ~Uses(w, p) => row'[p] = row[p] /\ object'[p] = object[p],
         Held(label, op[w], m, row'[Path(w)], object'[Path(w)]),
         op[w].kind = "rename" => Aimed(label, m, row'[op[w].target], object'[op[w].target])
  PROVE  CalmInv' \/ label = "idle"
<1> SUFFICES ASSUME label # "idle" PROVE CalmInv'
  BY Zenon
<1>1. Path(w)' = Path(w) /\ op'[w] = op[w]
  BY Zenon DEF Path
<1>2. Stage(w)'
  BY <1>1, Zenon DEF Stage
<1>3. \A p \in Paths : Uses(w, p)' <=> Uses(w, p)
  BY <1>1, Zenon DEF Uses, Renames
<1> QED BY <1>2, <1>3, CalmFrame, Zenon

(* A path without lock that nobody renames to is free. *)
LEMMA QuietFree ==
  ASSUME StoreInv, NEW p \in Paths, lock[p] = None, ~Targeted(p)
  PROVE  Free(p)
<1> SUFFICES ASSUME NEW w \in Workers, Uses(w, p) PROVE FALSE
  BY Zenon DEF Free
<1>1. pc[w] # "idle" /\ op[w] \in Op /\ lock[Path(w)] = w /\ setting \in Settings
  BY Zenon DEF Uses, StoreInv, TypeOK, At
<1>2. op[w] \in Sent
  BY <1>1, StoreConstants, Zenon DEF Op, Sent, Setting, Kinds
<1>3. op[w] # None /\ w # None
  BY <1>2, StoreConstants, Zenon
<1> QED BY <1>1, <1>3, Zenon DEF Uses, Renames, Targeted

(* UPDATE of a row that is there *)
LEMMA UpdateLive ==
  ASSUME RowsTyped, NEW id \in Ids, NEW p \in Paths, HasId(p, id), NEW q \in Paths, NEW hash \in Contents,
         row' = Updated(id, q, hash)
  PROVE  /\ row'[q] \in Row /\ ~row'[q].deleted /\ row'[q].hash = hash /\ (p # q => row'[p] = None)
         /\ \A x \in Paths \ {p, q} : row'[x] = row[x]
<1> DEFINE new == [id |-> id, hash |-> hash, deleted |-> FALSE, old |-> FALSE]
<1>1. new \in Row /\ ~new.deleted /\ new.hash = hash
  BY Zenon DEF Row
<1>2. row' = [x \in Paths |-> IF x = q THEN new ELSE IF HasId(x, id) THEN None ELSE row[x]]
  BY Zenon DEF Updated
<1> HIDE DEF new
<1>3. \A x \in Paths : HasId(x, id) => x = p
  BY Zenon DEF RowsTyped, HasId
<1> QED BY <1>1, <1>2, <1>3, Zenon

(* Each step of UploadFile, UploadFileFromReader, DeleteFile and RenameFile keeps CalmInv, *)
LEMMA CalmWork ==
  ASSUME StoreInv, CalmInv, Calm, setting' = setting, NEW w \in Workers, Work(w) \/ Crash(w)
  PROVE  CalmInv'
<1>a. /\ pc[w] # "idle" /\ Faults = {} /\ WorkersTyped /\ RowsTyped /\ ObjectsTyped
      /\ setting \in Settings /\ Own(w) /\ At(w)
  BY Zenon DEF Work, Lookup, Write, Record, Restore, Insert, Undo, DeleteObject, DeleteRow, RenameCheck,
       RenameObject, RenameRow, RenameRollback, Crash, Calm, StoreInv, TypeOK, WorkersTyped, RowsTyped, ObjectsTyped
<1>b. /\ op[w] \in Op /\ Path(w) \in Paths /\ op[w].target \in Paths /\ op[w].data \in Contents
      /\ Labelled(pc[w], op[w], meta[w]) /\ meta[w] \in Row \cup {None}
      /\ op[w].kind \in {"upload", "stream", "delete", "rename"}
      /\ op[w].kind = "rename" => op[w].target # Path(w)
  BY <1>a, OpTypes, StoreConstants, Zenon DEF At, Path, WorkersTyped, Setting, Kinds
<1>c. PICK q \in Paths : q = Path(w)
  BY <1>b, Zenon
<1>d. PICK t \in Paths : t = op[w].target
  BY <1>b, Zenon
<1>e. /\ Held(pc[w], op[w], meta[w], row[q], object[q])
      /\ op[w].kind = "rename" => Aimed(pc[w], meta[w], row[t], object[t])
  BY <1>a, <1>c, <1>d, Zenon DEF CalmInv, Stage
<1>f. \A p \in Paths : Uses(w, p) <=> p = q \/ (op[w].kind = "rename" /\ p = t)
  BY <1>a, <1>c, <1>d, Zenon DEF Uses, Renames
<1>g. \A r \in Row : r.hash # None /\ r # None /\ r.id \in Ids /\ r.hash \in Contents
  BY StoreConstants, Zenon DEF Row
<1>h. ASSUME Return(w), UNCHANGED cleanup, Agree(row'[q], object'[q]),
             op[w].kind = "rename" => Agree(row'[t], object'[t]),
             \A p \in Paths \ {q, t} : row'[p] = row[p] /\ object'[p] = object[p],
             op[w].kind # "rename" => t = q \/ (row'[t] = row[t] /\ object'[t] = object[t])
      PROVE  CalmInv'
  <2>1. \A p \in Paths : ~Uses(w, p) => row'[p] = row[p] /\ object'[p] = object[p]
    BY <1>f, <1>h, Zenon
  <2>2. \A p \in Paths : Uses(w, p) => Agree(row'[p], object'[p])
    BY <1>f, <1>h, Zenon
  <2> QED BY <1>a, <1>h, <2>1, <2>2, CalmReturn, Zenon
<1>i. ASSUME NEW label \in Label \ {"idle"}, Goto(w, label), UNCHANGED <<op, cleanup>>, NEW m,
             meta' = [meta EXCEPT ![w] = m], Held(label, op[w], m, row'[q], object'[q]),
             op[w].kind = "rename" => Aimed(label, m, row'[t], object'[t]),
             \A p \in Paths \ {q, t} : row'[p] = row[p] /\ object'[p] = object[p],
             op[w].kind # "rename" => t = q \/ (row'[t] = row[t] /\ object'[t] = object[t])
      PROVE  CalmInv'
  <2>1. \A p \in Paths : ~Uses(w, p) => row'[p] = row[p] /\ object'[p] = object[p]
    BY <1>f, <1>i, Zenon
  <2>2. OthersStay(w) /\ pc'[w] = label /\ meta'[w] = m
    BY <1>a, <1>i, Zenon DEF OthersStay, Goto, WorkersTyped
  <2>3. label # "idle"
    BY <1>i, Zenon
  <2>4. CalmInv' \/ label = "idle"
    BY <1>a, <1>c, <1>d, <1>i, <2>1, <2>2, CalmContinue, Zenon
  <2> QED BY <2>3, <2>4, Zenon
<1>j. ASSUME NEW label, Continue(w, label)
      PROVE  Goto(w, label) /\ UNCHANGED op /\ meta' = [meta EXCEPT ![w] = meta[w]]
  BY <1>a, <1>j, Zenon DEF Continue, WorkersTyped
<1>k. \A p \in Paths : Found(p) = {IF Live(p) THEN row[p] ELSE None} /\ (Live(p) <=> LiveRow(row[p]))
  BY <1>a, Zenon DEF Found, Live, LiveRow
<1>1. CASE Lookup(w)
  <2>1. PICK m \in Found(q) :
          IF m = None /\ op[w].kind \in {"delete", "rename"}
            THEN Return(w)
            ELSE /\ meta' = [meta EXCEPT ![w] = m]
                 /\ Goto(w, CASE op[w].kind = "upload" -> "write"
                              [] op[w].kind = "stream" -> "record"
                              [] op[w].kind = "delete" -> "remove"
                              [] op[w].kind = "rename" -> "target")
                 /\ UNCHANGED <<lock, op>>
    BY <1>1, <1>c, Zenon DEF Lookup
  <2>2. UNCHANGED <<row, object, cleanup>> /\ pc[w] = "lookup" /\ m = IF LiveRow(row[q]) THEN row[q] ELSE None
    BY <1>1, <1>k, Zenon DEF Lookup
  <2>3. CASE m = None /\ op[w].kind \in {"delete", "rename"}
    <3>1. Return(w) /\ Agree(row[q], object[q]) /\ (op[w].kind = "rename" => Agree(row[t], object[t]))
      BY <1>e, <2>1, <2>2, <2>3, Zenon DEF Held, Aimed
    <3> QED BY <1>h, <2>2, <3>1, Zenon
  <2>4. CASE ~(m = None /\ op[w].kind \in {"delete", "rename"})
    <3>1. PICK label \in Label \ {"idle"} :
            /\ op[w].kind = "upload" => label = "write"
            /\ op[w].kind = "stream" => label = "record"
            /\ op[w].kind = "delete" => label = "remove"
            /\ op[w].kind = "rename" => label = "target"
            /\ Goto(w, label) /\ UNCHANGED op /\ meta' = [meta EXCEPT ![w] = m]
      BY <1>b, <2>1, <2>4, Zenon DEF Label
    <3>2. op[w].kind # "stream" => Agree(row[q], object[q])
      BY <1>e, <2>2, Zenon DEF Held
    <3>3. op[w].kind = "stream" => object[q] = op[w].data
      BY <1>e, <2>2, Zenon DEF Held
    <3>4. op[w].kind \in {"delete", "rename"} => row[q] = m /\ LiveRow(m)
      BY <2>2, <2>4, Zenon
    <3>5. Held(label, op[w], m, row[q], object[q])
      BY <1>b, <2>2, <3>1, <3>2, <3>3, <3>4, Zenon DEF Held
    <3>6. op[w].kind = "rename" => Aimed(label, m, row[t], object[t])
      BY <1>e, <2>2, <3>1, Zenon DEF Aimed
    <3> QED BY <1>i, <2>2, <3>1, <3>5, <3>6, Zenon
  <2> QED BY <2>3, <2>4, Zenon
<1>2. CASE Write(w)
  <2>1. /\ object' = Stored(q, op[w].data) /\ UNCHANGED <<row, cleanup>> /\ pc[w] = "write"
        /\ Continue(w, IF op[w].kind = "upload" THEN "record" ELSE "lookup")
    BY <1>2, <1>a, <1>c, Zenon DEF Write
  <2>2. PICK label \in Label \ {"idle"} :
          Continue(w, label) /\ label = IF op[w].kind = "upload" THEN "record" ELSE "lookup"
    BY <2>1, Zenon DEF Label
  <2>3. op[w].kind \in {"upload", "stream"}
    BY <1>b, <2>1, Zenon DEF Labelled
  <2>4. object'[q] = op[w].data /\ \A p \in Paths \ {q} : object'[p] = object[p]
    BY <1>a, <2>1, Zenon DEF Stored, ObjectsTyped
  <2>5. op[w].kind = "upload" => meta[w] = IF LiveRow(row[q]) THEN row[q] ELSE None
    BY <1>e, <2>1, Zenon DEF Held
  <2>6. Held(label, op[w], meta[w], row'[q], object'[q])
    BY <2>1, <2>2, <2>3, <2>4, <2>5, Zenon DEF Held
  <2> QED BY <1>i, <1>j, <2>1, <2>2, <2>3, <2>4, <2>6, Zenon
<1>3. CASE Record(w)
  <2>1. /\ pc[w] = "record" /\ UNCHANGED <<object, cleanup>> /\ object[q] = op[w].data
        /\ meta[w] = (IF LiveRow(row[q]) THEN row[q] ELSE None) /\ op[w].kind # "rename"
    BY <1>3, <1>b, <1>e, Zenon DEF Record, Held, Labelled
  <2>2. CASE meta[w] # None
    <3>1. Return(w) /\ row' = Updated(meta[w].id, q, op[w].data) /\ meta[w] = row[q] /\ meta[w] \in Row
      BY <1>3, <1>a, <1>b, <1>c, <2>1, <2>2, Zenon DEF Record
    <3>2. HasId(q, meta[w].id) /\ \A p \in Paths : HasId(p, meta[w].id) => p = q
      BY <1>a, <1>c, <2>2, <3>1, Zenon DEF HasId, Own
    <3>4. meta[w].id \in Ids
      BY <1>g, <3>1, Zenon
    <3>5. /\ row'[q] \in Row /\ ~row'[q].deleted /\ row'[q].hash = op[w].data
          /\ \A x \in Paths \ {q} : row'[x] = row[x]
      BY <1>a, <1>b, <3>1, <3>2, <3>4, UpdateLive
    <3>6. Agree(row'[q], object'[q])
      BY <1>g, <2>1, <3>5, Zenon DEF Agree, LiveRow
    <3> QED BY <1>h, <2>1, <3>1, <3>5, <3>6, Zenon
  <2>3. CASE meta[w] = None
    <3>1. ~LiveRow(row[q])
      BY <1>a, <1>g, <2>1, <2>3, Zenon DEF LiveRow
    <3>2. UNCHANGED row /\ Continue(w, IF row[q] # None /\ row[q].deleted THEN "restore" ELSE "insert")
      BY <1>3, <1>a, <1>c, <2>3, Zenon DEF Record
    <3>3. PICK label \in Label \ {"idle"} :
            Continue(w, label) /\ label = IF row[q] # None /\ row[q].deleted THEN "restore" ELSE "insert"
      BY <3>2, Zenon DEF Label
    <3>4. Held(label, op[w], meta[w], row'[q], object'[q])
      BY <2>1, <3>1, <3>2, <3>3, Zenon DEF Held, LiveRow
    <3> QED BY <1>i, <1>j, <2>1, <3>2, <3>3, <3>4, Zenon
  <2> QED BY <2>2, <2>3, Zenon
<1>4. CASE Restore(w) \/ Insert(w)
  <2>1. /\ UNCHANGED <<object, cleanup>> /\ object[q] = op[w].data /\ op[w].kind # "rename"
        /\ Return(w) /\ Ids \ UsedIds # {} /\ row' = [row EXCEPT ![q] = NewRow(w)]
    BY <1>4, <1>a, <1>b, <1>c, <1>e, Zenon DEF Restore, Insert, Held, Labelled
  <2>2. NewRow(w) \in Row /\ NewRow(w).hash = op[w].data /\ ~NewRow(w).deleted /\ row'[q] = NewRow(w)
    BY <1>b, <1>c, <2>1, NewRowEffect, Zenon
  <2>3. \A x \in Paths \ {q} : row'[x] = row[x]
    BY <1>b, <1>c, <2>1, NewRowEffect, Zenon
  <2>4. Agree(row'[q], object'[q])
    BY <1>g, <2>1, <2>2, Zenon DEF Agree, LiveRow
  <2> QED BY <1>h, <2>1, <2>3, <2>4, Zenon
<1>5. ~Undo(w) /\ ~Crash(w)
  BY <1>a, <1>e, Zenon DEF Undo, Crash, Held
<1>6. CASE DeleteObject(w)
  <2>1. /\ pc[w] = "remove" /\ UNCHANGED <<row, cleanup>> /\ op[w].kind = "delete"
        /\ row[q] = meta[w] /\ LiveRow(meta[w]) /\ Agree(row[q], object[q])
    BY <1>6, <1>b, <1>e, Zenon DEF DeleteObject, Held, Labelled
  <2>2. object[q] # None
    BY <1>b, <1>g, <2>1, Zenon DEF Agree, LiveRow
  <2>3. object' = Removed(q) /\ Continue(w, "unrecord")
    BY <1>6, <1>a, <1>c, <2>2, Zenon DEF DeleteObject
  <2>4. object'[q] = None /\ \A p \in Paths \ {q} : object'[p] = object[p]
    BY <1>a, <2>3, Zenon DEF Removed, ObjectsTyped
  <2>5. Held("unrecord", op[w], meta[w], row'[q], object'[q]) /\ "unrecord" \in Label \ {"idle"}
    BY <2>1, <2>4, Zenon DEF Held, Label
  <2> QED BY <1>i, <1>j, <2>1, <2>3, <2>4, <2>5, Zenon
<1>7. CASE DeleteRow(w)
  <2>1. /\ Return(w) /\ UNCHANGED <<object, cleanup>> /\ row' = SoftDeleted(meta[w].id) /\ op[w].kind = "delete"
        /\ row[q] = meta[w] /\ LiveRow(meta[w]) /\ object[q] = None
    BY <1>7, <1>a, <1>b, <1>e, Zenon DEF DeleteRow, Held, Labelled
  <2>2. meta[w] \in Row /\ meta[w] # None /\ HasId(q, meta[w].id) /\ \A p \in Paths : HasId(p, meta[w].id) => p = q
    BY <1>a, <1>b, <1>c, <2>1, Zenon DEF HasId, Own, LiveRow
  <2>3. ~Live(q)' /\ \A p \in Paths \ {q} : row'[p] = row[p]
    BY <1>a, <1>g, <2>1, <2>2, SoftDeleteEffect, Zenon
  <2>4. Agree(row'[q], object'[q])
    BY <2>1, <2>3, Zenon DEF Agree, LiveRow, Live
  <2> QED BY <1>h, <2>1, <2>3, <2>4, Zenon
<1>8. CASE RenameCheck(w)
  <2>1. /\ pc[w] = "target" /\ UNCHANGED <<row, object, cleanup>> /\ op[w].kind = "rename"
        /\ row[q] = meta[w] /\ LiveRow(meta[w]) /\ Agree(row[q], object[q]) /\ Agree(row[t], object[t])
    BY <1>8, <1>b, <1>e, Zenon DEF RenameCheck, Held, Aimed, Labelled
  <2>2. PICK m \in Found(t) : IF m = None THEN Continue(w, "move") ELSE Return(w)
    BY <1>8, <1>d, Zenon DEF RenameCheck
  <2>3. m = None => ~LiveRow(row[t])
    BY <1>k, Zenon DEF LiveRow
  <2>4. CASE m = None
    <3>1. Held("move", op[w], meta[w], row[q], object[q]) /\ "move" \in Label \ {"idle"}
      BY <2>1, Zenon DEF Held, Label
    <3>2. Aimed("move", meta[w], row[t], object[t])
      BY <2>1, <2>3, <2>4, Zenon DEF Aimed
    <3> QED BY <1>i, <1>j, <2>1, <2>2, <2>4, <3>1, <3>2, Zenon
  <2>5. CASE m # None
    BY <1>h, <2>1, <2>2, <2>5, Zenon
  <2> QED BY <2>4, <2>5, Zenon
<1>9. CASE RenameObject(w)
  <2>1. /\ pc[w] = "move" /\ UNCHANGED <<row, cleanup>> /\ op[w].kind = "rename" /\ row[q] = meta[w]
        /\ LiveRow(meta[w]) /\ Agree(row[q], object[q]) /\ ~LiveRow(row[t])
    BY <1>9, <1>b, <1>e, Zenon DEF RenameObject, Held, Aimed, Labelled
  <2>2. object[q] = meta[w].hash /\ object[q] # None
    BY <1>b, <1>g, <2>1, Zenon DEF Agree, LiveRow
  <2>3. object' = Moved(q, t) /\ Continue(w, "repath")
    BY <1>9, <1>a, <1>c, <1>d, <2>2, Zenon DEF RenameObject
  <2>4. object'[q] = None /\ object'[t] = meta[w].hash /\ \A p \in Paths \ {q, t} : object'[p] = object[p]
    BY <1>a, <1>b, <1>c, <1>d, <2>1, <2>2, <2>3, Zenon DEF Moved, ObjectsTyped
  <2>5. Held("repath", op[w], meta[w], row'[q], object'[q]) /\ "repath" \in Label \ {"idle"}
    BY <2>1, <2>4, Zenon DEF Held, Label
  <2>6. Aimed("repath", meta[w], row'[t], object'[t])
    BY <2>1, <2>4, Zenon DEF Aimed
  <2> QED BY <1>i, <1>j, <2>1, <2>3, <2>4, <2>5, <2>6, Zenon
<1>10. CASE RenameRow(w)
  <2>1. /\ pc[w] = "repath" /\ UNCHANGED <<object, cleanup>> /\ op[w].kind = "rename" /\ row[q] = meta[w]
        /\ LiveRow(meta[w]) /\ object[q] = None /\ object[t] = meta[w].hash /\ ~LiveRow(row[t])
    BY <1>10, <1>b, <1>e, Zenon DEF RenameRow, Held, Aimed, Labelled
  <2>2. meta[w] \in Row /\ meta[w] # None /\ HasId(q, meta[w].id) /\ \A p \in Paths : HasId(p, meta[w].id) => p = q
    BY <1>a, <1>b, <1>c, <2>1, Zenon DEF HasId, Own, LiveRow
  <2>3. CASE ~Conflict(meta[w].id, t) /\ row' = Updated(meta[w].id, t, meta[w].hash) /\ Return(w)
    <3>1. meta[w].id \in Ids /\ meta[w].hash \in Contents /\ q # t
      BY <1>b, <1>c, <1>d, <1>g, <2>1, <2>2, Zenon
    <3>2. /\ row'[t] \in Row /\ ~row'[t].deleted /\ row'[t].hash = meta[w].hash /\ row'[q] = None
          /\ \A x \in Paths \ {q, t} : row'[x] = row[x]
      BY <1>a, <2>2, <2>3, <3>1, UpdateLive
    <3>3. Agree(row'[q], object'[q]) /\ Agree(row'[t], object'[t])
      BY <1>g, <2>1, <3>2, Zenon DEF Agree, LiveRow
    <3> QED BY <1>h, <2>1, <2>3, <3>2, <3>3, Zenon
  <2>4. CASE Continue(w, "rollback") /\ UNCHANGED row
    <3>1. Held("rollback", op[w], meta[w], row'[q], object'[q]) /\ "rollback" \in Label \ {"idle"}
      BY <2>1, <2>4, Zenon DEF Held, Label
    <3>2. Aimed("rollback", meta[w], row'[t], object'[t])
      BY <2>1, <2>4, Zenon DEF Aimed
    <3> QED BY <1>i, <1>j, <2>1, <2>4, <3>1, <3>2, Zenon
  <2> QED BY <1>10, <1>d, <2>3, <2>4, Zenon DEF RenameRow
<1>11. CASE RenameRollback(w)
  <2>1. /\ Return(w) /\ UNCHANGED <<row, cleanup>> /\ op[w].kind = "rename" /\ row[q] = meta[w]
        /\ LiveRow(meta[w]) /\ object[t] = meta[w].hash /\ ~LiveRow(row[t])
    BY <1>11, <1>b, <1>e, Zenon DEF RenameRollback, Held, Aimed, Labelled
  <2>2. object[t] # None
    BY <1>b, <1>g, <2>1, Zenon DEF LiveRow
  <2>3. object' = Moved(t, q)
    BY <1>11, <1>a, <1>c, <1>d, <2>2, Zenon DEF RenameRollback
  <2>4. object'[q] = meta[w].hash /\ object'[t] = None /\ \A p \in Paths \ {q, t} : object'[p] = object[p]
    BY <1>a, <1>b, <1>c, <1>d, <2>1, <2>3, Zenon DEF Moved, ObjectsTyped
  <2>5. Agree(row'[q], object'[q]) /\ Agree(row'[t], object'[t])
    BY <2>1, <2>4, Zenon DEF Agree
  <2> QED BY <1>h, <2>1, <2>4, <2>5, Zenon
<1> QED BY <1>1, <1>2, <1>3, <1>4, <1>5, <1>6, <1>7, <1>8, <1>9, <1>10, <1>11, Zenon DEF Work

(* ... and so does the start of one. *)
LEMMA CalmBegin ==
  ASSUME StoreInv, CalmInv, Calm, setting' = setting, NEW w \in Workers, NEW o \in Op, Begin(w, o)
  PROVE  CalmInv'
<1>1. WorkersTyped /\ setting \in Settings /\ o.path \in Paths /\ o.target \in Paths
  BY OpTypes, Zenon DEF StoreInv, TypeOK, WorkersTyped
<1>2. /\ pc[w] = "idle" /\ lock[o.path] = None /\ ~Targeted(o.path) /\ UNCHANGED <<row, object, meta, list, purging>>
      /\ o.kind = "rename" => lock[o.target] = None /\ ~Targeted(o.target)
      /\ ~BeingPurged(o.path) /\ ~BeingPurged(o.target)
  BY Zenon DEF Begin, MaySend, Calm, cleanup
<1>3. Free(o.path) /\ (o.kind = "rename" => Free(o.target))
  BY <1>1, <1>2, QuietFree, Zenon
<1>4. /\ OthersStay(w) /\ op'[w] = o /\ Path(w)' = o.path
      /\ pc'[w] = IF o.kind = "stream" THEN "write" ELSE "lookup"
  BY <1>1, <1>2, Zenon DEF Begin, Goto, WorkersTyped, OthersStay, Path
<1>5. \A v \in Workers \ {w} : pc'[v] = pc[v] /\ op'[v] = op[v] /\ meta'[v] = meta[v] /\ Path(v)' = Path(v)
  BY <1>4, Zenon DEF OthersStay, Path
<1>6. \A v \in Workers \ {w}, p \in Paths : Uses(v, p)' <=> Uses(v, p)
  BY <1>5, Zenon DEF Uses, Renames
<1>7. \A p \in Paths : ~Uses(w, p) /\ (Uses(w, p)' => p = o.path \/ (o.kind = "rename" /\ p = o.target))
  BY <1>2, <1>4, Zenon DEF Uses, Renames
<1>8. ASSUME NEW u \in Workers, NEW v \in Workers, NEW p \in Paths, Uses(u, p)', Uses(v, p)' PROVE u = v
  <2>1. CASE u # w /\ v # w
    BY <1>6, <1>8, <2>1, Zenon DEF CalmInv
  <2>2. Uses(w, p)' => Free(p)
    BY <1>3, <1>7, Zenon
  <2>3. CASE u = w /\ v # w
    BY <1>6, <1>8, <2>2, <2>3, Zenon DEF Free
  <2>4. CASE u # w /\ v = w
    BY <1>6, <1>8, <2>2, <2>4, Zenon DEF Free
  <2> QED BY <2>1, <2>3, <2>4, Zenon
<1>9. \A p \in Paths : Free(p)' => Agree(row'[p], object'[p])
  <2>1. \A p \in Paths : Free(p)' => Free(p)
    BY <1>6, <1>7, Zenon DEF Free
  <2> QED BY <1>2, <2>1, Zenon DEF CalmInv
<1>10. Stage(w)'
  <2>1. Agree(row[o.path], object[o.path]) /\ (o.kind = "rename" => Agree(row[o.target], object[o.target]))
    BY <1>1, <1>3, Zenon DEF CalmInv
  <2>2. Held(pc'[w], o, meta'[w], row'[o.path], object'[o.path])
    BY <1>2, <1>4, <2>1, Zenon DEF Held
  <2>3. o.kind = "rename" => Aimed(pc'[w], meta'[w], row'[o.target], object'[o.target])
    BY <1>2, <1>4, <2>1, Zenon DEF Aimed
  <2> QED BY <1>4, <2>2, <2>3, Zenon DEF Stage
<1>11. \A v \in Workers \ {w} : Stage(v)'
  BY <1>2, <1>5, Zenon DEF CalmInv, Stage
<1>12. ASSUME NEW y \in Pending' PROVE Listed(y)'
  <2>1. y \in Pending /\ Listed(y) /\ y[2] \in Paths
    BY <1>2, Zenon DEF Pending, CalmInv, StoreInv, TypeOK
  <2>2. y[2] # o.path /\ y[2] # o.target
    BY <1>2, <2>1, Zenon DEF BeingPurged, Pending
  <2>3. Free(y[2])'
    BY <1>6, <1>7, <2>1, <2>2, Zenon DEF Listed, Free
  <2> QED BY <1>2, <2>1, <2>3, Zenon DEF Listed, HasId
<1>13. purging' # None => purging' \notin list'
  BY <1>2, Zenon DEF CalmInv
<1>14. \A v \in Workers : Stage(v)'
  BY <1>10, <1>11, Zenon
<1> QED BY <1>8, <1>9, <1>12, <1>13, <1>14, Zenon DEF CalmInv

(* A deleted row may change, but not come back. *)
LEMMA DeadRows ==
  ASSUME NEW r, NEW s, r # None, r.deleted, s # None, s.deleted
  PROVE  /\ \A x : Agree(r, x) => Agree(s, x)
         /\ \A label, o, m, x : Held(label, o, m, r, x) => Held(label, o, m, s, x)
         /\ \A label, m, x : Aimed(label, m, r, x) => Aimed(label, m, s, x)
<1>1. ~LiveRow(r) /\ ~LiveRow(s) /\ \A x : Agree(r, x) => Agree(s, x)
  BY Zenon DEF Agree, LiveRow
<1>2. ASSUME NEW label, NEW o, NEW m, NEW x, Held(label, o, m, r, x) PROVE Held(label, o, m, s, x)
  BY <1>1, <1>2, Zenon DEF Held
<1>3. ASSUME NEW label, NEW m, NEW x, Aimed(label, m, r, x) PROVE Aimed(label, m, s, x)
  BY <1>1, <1>3, Zenon DEF Aimed
<1> QED BY <1>1, <1>2, <1>3, Zenon

(* ... and so do the cleanup and the passing of its retention time. *)
LEMMA CalmClean ==
  ASSUME StoreInv, CalmInv, Calm, setting' = setting, (\E p \in Paths : Age(p)) \/ Clean
  PROVE  CalmInv'
<1>a. RowsTyped /\ ObjectsTyped /\ Faults = {} /\ ~Reuploads /\ WorkersTyped /\ setting \in Settings
  BY Zenon DEF StoreInv, TypeOK, RowsTyped, WorkersTyped, ObjectsTyped, Calm
<1>b. UNCHANGED <<lock, pc, op, meta>>
  BY Zenon DEF Age, Clean, CleanList, CleanObject, CleanRow
<1>c. \A w \in Workers, p \in Paths : Path(w)' = Path(w) /\ (Uses(w, p)' <=> Uses(w, p)) /\ (Free(p)' <=> Free(p))
  BY <1>b, Zenon DEF Uses, Renames, Path, Free
<1>d. \A p \in Paths : Free(p)' <=> Free(p)
  BY <1>b, Zenon DEF Uses, Renames, Path, Free
<1>e. ASSUME NEW w \in Workers, pc[w] # "idle"
      PROVE  /\ Path(w) \in Paths /\ ~Free(Path(w))
             /\ op[w].kind = "rename" => op[w].target \in Paths /\ ~Free(op[w].target)
  <2>1. op[w] \in Op
    BY <1>e, Zenon DEF StoreInv, At
  <2> QED BY <1>a, <1>e, <2>1, OpTypes, Zenon DEF Free, Uses, Renames, Path
<1>f. ASSUME NEW p \in Paths, Free(p), \A x \in Paths \ {p} : row'[x] = row[x] /\ object'[x] = object[x],
             Agree(row'[p], object'[p]), \A y \in Pending' : Listed(y)', purging' # None => purging' \notin list'
      PROVE  CalmInv'
  <2>1. ASSUME NEW w \in Workers PROVE Stage(w)'
    <3>1. CASE pc[w] = "idle"
      BY <1>b, <3>1, Zenon DEF Stage
    <3>2. CASE pc[w] # "idle"
      <4>1. Stage(w) /\ Path(w) # p /\ (op[w].kind = "rename" => op[w].target # p)
        BY <1>e, <1>f, <3>2, Zenon DEF CalmInv
      <4>2. row'[Path(w)] = row[Path(w)] /\ object'[Path(w)] = object[Path(w)]
        BY <1>e, <1>f, <3>2, <4>1, Zenon
      <4>3. op[w].kind = "rename" => row'[op[w].target] = row[op[w].target] /\ object'[op[w].target] = object[op[w].target]
        BY <1>e, <1>f, <3>2, <4>1, Zenon
      <4> QED BY <1>b, <1>c, <3>2, <4>1, <4>2, <4>3, Zenon DEF Stage
    <3> QED BY <3>1, <3>2, Zenon
  <2>2. \A x \in Paths : Free(x)' => Agree(row'[x], object'[x])
    BY <1>d, <1>f, Zenon DEF CalmInv
  <2>3. \A u, v \in Workers, x \in Paths : Uses(u, x)' /\ Uses(v, x)' => u = v
    BY <1>c, Zenon DEF CalmInv
  <2> QED BY <1>f, <2>1, <2>2, <2>3, Zenon DEF CalmInv
<1>g. \A y \in Pending : Listed(y) /\ y[2] \in Paths /\ y[1] \in Ids /\ y = <<y[1], y[2]>>
  BY <1>a DEF Pending, CalmInv, ObjectsTyped
<1>h. ASSUME NEW y \in Pending, row'[y[2]] = row[y[2]] PROVE Listed(y)'
  BY <1>d, <1>g, <1>h, Zenon DEF Listed, HasId
<1>1. ASSUME NEW p \in Paths, Age(p) PROVE CalmInv'
  <2>1. /\ \A x \in Paths \ {p} : row'[x] = row[x]
        /\ ~Live(p)' /\ row'[p].id = row[p].id /\ row[p] # None /\ RowsTyped'
    BY <1>a, <1>1, AgeEffect, Zenon
  <2>2. row[p].deleted /\ ~row[p].old /\ UNCHANGED <<object, list, purging>> /\ row' = [row EXCEPT ![p].old = TRUE]
    BY <1>1, Zenon DEF Age, cleanup
  <2>3. row[p] \in Row /\ row'[p] = [row[p] EXCEPT !.old = TRUE]
    BY <1>a, <2>1, <2>2, Zenon DEF RowsTyped
  <2>4. row'[p] \in Row /\ row'[p].deleted
    BY <2>2, <2>3, RowAged, Zenon
  <2>5. row'[p] # None
    BY <2>4, StoreConstants, Zenon
  <2>6. \A x \in Paths : /\ \A c : Agree(row[x], c) => Agree(row'[x], c)
                         /\ \A label, o, m, c : Held(label, o, m, row[x], c) => Held(label, o, m, row'[x], c)
                         /\ \A label, m, c : Aimed(label, m, row[x], c) => Aimed(label, m, row'[x], c)
    <3> SUFFICES ASSUME NEW x \in Paths
                 PROVE  /\ \A c : Agree(row[x], c) => Agree(row'[x], c)
                        /\ \A label, o, m, c : Held(label, o, m, row[x], c) => Held(label, o, m, row'[x], c)
                        /\ \A label, m, c : Aimed(label, m, row[x], c) => Aimed(label, m, row'[x], c)
      BY Zenon
    <3>1. CASE x = p
      BY <2>1, <2>2, <2>4, <2>5, <3>1, DeadRows, Zenon
    <3>2. CASE x # p
      BY <2>1, <3>2, Zenon
    <3> QED BY <3>1, <3>2, Zenon
  <2>7. ASSUME NEW w \in Workers PROVE Stage(w)'
    <3>1. Stage(w)
      BY Zenon DEF CalmInv
    <3> QED BY <1>b, <1>c, <1>e, <2>2, <2>6, <3>1, Zenon DEF Stage
  <2>8. \A x \in Paths : Free(x)' => Agree(row'[x], object'[x])
    BY <1>d, <2>2, <2>6, Zenon DEF CalmInv
  <2>9. \A u, v \in Workers, x \in Paths : Uses(u, x)' /\ Uses(v, x)' => u = v
    BY <1>c, Zenon DEF CalmInv
  <2>10. Pending' = Pending /\ (purging' # None => purging' \notin list')
    BY <2>2, Zenon DEF Pending, CalmInv
  <2>11. ASSUME NEW y \in Pending PROVE Listed(y)'
    <3>1. y[2] # p
      BY <1>g, <2>2, Zenon DEF Listed
    <3> QED BY <1>g, <1>h, <2>1, <3>1, Zenon
  <2> QED BY <2>7, <2>8, <2>9, <2>10, <2>11, Zenon DEF CalmInv
<1>2. CASE CleanList
  <2>1. UNCHANGED <<row, object, purging>> /\ purging = None /\ list' = {<<row[p].id, p>> : p \in Deleted}
    BY <1>2, Zenon DEF CleanList
  <2>2. \A p \in Deleted : p \in Paths /\ row[p] # None /\ row[p].deleted /\ row[p].old /\ Free(p)
    BY <1>2, <1>a, QuietFree, Zenon DEF CleanList, Deleted
  <2>3. ASSUME NEW y \in Pending' PROVE Listed(y)'
    <3>1. PICK p \in Deleted : y = <<row[p].id, p>>
      BY <2>1, Zenon DEF Pending
    <3>2. y[1] = row[p].id /\ y[2] = p
      BY <3>1
    <3> QED BY <1>d, <2>1, <2>2, <3>2, Zenon DEF Listed, HasId
  <2>4. ASSUME NEW w \in Workers PROVE Stage(w)'
    <3>1. Stage(w)
      BY Zenon DEF CalmInv
    <3> QED BY <1>b, <2>1, <3>1, Zenon DEF Stage, Path
  <2>5. \A x \in Paths : Free(x)' => Agree(row'[x], object'[x])
    BY <1>d, <2>1, Zenon DEF CalmInv
  <2>6. \A u, v \in Workers, x \in Paths : Uses(u, x)' /\ Uses(v, x)' => u = v
    BY <1>c, Zenon DEF CalmInv
  <2> QED BY <2>1, <2>3, <2>4, <2>5, <2>6, Zenon DEF CalmInv
<1>3. ASSUME NEW x \in list, CleanObject(x) PROVE CalmInv'
  <2>1. purging = None /\ list' = list \ {x} /\ object' = Removed(x[2]) /\ purging' = x /\ UNCHANGED row
    BY <1>3, <1>a, Zenon DEF CleanObject
  <2>2. x \in Pending /\ \A y \in Pending' : y \in Pending
    BY <2>1, Zenon DEF Pending
  <2>3. PICK p \in Paths : p = x[2] /\ Free(p) /\ row[p] # None /\ row[p].deleted
    BY <1>g, <2>2, Zenon DEF Listed, HasId
  <2>4. object'[p] = None /\ \A z \in Paths \ {p} : object'[z] = object[z]
    BY <1>a, <2>1, <2>3, Zenon DEF Removed, ObjectsTyped
  <2>5. Agree(row'[p], object'[p])
    BY <2>1, <2>3, <2>4, Zenon DEF Agree, LiveRow
  <2>6. \A y \in Pending' : Listed(y)'
    BY <1>h, <2>1, <2>2, Zenon
  <2> QED BY <1>f, <2>1, <2>3, <2>4, <2>5, <2>6, Zenon
<1>4. CASE CleanRow
  <2>1. purging # None /\ purging' = None /\ row' = Purged(purging[1]) /\ UNCHANGED <<object, list>>
    BY <1>4, <1>a, Zenon DEF CleanRow
  <2>2. purging \in Pending /\ Pending' = list /\ \A y \in list : y \in Pending /\ y # purging
    BY <2>1, Zenon DEF Pending, CalmInv
  <2>3. PICK p \in Paths : p = purging[2] /\ Free(p) /\ HasId(p, purging[1]) /\ row[p].deleted
    BY <1>g, <2>2, Zenon DEF Listed
  <2>4. \A z \in Paths : HasId(z, purging[1]) => z = p
    BY <1>a, <2>3, Zenon DEF RowsTyped, HasId
  <2>5. row'[p] = None /\ \A z \in Paths \ {p} : row'[z] = row[z]
    BY <1>a, <2>1, <2>3, <2>4, PurgeEffect, Zenon
  <2>6. Agree(row'[p], object'[p])
    BY <2>1, <2>3, <2>5, Zenon DEF CalmInv, Agree, LiveRow
  <2>7. ASSUME NEW y \in list PROVE Listed(y)'
    <3>1. y[2] # p
      <4>1. HasId(y[2], y[1])
        BY <1>g, <2>2, Zenon DEF Listed
      <4>2. y[2] = p => y[1] = purging[1]
        BY <2>3, <4>1, Zenon DEF HasId
      <4> QED BY <1>g, <2>2, <2>3, <4>2, Zenon
    <3> QED BY <1>g, <1>h, <2>2, <2>5, <3>1, Zenon
  <2>8. \A y \in Pending' : Listed(y)'
    BY <2>2, <2>7, Zenon
  <2> QED BY <1>f, <2>1, <2>3, <2>5, <2>6, <2>8, Zenon
<1> QED BY <1>1, <1>2, <1>3, <1>4, Zenon DEF Clean

(***************************************************************************)
(* Between operations storage and table agree, for any number of requests  *)
(* and paths, whatever is uploaded, deleted, renamed and purged.           *)
(***************************************************************************)
THEOREM BothStoresAgree == Spec => []StoresAgree
<1>1. Init => (Calm => CalmInv)
  BY Zenon DEF Init, CalmInv, Uses, Agree, LiveRow, Stage, Pending
<1>2. StoreInv /\ (Calm => CalmInv) /\ [Next]_vars => (Calm => CalmInv)'
  <2> SUFFICES ASSUME StoreInv, Calm => CalmInv, [Next]_vars, Calm' PROVE CalmInv'
    BY Zenon
  <2>1. setting' = setting /\ Calm /\ CalmInv
    BY SettingFixed, Zenon DEF Calm, Faults, SharedTargets, Reuploads
  <2>2. CASE UNCHANGED vars
    <3>1. UNCHANGED <<row, object, pc, op, meta, list, purging>>
      BY <2>2, Zenon DEF vars
    <3>2. \A w \in Workers, p \in Paths : Uses(w, p)' <=> Uses(w, p)
      BY <3>1, Zenon DEF Uses, Renames, Path
    <3>3. \A p : Free(p)' <=> Free(p)
      BY <3>1, Zenon DEF Free, Uses, Renames, Path
    <3>4. \A w \in Workers : Stage(w)' <=> Stage(w)
      BY <3>1, Zenon DEF Stage, Path
    <3>5. Pending' = Pending /\ \A y : Listed(y)' <=> Listed(y)
      BY <3>1, <3>3, Zenon DEF Pending, Listed, HasId
    <3> QED BY <2>1, <3>1, <3>2, <3>3, <3>4, <3>5, Zenon DEF CalmInv
  <2> QED BY <2>1, <2>2, CalmWork, CalmBegin, CalmClean, Zenon DEF Next
<1>3. StoreInv /\ (Calm => CalmInv) => StoresAgree
  <2> SUFFICES ASSUME StoreInv, CalmInv, NEW p \in Paths, Quiet(p) PROVE Agree(row[p], object[p])
    BY Zenon DEF StoresAgree, Calm, Agree, Live, LiveRow
  <2> QED BY QuietFree, Zenon DEF Quiet, CalmInv
<1> QED BY <1>1, <1>2, <1>3, StoreInvariant, PTL DEF Spec

=============================================================================
