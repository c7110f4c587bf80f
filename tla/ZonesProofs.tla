------------------------------ MODULE ZonesProofs ------------------------------
(***************************************************************************)
(* For any number of zones, records, callers and solvers: what a serial    *)
(* promises (SerialTellsContent), what the tables are (TypeOK), that       *)
(* deletions leave a zone its name servers (KeepsNameServer), and that     *)
(* queries are answered as the store has it (AnswersAsStored).             *)
(*                                                                         *)
(* A draft or a served snapshot never knows a serial that is ahead of the  *)
(* store's, and an id is never given twice.  So a change of a zone's       *)
(* records, which raises the serial, puts every snapshot of that zone      *)
(* behind for good, and those that were level stay so if nothing changes.  *)
(* A deletion that counted the name servers before it is safe because no   *)
(* other is between its count and its DELETE in the same zone, and because *)
(* every other transaction keeps them or deletes the zone.  Whoever has    *)
(* changed something is owed a build, so that when nobody is, and builds   *)
(* did not overlap, the snapshot is the store; and a snapshot that is the  *)
(* store answers as the store does.                                        *)
(***************************************************************************)
EXTENDS Zones, FiniteSetTheorems, FunctionTheorems, SequenceTheorems, TLAPS

USE ZonesAssumption DEF NoRow

\* A row has five columns.
Row(r) == r = [id |-> r.id, zone |-> r.zone, name |-> r.name, type |-> r.type,
               value |-> r.value]

\* A snapshot s knows no id and no serial that the tables (ids z, serials n, the
\* last id) are not up to.
Known(s, z, n, last) ==
  \A d \in Domains :
    /\ s.ids[d] \in Nat /\ s.ids[d] <= last /\ s.serials[d] \in Nat
    /\ s.ids[d] = z[d] /\ z[d] # 0 => s.serials[d] <= n[d]

\* Where its serial is that of the tables, so are its records.
Fit(s, z, n, rows) ==
  \A d \in Domains :
    s.ids[d] = z[d] /\ z[d] # 0 /\ s.serials[d] = n[d] => Rows(s.rows, z[d]) = Rows(rows, z[d])

\* What a transaction does: a zone stays, goes, or has a new id; a zone that stays
\* gets no lower serial, and a higher one if its records change.
Moves(z, n, rows, last, z2, n2, rows2, last2) ==
  /\ last2 >= last
  /\ \A d \in Domains :
       /\ z2[d] = z[d] \/ z2[d] = 0 \/ z2[d] > last
       /\ z2[d] = z[d] /\ z[d] # 0 =>
            /\ n2[d] >= n[d]
            /\ n2[d] = n[d] => Rows(rows2, z[d]) = Rows(rows, z[d])

LEMMA MovesKeep ==
  ASSUME NEW z \in [Domains -> Nat], NEW z2 \in [Domains -> Nat],
         NEW n \in [Domains -> Nat], NEW n2 \in [Domains -> Nat],
         NEW rows, NEW rows2, NEW last \in Nat, NEW last2 \in Nat, NEW s,
         Known(s, z, n, last), Moves(z, n, rows, last, z2, n2, rows2, last2)
  PROVE  /\ Known(s, z2, n2, last2)
         /\ Fit(s, z, n, rows) => Fit(s, z2, n2, rows2)
<1> SUFFICES ASSUME NEW d \in Domains
             PROVE  /\ s.ids[d] \in Nat /\ s.ids[d] <= last2 /\ s.serials[d] \in Nat
                    /\ s.ids[d] = z2[d] /\ z2[d] # 0 => s.serials[d] <= n2[d]
                    /\ (Fit(s, z, n, rows) /\ s.ids[d] = z2[d] /\ z2[d] # 0
                          /\ s.serials[d] = n2[d]) =>
                         Rows(s.rows, z2[d]) = Rows(rows2, z2[d])
  BY DEF Known, Fit
<1>1. /\ s.ids[d] \in Nat /\ s.ids[d] <= last /\ s.serials[d] \in Nat
      /\ s.ids[d] = z[d] /\ z[d] # 0 => s.serials[d] <= n[d]
  BY DEF Known
<1>2. /\ last2 >= last
      /\ z2[d] = z[d] \/ z2[d] = 0 \/ z2[d] > last
      /\ z2[d] = z[d] /\ z[d] # 0 =>
           (n2[d] >= n[d] /\ (n2[d] = n[d] => Rows(rows2, z[d]) = Rows(rows, z[d])))
  BY DEF Moves
<1>3. z[d] \in Nat /\ z2[d] \in Nat /\ n[d] \in Nat /\ n2[d] \in Nat
  OBVIOUS
<1>4. s.ids[d] = z2[d] /\ z2[d] # 0 => z2[d] = z[d]
  BY <1>1, <1>2, <1>3
<1>5. (Fit(s, z, n, rows) /\ s.ids[d] = z[d] /\ z[d] # 0 /\ s.serials[d] = n[d]) =>
        Rows(s.rows, z[d]) = Rows(rows, z[d])
  BY DEF Fit
<1> QED
  BY <1>1, <1>2, <1>3, <1>4, <1>5

-----------------------------------------------------------------------------
(* The invariant.                                                          *)

Phases == {"idle", "records", "settings", "swap"}

StoreInv ==
  /\ zone \in [Domains -> Nat] /\ serial \in [Domains -> Nat] /\ lastZone \in Nat
  /\ \A d \in Domains : zone[d] <= lastZone
  /\ \A d, e \in Domains : zone[d] = zone[e] /\ zone[d] # 0 => d = e
  /\ \A r \in recs : Row(r)

Steps == {"idle", "insert", "drop", "add", "find", "update", "count", "remove", "put", "look",
          "append", "cleanup", "tell", "reload"}

\* Only these two steps go by the domain.
JobInv ==
  /\ at \in [Callers -> Steps] /\ job = [c \in Callers |-> job[c]]
  /\ \A c \in Callers : at[c] \in {"insert", "drop"} => job[c].dom \in Domains

SnapshotShape(s) == s = [ids |-> s.ids, serials |-> s.serials, rows |-> s.rows, ns |-> s.ns]

SnapshotInv ==
  /\ phase \in [Builders -> Phases]
  /\ draft = [b \in Builders |-> draft[b]] /\ \A b \in Builders : SnapshotShape(draft[b])
  /\ Known(served, zone, serial, lastZone) /\ Fit(served, zone, serial, recs)
  /\ \A b \in Builders :
       /\ Known(draft[b], zone, serial, lastZone)
       /\ phase[b] \in {"settings", "swap"} => Fit(draft[b], zone, serial, recs)

LEMMA EmptyIsKnown ==
  ASSUME StoreInv
  PROVE  Known(NoDraft, zone, serial, lastZone)
BY DEF StoreInv, Known, NoDraft

-----------------------------------------------------------------------------
(* Transactions.                                                           *)

Step == Moves(zone, serial, recs, lastZone, zone', serial', recs', lastZone')

\* Rows of one zone change, and its serial is raised.
LEMMA BumpMoves ==
  ASSUME StoreInv, NEW id, BumpSerial(id), zone' = zone, lastZone' = lastZone,
         \A k : k # id => Rows(recs', k) = Rows(recs, k),
         \A r \in recs' : Row(r)
  PROVE  StoreInv' /\ Step
<1>1. serial' = [d \in Domains |-> IF zone[d] = id THEN serial[d] + 1 ELSE serial[d]]
  BY DEF BumpSerial
<1>2. serial' \in [Domains -> Nat]
  BY <1>1 DEF StoreInv
<1>3. StoreInv'
  BY <1>2 DEF StoreInv
<1>4. ASSUME NEW d \in Domains
      PROVE  /\ serial'[d] >= serial[d]
             /\ serial'[d] = serial[d] => Rows(recs', zone[d]) = Rows(recs, zone[d])
  <2>1. serial[d] \in Nat
    BY DEF StoreInv
  <2>2. CASE zone[d] = id
    BY <1>1, <2>1, <2>2
  <2>3. CASE zone[d] # id
    BY <1>1, <2>1, <2>3
  <2> QED
    BY <2>2, <2>3
<1>5. lastZone' >= lastZone
  BY DEF StoreInv
<1> QED
  BY <1>3, <1>4, <1>5 DEF Step, Moves

LEMMA InsertMoves ==
  ASSUME StoreInv, NEW id, NEW f, Insert(id, f)
  PROVE  StoreInv' /\ Step
<1> DEFINE new == [id |-> lastRec + 1, zone |-> id, name |-> f.name, type |-> f.type,
                   value |-> f.value]
<1>1. recs' = recs \cup {new}
  BY DEF Insert
<1>2. Row(new) /\ new.zone = id
  BY DEF Row
<1>3. \A r \in recs' : Row(r)
  BY <1>1, <1>2 DEF StoreInv
<1>4. \A k : k # id => Rows(recs', k) = Rows(recs, k)
  BY <1>1, <1>2 DEF Rows
<1> QED
  BY <1>3, <1>4, BumpMoves DEF Insert

LEMMA RemoveMoves ==
  ASSUME StoreInv, NEW id, NEW gone, recs' = recs \ gone, \A r \in gone : r.zone = id,
         zone' = zone, lastZone' = lastZone,
         BumpSerial(id)
  PROVE  StoreInv' /\ Step
<1>1. \A r \in recs' : Row(r)
  BY DEF StoreInv
<1>2. \A k : k # id => Rows(recs', k) = Rows(recs, k)
  BY DEF Rows
<1> QED
  BY <1>1, <1>2, BumpMoves

LEMMA StillMoves ==
  ASSUME StoreInv, zone' = zone, serial' = serial, recs' = recs, lastZone' = lastZone
  PROVE  StoreInv' /\ Step
<1>1. StoreInv'
  BY DEF StoreInv
<1>2. lastZone' >= lastZone /\ \A d \in Domains : serial'[d] >= serial[d]
  BY DEF StoreInv
<1> QED
  BY <1>1, <1>2 DEF Step, Moves

LEMMA InsertZoneMoves ==
  ASSUME StoreInv, NEW c \in Callers, InsertZone(c), job[c].dom \in Domains
  PROVE  StoreInv' /\ Step
<1> DEFINE d0 == job[c].dom
<1>1. CASE tables' = tables
  BY <1>1, StillMoves DEF tables
<1>2. CASE /\ zone[d0] = 0
           /\ zone' = [zone EXCEPT ![d0] = lastZone + 1]
           /\ serial' = [serial EXCEPT ![d0] = 1]
           /\ recs' = recs \cup Bootstrap(lastZone + 1, job[c].ns, lastRec)
           /\ lastZone' = lastZone + 1
  <2>1. \A r \in Bootstrap(lastZone + 1, job[c].ns, lastRec) : Row(r) /\ r.zone = lastZone + 1
    BY DEF Bootstrap, Row
  <2>2. /\ zone' \in [Domains -> Nat] /\ serial' \in [Domains -> Nat] /\ lastZone' \in Nat
        /\ \A d \in Domains : zone'[d] <= lastZone'
    BY <1>2 DEF StoreInv
  <2>3. ASSUME NEW d \in Domains, NEW e \in Domains, zone'[d] = zone'[e], zone'[d] # 0
        PROVE  d = e
    <3>1. zone[d] \in Nat /\ zone[e] \in Nat /\ zone[d] <= lastZone /\ zone[e] <= lastZone
            /\ lastZone \in Nat
      BY DEF StoreInv
    <3>2. CASE d = d0
      BY <1>2, <2>3, <3>1, <3>2 DEF StoreInv
    <3>3. CASE d # d0 /\ e = d0
      BY <1>2, <2>3, <3>1, <3>3 DEF StoreInv
    <3>4. CASE d # d0 /\ e # d0
      BY <1>2, <2>3, <3>4 DEF StoreInv
    <3> QED
      BY <3>2, <3>3, <3>4
  <2>4. StoreInv'
    BY <1>2, <2>1, <2>2, <2>3 DEF StoreInv
  <2>5. ASSUME NEW d \in Domains
        PROVE  /\ zone'[d] = zone[d] \/ zone'[d] > lastZone
               /\ zone'[d] = zone[d] /\ zone[d] # 0 =>
                    (serial'[d] >= serial[d] /\ Rows(recs', zone[d]) = Rows(recs, zone[d]))
    <3>1. zone[d] \in Nat /\ zone[d] <= lastZone /\ lastZone \in Nat /\ serial[d] \in Nat
      BY DEF StoreInv
    <3>2. CASE d = d0
      BY <1>2, <3>1, <3>2 DEF StoreInv
    <3>3. CASE d # d0
      <4>1. zone'[d] = zone[d] /\ serial'[d] = serial[d]
        BY <1>2, <3>3 DEF StoreInv
      <4>2. zone[d] # lastZone + 1
        BY <3>1
      <4>3. Rows(recs', zone[d]) = Rows(recs, zone[d])
        BY <1>2, <2>1, <4>2 DEF Rows
      <4> QED
        BY <3>1, <4>1, <4>3
    <3> QED
      BY <3>2, <3>3
  <2>6. lastZone' >= lastZone
    BY <1>2 DEF StoreInv
  <2> QED
    BY <2>4, <2>5, <2>6 DEF Step, Moves
<1> QED
  BY <1>1, <1>2 DEF InsertZone

LEMMA DeleteZoneMoves ==
  ASSUME StoreInv, NEW c \in Callers, DeleteZone(c), job[c].dom \in Domains
  PROVE  StoreInv' /\ Step
<1> DEFINE d0 == job[c].dom
<1>1. CASE tables' = tables
  BY <1>1, StillMoves DEF tables
<1>2. CASE /\ zone[d0] # 0
           /\ recs' = recs \ Rows(recs, zone[d0])
           /\ zone' = [zone EXCEPT ![d0] = 0]
           /\ serial' = [serial EXCEPT ![d0] = 0]
           /\ lastZone' = lastZone
  <2>1. StoreInv'
    BY <1>2 DEF StoreInv
  <2>2. ASSUME NEW d \in Domains
        PROVE  /\ zone'[d] = zone[d] \/ zone'[d] = 0
               /\ zone'[d] = zone[d] /\ zone[d] # 0 =>
                    (serial'[d] >= serial[d] /\ Rows(recs', zone[d]) = Rows(recs, zone[d]))
    <3>1. serial[d] \in Nat
      BY DEF StoreInv
    <3>2. CASE d = d0
      BY <1>2, <3>2 DEF StoreInv
    <3>3. CASE d # d0
      <4>1. zone'[d] = zone[d] /\ serial'[d] = serial[d]
        BY <1>2, <3>3 DEF StoreInv
      <4>2. zone[d] # 0 => zone[d] # zone[d0]
        BY <3>3 DEF StoreInv
      <4>3. zone[d] # 0 => Rows(recs', zone[d]) = Rows(recs, zone[d])
        BY <1>2, <4>2 DEF Rows
      <4> QED
        BY <3>1, <4>1, <4>3
    <3> QED
      BY <3>2, <3>3
  <2>3. lastZone' >= lastZone
    BY <1>2 DEF StoreInv
  <2> QED
    BY <2>1, <2>2, <2>3 DEF Step, Moves
<1> QED
  BY <1>1, <1>2 DEF DeleteZone


LEMMA CleanUpMoves ==
  ASSUME StoreInv, NEW c \in Callers, CleanUp(c)
  PROVE  StoreInv' /\ Step
<1> DEFINE gone == Same(job[c].zid, job[c].form)
<1>1. recs' = recs \ gone /\ zone' = zone /\ lastZone' = lastZone
  BY DEF CleanUp
<1>2. \A r \in gone : r.zone = job[c].zid
  BY DEF Same
<1>3. CASE gone = {}
  <2>1. recs' = recs /\ serial' = serial
    BY <1>1, <1>3 DEF CleanUp
  <2> QED
    BY <1>1, <2>1, StillMoves
<1>4. CASE gone # {}
  <2>1. BumpSerial(job[c].zid)
    BY <1>4 DEF CleanUp
  <2> QED
    BY <1>1, <1>2, <2>1, RemoveMoves
<1> QED
  BY <1>3, <1>4

LEMMA PatchRecordMoves ==
  ASSUME StoreInv, NEW c \in Callers, PatchRecord(c)
  PROVE  StoreInv' /\ Step
<1> DEFINE new == {[r EXCEPT !.value = job[c].form.value] : r \in Target(c)}
<1>1. CASE tables' = tables
  BY <1>1, StillMoves DEF tables
<1>2. CASE /\ recs' = (recs \ Target(c)) \cup new
           /\ BumpSerial(job[c].zid) /\ zone' = zone /\ lastZone' = lastZone
  <2>1. ASSUME NEW r \in Target(c)
        PROVE  LET q == [r EXCEPT !.value = job[c].form.value]
               IN  Row(q) /\ q.zone = job[c].zid
    <3>1. Row(r) /\ r.zone = job[c].zid
      BY DEF Target, StoreInv
    <3> QED
      BY <3>1 DEF Row
  <2>2. \A q \in new : Row(q) /\ q.zone = job[c].zid
    BY <2>1
  <2>3. \A r \in Target(c) : r.zone = job[c].zid
    BY DEF Target
  <2> HIDE DEF new
  <2>4. \A r \in recs' : Row(r)
    BY <1>2, <2>2 DEF StoreInv
  <2>5. \A k : k # job[c].zid => Rows(recs', k) = Rows(recs, k)
    BY <1>2, <2>2, <2>3 DEF Rows
  <2> QED
    BY <1>2, <2>4, <2>5, BumpMoves
<1> QED
  BY <1>1, <1>2 DEF PatchRecord

LEMMA DeleteRecordMoves ==
  ASSUME StoreInv, NEW c \in Callers, DeleteRecord(c)
  PROVE  StoreInv' /\ Step
<1>1. CASE tables' = tables
  BY <1>1, StillMoves DEF tables
<1>2. CASE /\ recs' = recs \ Target(c)
           /\ BumpSerial(job[c].zid) /\ zone' = zone /\ lastZone' = lastZone
  <2>1. \A r \in Target(c) : r.zone = job[c].zid
    BY DEF Target
  <2> QED
    BY <1>2, <2>1, RemoveMoves
<1> QED
  BY <1>1, <1>2 DEF DeleteRecord

\* Whatever a caller does to the tables, it moves them.
LEMMA CallerMoves ==
  ASSUME StoreInv, JobInv, NEW c \in Callers, CallerStep(c)
  PROVE  StoreInv' /\ Step
<1>1. CASE InsertZone(c)
  <2>1. job[c].dom \in Domains
    BY <1>1 DEF JobInv, InsertZone
  <2> QED
    BY <1>1, <2>1, InsertZoneMoves
<1>2. CASE DeleteZone(c)
  <2>1. job[c].dom \in Domains
    BY <1>2 DEF JobInv, DeleteZone
  <2> QED
    BY <1>2, <2>1, DeleteZoneMoves
<1>3. CASE AddRecord(c)
  BY <1>3, InsertMoves DEF AddRecord
<1>4. CASE PatchRecord(c)
  BY <1>4, PatchRecordMoves
<1>5. CASE DeleteRecord(c)
  BY <1>5, DeleteRecordMoves
<1>6. CASE PutSettings(c)
  BY <1>6, StillMoves DEF PutSettings
<1>7. CASE AddIfAbsent(c)
  <2>1. CASE tables' = tables
    BY <2>1, StillMoves DEF tables
  <2>2. CASE Insert(job[c].zid, job[c].form)
    BY <2>2, InsertMoves
  <2> QED
    BY <1>7, <2>1, <2>2 DEF AddIfAbsent, tables
<1>8. CASE CleanUp(c)
  BY <1>8, CleanUpMoves
<1>9. CASE Tell(c)
  BY <1>9, StillMoves DEF Tell, tables
<1> QED
  BY <1>1, <1>2, <1>3, <1>4, <1>5, <1>6, <1>7, <1>8, <1>9 DEF CallerStep

-----------------------------------------------------------------------------
(* What callers know.                                                      *)

LEMMA AskKeepsJob ==
  ASSUME JobInv, NEW c \in Callers, Ask(c)
  PROVE  JobInv' /\ UNCHANGED tables /\ UNCHANGED serving
<1>1. ASSUME NEW step \in Steps, NEW j, Begin(c, step, j),
             step \in {"insert", "drop"} => j.dom \in Domains
      PROVE  JobInv' /\ UNCHANGED tables /\ UNCHANGED serving
  BY <1>1 DEF Begin, JobInv
<1>2. ASSUME NEW d \in Domains, NEW step \in Steps, NEW j, Owned(d, step, c, j),
             step \notin {"insert", "drop"}
      PROVE  JobInv' /\ UNCHANGED tables /\ UNCHANGED serving
  BY <1>1, <1>2 DEF Owned
<1>3. ASSUME NEW d \in Domains, AskCreateZone(c, d) \/ AskDeleteZone(c, d)
      PROVE  JobInv' /\ UNCHANGED tables /\ UNCHANGED serving
  <2>1. [NoJob EXCEPT !.dom = d, !.ns = settings].dom = d
    BY DEF NoJob
  <2>2. [NoJob EXCEPT !.dom = d, !.zid = zone[d]].dom = d
    BY DEF NoJob
  <2>3. CASE AskCreateZone(c, d)
    BY <1>1, <2>1, <2>3 DEF AskCreateZone, Steps
  <2>4. CASE AskDeleteZone(c, d)
    BY <1>1, <2>2, <2>4 DEF AskDeleteZone, Owned, Steps
  <2> QED
    BY <1>3, <2>3, <2>4
<1>4. ASSUME NEW d \in Domains, NEW f, AskAdd(c, d, f) \/ AskAppend(c, d, f) \/ AskCleanUp(c, d, f)
      PROVE  JobInv' /\ UNCHANGED tables /\ UNCHANGED serving
  BY <1>2, <1>4 DEF AskAdd, AskAppend, AskCleanUp, Steps
<1>5. ASSUME NEW d \in Domains, NEW id, NEW f,
             AskPatch(c, d, id, f) \/ AskDelete(c, d, id) \/ AskRemoveByHand(c, d, id)
      PROVE  JobInv' /\ UNCHANGED tables /\ UNCHANGED serving
  BY <1>2, <1>5 DEF AskPatch, AskDelete, AskRemoveByHand, Steps
<1>6. ASSUME NEW ns, AskPutSettings(c, ns)
      PROVE  JobInv' /\ UNCHANGED tables /\ UNCHANGED serving
  BY <1>1, <1>6 DEF AskPutSettings, Steps
<1>7. ASSUME NEW h, AskProvision(c, h)
      PROVE  JobInv' /\ UNCHANGED tables /\ UNCHANGED serving
  BY <1>2, <1>7 DEF AskProvision, ZoneFor, Apexes, Steps
<1> QED
  BY <1>3, <1>4, <1>5, <1>6, <1>7 DEF Ask

\* The steps of a caller leave the other callers alone, and lead to no step that
\* goes by the domain.
LEMMA CallerKeepsJob ==
  ASSUME JobInv, NEW c \in Callers, CallerStep(c)
  PROVE  JobInv' /\ UNCHANGED serving
<1>1. ASSUME NEW step \in Steps, step \notin {"insert", "drop"}, Goto(c, step)
      PROVE  JobInv' /\ UNCHANGED serving
  BY <1>1 DEF Goto, JobInv
<1>2. ASSUME Answers(c)
      PROVE  JobInv' /\ UNCHANGED serving
  BY <1>2 DEF Answers, JobInv, Steps
<1>3. ASSUME NEW changed, Conclude(c, changed)
      PROVE  JobInv' /\ UNCHANGED serving
  BY <1>1, <1>2, <1>3 DEF Conclude, Steps
<1>4. CASE InsertZone(c)
  BY <1>1, <1>2, <1>4 DEF InsertZone, Steps
<1>5. CASE DeleteZone(c)
  BY <1>1, <1>2, <1>5 DEF DeleteZone, Steps
<1>6. CASE AddRecord(c)
  BY <1>1, <1>6 DEF AddRecord, Steps
<1>7. CASE PatchRecord(c)
  BY <1>1, <1>2, <1>7 DEF PatchRecord, Steps
<1>8. CASE DeleteRecord(c)
  BY <1>1, <1>2, <1>8 DEF DeleteRecord, Steps
<1>9. CASE PutSettings(c)
  BY <1>1, <1>9 DEF PutSettings, Steps
<1>10. CASE AddIfAbsent(c)
  <2>1. CASE Conclude(c, job[c].added)
    BY <1>3, <2>1
  <2>2. ASSUME NEW f, NEW step \in {"append", "look"},
               job' = [job EXCEPT ![c] = [job[c] EXCEPT !.left = job[c].left \ {f}, !.form = f]],
               at' = [at EXCEPT ![c] = step], UNCHANGED serving
        PROVE  JobInv' /\ UNCHANGED serving
    BY <2>2 DEF JobInv, Steps
  <2>3. CASE /\ job' = [job EXCEPT ![c] = [job[c] EXCEPT !.added = TRUE]]
             /\ at' = [at EXCEPT ![c] = "look"] /\ UNCHANGED serving
    BY <2>3 DEF JobInv, Steps
  <2> QED
    BY <1>10, <2>1, <2>2, <2>3 DEF AddIfAbsent, Steps
<1>11. CASE CleanUp(c)
  BY <1>3, <1>11 DEF CleanUp, Steps
<1>12. CASE Tell(c)
  BY <1>12 DEF Tell, JobInv, Steps
<1> QED
  BY <1>4, <1>5, <1>6, <1>7, <1>8, <1>9, <1>10, <1>11, <1>12 DEF CallerStep

-----------------------------------------------------------------------------
(* Snapshots.                                                              *)

LEMMA MovesKeepSnapshots ==
  ASSUME StoreInv, StoreInv', Step, SnapshotInv, UNCHANGED serving
  PROVE  SnapshotInv'
<1>1. ASSUME NEW s, Known(s, zone, serial, lastZone)
      PROVE  /\ Known(s, zone', serial', lastZone')
             /\ Fit(s, zone, serial, recs) => Fit(s, zone', serial', recs')
  BY <1>1, MovesKeep DEF Step, StoreInv
<1>2. phase' = phase /\ draft' = draft /\ served' = served
  BY DEF serving
<1> QED
  BY <1>1, <1>2 DEF SnapshotInv

LEMMA BuildKeepsSnapshots ==
  ASSUME StoreInv, JobInv, SnapshotInv, NEW b \in Builders,
         BeginBuild(b) \/ AllDNSData(b) \/ Swap(b)
  PROVE  StoreInv' /\ JobInv' /\ SnapshotInv'
<1>1. zone' = zone /\ serial' = serial /\ recs' = recs /\ lastZone' = lastZone
  BY DEF BeginBuild, AllDNSData, Read, Swap, tables
<1>2. StoreInv'
  BY <1>1 DEF StoreInv
<1>3. JobInv'
  <2>1. CASE at' = at /\ job' = job
    BY <2>1 DEF JobInv
  <2>2. CASE at' = [at EXCEPT ![b] = "idle"] /\ job' = [job EXCEPT ![b] = NoJob]
    BY <2>2 DEF JobInv, Steps
  <2> QED
    BY <2>1, <2>2 DEF BeginBuild, AllDNSData, Read, Swap
<1>4. ASSUME phase' \in [Builders -> Phases], draft' = [o \in Builders |-> draft'[o]],
             \A o \in Builders \ {b} : phase'[o] = phase[o] /\ draft'[o] = draft[o],
             SnapshotShape(draft'[b]), Known(draft'[b], zone, serial, lastZone),
             phase'[b] \in {"settings", "swap"} => Fit(draft'[b], zone, serial, recs),
             Known(served', zone, serial, lastZone), Fit(served', zone, serial, recs)
      PROVE  SnapshotInv'
  BY <1>1, <1>4 DEF SnapshotInv
<1>9. Known(served, zone, serial, lastZone) /\ Fit(served, zone, serial, recs)
  BY DEF SnapshotInv
<1>5. CASE BeginBuild(b)
  <2>1. SnapshotShape(NoDraft)
    BY DEF NoDraft, SnapshotShape
  <2>2. draft'[b] = [NoDraft EXCEPT !.ids = zone, !.serials = serial]
    BY <1>5 DEF BeginBuild, SnapshotInv
  <2>3. draft'[b].ids = zone /\ draft'[b].serials = serial /\ SnapshotShape(draft'[b])
    BY <2>2 DEF NoDraft, SnapshotShape
  <2>4. /\ phase' \in [Builders -> Phases] /\ draft' = [o \in Builders |-> draft'[o]]
        /\ \A o \in Builders \ {b} : phase'[o] = phase[o] /\ draft'[o] = draft[o]
        /\ phase'[b] = "records" /\ served' = served
    BY <1>5 DEF BeginBuild, SnapshotInv, Phases
  <2>5. Known(draft'[b], zone, serial, lastZone)
    BY <2>3 DEF Known, StoreInv
  <2> QED
    BY <1>2, <1>3, <1>4, <1>9, <2>3, <2>4, <2>5
<1>6. CASE Read(b, "records", "settings", [draft[b] EXCEPT !.rows = recs])
  <2>1. draft'[b] = [draft[b] EXCEPT !.rows = recs]
    BY <1>6 DEF Read, SnapshotInv
  <2>2. /\ draft'[b].ids = draft[b].ids /\ draft'[b].serials = draft[b].serials
        /\ draft'[b].rows = recs /\ SnapshotShape(draft'[b])
    BY <2>1 DEF SnapshotInv, SnapshotShape
  <2>3. /\ phase' \in [Builders -> Phases] /\ draft' = [o \in Builders |-> draft'[o]]
        /\ \A o \in Builders \ {b} : phase'[o] = phase[o] /\ draft'[o] = draft[o]
        /\ served' = served
    BY <1>6 DEF Read, SnapshotInv, Phases
  <2>4. Known(draft'[b], zone, serial, lastZone)
    BY <2>2 DEF SnapshotInv, Known
  <2>5. Fit(draft'[b], zone, serial, recs)
    BY <2>2 DEF Fit
  <2> QED
    BY <1>2, <1>3, <1>4, <1>9, <2>2, <2>3, <2>4, <2>5
<1>7. CASE Read(b, "settings", "swap", [draft[b] EXCEPT !.ns = settings])
  <2>1. draft'[b] = [draft[b] EXCEPT !.ns = settings]
    BY <1>7 DEF Read, SnapshotInv
  <2>2. /\ draft'[b].ids = draft[b].ids /\ draft'[b].serials = draft[b].serials
        /\ draft'[b].rows = draft[b].rows /\ SnapshotShape(draft'[b])
    BY <2>1 DEF SnapshotInv, SnapshotShape
  <2>3. /\ phase' \in [Builders -> Phases] /\ draft' = [o \in Builders |-> draft'[o]]
        /\ \A o \in Builders \ {b} : phase'[o] = phase[o] /\ draft'[o] = draft[o]
        /\ served' = served /\ phase[b] = "settings"
    BY <1>7 DEF Read, SnapshotInv, Phases
  <2>4. Known(draft[b], zone, serial, lastZone) /\ Fit(draft[b], zone, serial, recs)
    BY <2>3 DEF SnapshotInv
  <2>5. Known(draft'[b], zone, serial, lastZone)
    BY <2>2, <2>4 DEF Known
  <2>6. Fit(draft'[b], zone, serial, recs)
    BY <2>2, <2>4 DEF Fit
  <2> QED
    BY <1>2, <1>3, <1>4, <1>9, <2>2, <2>3, <2>5, <2>6
<1>8. CASE Swap(b)
  <2>1. /\ phase' \in [Builders -> Phases] /\ draft' = [o \in Builders |-> draft'[o]]
        /\ \A o \in Builders \ {b} : phase'[o] = phase[o] /\ draft'[o] = draft[o]
        /\ phase[b] = "swap" /\ phase'[b] = "idle"
        /\ draft'[b] = NoDraft /\ served' = draft[b]
    BY <1>8 DEF Swap, SnapshotInv, Phases
  <2>2. Known(served', zone, serial, lastZone) /\ Fit(served', zone, serial, recs)
    BY <2>1 DEF SnapshotInv
  <2>3. SnapshotShape(NoDraft)
    BY DEF NoDraft, SnapshotShape
  <2> QED
    BY <1>2, <1>3, <1>4, <2>1, <2>2, <2>3, EmptyIsKnown
<1> QED
  BY <1>2, <1>3, <1>5, <1>6, <1>7, <1>8 DEF AllDNSData

-----------------------------------------------------------------------------
(* The theorem.                                                            *)

IInv == StoreInv /\ JobInv /\ SnapshotInv

LEMMA InitInv == Init => IInv
<1> SUFFICES ASSUME Init PROVE IInv
  OBVIOUS
<1> PICK d \in Domains, there \in BOOLEAN :
       /\ zone = [e \in Domains |-> IF there /\ e = d THEN 1 ELSE 0]
       /\ serial = [e \in Domains |-> IF there /\ e = d THEN 1 ELSE 0]
       /\ recs = IF there THEN Bootstrap(1, settings, 0) ELSE {}
       /\ lastZone = (IF there THEN 1 ELSE 0)
  BY DEF Init
<1>1. \A r \in recs : Row(r)
  BY DEF Bootstrap, Row
<1>2. StoreInv
  BY <1>1 DEF StoreInv
<1>3. JobInv
  BY DEF Init, JobInv, Steps
<1>4. /\ served.ids = zone /\ served.serials = serial /\ served.rows = recs
  BY DEF Init, Snapshot
<1>5. Known(served, zone, serial, lastZone) /\ Fit(served, zone, serial, recs)
  BY <1>2, <1>4 DEF Known, Fit, StoreInv
<1>6. SnapshotShape(NoDraft)
  BY DEF NoDraft, SnapshotShape
<1>7. \A b \in Builders : draft[b] = NoDraft /\ phase[b] = "idle"
  BY DEF Init, Builders
<1>8. phase \in [Builders -> Phases] /\ draft = [b \in Builders |-> draft[b]]
  BY DEF Init, Builders, Phases
<1>9. SnapshotInv
  BY <1>2, <1>5, <1>6, <1>7, <1>8, EmptyIsKnown DEF SnapshotInv
<1> QED
  BY <1>2, <1>3, <1>9 DEF IInv

LEMMA NextInv == IInv /\ [Next]_zonesVars => IInv'
<1> SUFFICES ASSUME IInv, [Next]_zonesVars PROVE IInv'
  OBVIOUS
<1>1. StoreInv /\ JobInv /\ SnapshotInv
  BY DEF IInv
<1>2. ASSUME NEW c \in Callers, Ask(c) PROVE IInv'
  <2>1. JobInv' /\ UNCHANGED tables /\ UNCHANGED serving
    BY <1>1, <1>2, AskKeepsJob
  <2>2. StoreInv' /\ Step
    BY <1>1, <2>1, StillMoves DEF tables
  <2> QED
    BY <1>1, <2>1, <2>2, MovesKeepSnapshots DEF IInv
<1>3. ASSUME NEW c \in Callers, CallerStep(c) PROVE IInv'
  <2>1. JobInv' /\ UNCHANGED serving
    BY <1>1, <1>3, CallerKeepsJob
  <2>2. StoreInv' /\ Step
    BY <1>1, <1>3, CallerMoves
  <2> QED
    BY <1>1, <2>1, <2>2, MovesKeepSnapshots DEF IInv
<1>4. ASSUME NEW b \in Builders, BeginBuild(b) \/ AllDNSData(b) \/ Swap(b) PROVE IInv'
  BY <1>1, <1>4, BuildKeepsSnapshots DEF IInv
<1>5. CASE UNCHANGED zonesVars
  <2>1. StoreInv' /\ Step
    BY <1>1, <1>5, StillMoves DEF zonesVars
  <2>2. JobInv' /\ UNCHANGED serving
    BY <1>1, <1>5 DEF zonesVars, JobInv, serving
  <2> QED
    BY <1>1, <2>1, <2>2, MovesKeepSnapshots DEF IInv
<1> QED
  BY <1>2, <1>3, <1>4, <1>5 DEF Next

\* Whatever is created, changed and deleted between the queries of however many
\* builds, a zone served under the serial of the store (dns_zones.serial, as
\* AllDNSData reads it) is served with the records of the store.
THEOREM SerialTells == Spec => []SerialTellsContent
<1>1. IInv => SerialTellsContent
  BY DEF IInv, SnapshotInv, Fit, SerialTellsContent, Served
<1> QED
  BY <1>1, InitInv, NextInv, PTL DEF Spec

-----------------------------------------------------------------------------
(* Types.                                                                  *)

JobFields == {"zid", "dom", "form", "rid", "ns", "left", "added", "solver"}

JobShape(j) == JobFields \subseteq DOMAIN j /\ j = [x \in DOMAIN j |-> j[x]]

\* A job of a caller at a step; lz and lr are the last ids given.
Fits(step, j, lz, lr) ==
  /\ JobShape(j)
  /\ step \in {"add", "find", "update", "count", "remove", "look", "append", "cleanup"} =>
       j.zid \in 1 .. lz
  /\ step \in {"find", "update", "count", "remove"} => j.rid \in 1 .. lr
  /\ step \in {"add", "append"} => j.form.type \in RecordTypes
  /\ step \in {"look", "append"} => \A f \in j.left : f.type \in RecordTypes
  /\ step = "cleanup" => j.form.type # "NS"
  /\ step \in {"insert", "put"} => j.ns \in Settings

CallerTypes ==
  /\ at \in [Callers -> Steps] /\ job = [c \in Callers |-> job[c]]
  /\ \A c \in Callers : Fits(at[c], job[c], lastZone, lastRec)

RowTypes ==
  /\ lastRec \in Nat
  /\ \A r \in recs : r.id \in 1 .. lastRec /\ r.zone \in 1 .. lastZone /\ r.type \in RecordTypes
  /\ \A r, s \in recs : r.id = s.id => r = s

OtherTypes ==
  /\ settings \in Settings
  /\ requests \in 0 .. MaxRequests /\ strained \subseteq 1 .. lastZone
  /\ \A c \in Callers : Building(c) => at[c] = "reload"

SignalTypes == pending \in BOOLEAN /\ raced \in BOOLEAN

Types == IInv /\ CallerTypes /\ RowTypes /\ OtherTypes /\ SignalTypes

LEMMA TypesAreTypeOK == Types => TypeOK
<1> SUFFICES ASSUME Types PROVE TypeOK
  OBVIOUS
<1>1. zone \in [Domains -> 0 .. lastZone]
  BY DEF Types, IInv, StoreInv
<1> QED
  BY <1>1 DEF Types, IInv, StoreInv, RowTypes, OtherTypes, SignalTypes, TypeOK

\* The apex name servers of a new zone get ids of their own, above the last one.
LEMMA BootstrapRows ==
  ASSUME NEW id, NEW names, IsFiniteSet(names), NEW last \in Nat
  PROVE  /\ Cardinality(names) \in Nat
         /\ \A r \in Bootstrap(id, names, last) :
              /\ r.id \in last + 1 .. last + Cardinality(names)
              /\ r.zone = id /\ r.type = "NS" /\ r.name = <<>>
         /\ \A r, s \in Bootstrap(id, names, last) : r.id = s.id => r = s
<1> DEFINE n == Cardinality(names)
<1>1. n \in Nat /\ ExistsBijection(1 .. n, names)
  BY FS_CardinalityType
<1>2. ExistsBijection(names, 1 .. n)
  BY <1>1, Fun_ExistsBijSymmetric
<1> DEFINE Numbers(f) == \A a, b \in names : a # b => f[a] # f[b]
<1>3. \E f \in [names -> 1 .. n] : Numbers(f)
  BY <1>2 DEF ExistsBijection, Bijection, Injection, IsInjective
<1> DEFINE number == CHOOSE f \in [names -> 1 .. n] : Numbers(f)
<1>4. number \in [names -> 1 .. n] /\ Numbers(number)
  BY <1>3
<1>5. Bootstrap(id, names, last) =
        {[id |-> last + number[x], zone |-> id, name |-> <<>>, type |-> "NS", value |-> x] : x \in names}
  BY DEF Bootstrap
<1> HIDE DEF number
<1> QED
  BY <1>1, <1>4, <1>5

LEMMA BootstrapSize ==
  ASSUME NEW id, NEW names, IsFiniteSet(names), NEW last \in Nat
  PROVE  Cardinality(Bootstrap(id, names, last)) = Cardinality(names)
<1> DEFINE n == Cardinality(names)
           Numbers(f) == \A a, b \in names : a # b => f[a] # f[b]
<1>1. n \in Nat /\ ExistsBijection(1 .. n, names)
  BY FS_CardinalityType
<1>2. ExistsBijection(names, 1 .. n)
  BY <1>1, Fun_ExistsBijSymmetric
<1>3. \E f \in [names -> 1 .. n] : Numbers(f)
  BY <1>2 DEF ExistsBijection, Bijection, Injection, IsInjective
<1> DEFINE number == CHOOSE f \in [names -> 1 .. n] : Numbers(f)
           row(x) == [id |-> last + number[x], zone |-> id, name |-> <<>>, type |-> "NS",
                      value |-> x]
           rows == {row(x) : x \in names}
<1>4. Bootstrap(id, names, last) = rows
  BY DEF Bootstrap
<1>5. \A x \in names : row(x).value = x
  OBVIOUS
<1> HIDE DEF row
<1>6. [x \in names |-> row(x)] \in Bijection(names, rows)
  BY <1>5 DEF Bijection, Injection, Surjection, IsInjective
<1> QED
  BY <1>4, <1>6, FS_Bijection DEF ExistsBijection

\* Ids only grow, and what fitted goes on to fit.
LEMMA FitsGrows ==
  ASSUME NEW step, NEW j, NEW lz \in Nat, NEW lz2 \in Nat, NEW lr \in Nat, NEW lr2 \in Nat,
         lz <= lz2, lr <= lr2, Fits(step, j, lz, lr)
  PROVE  Fits(step, j, lz2, lr2)
<1>1. \A x : (x \in 1 .. lz => x \in 1 .. lz2) /\ (x \in 1 .. lr => x \in 1 .. lr2)
  OBVIOUS
<1> QED
  BY <1>1, Zenon DEF Fits

\* One caller goes on; the others wait.
LEMMA CallerGoes ==
  ASSUME Types, NEW c \in Callers, NEW step \in Steps, NEW j,
         lastZone' \in Nat, lastRec' \in Nat, lastZone <= lastZone', lastRec <= lastRec',
         Fits(step, j, lastZone', lastRec'),
         at' = [at EXCEPT ![c] = step], job' = [job EXCEPT ![c] = j]
  PROVE  CallerTypes'
<1>1. at' \in [Callers -> Steps] /\ job' = [o \in Callers |-> job'[o]]
  BY DEF Types, CallerTypes
<1>2. \A o \in Callers : at'[o] = (IF o = c THEN step ELSE at[o])
                         /\ job'[o] = (IF o = c THEN j ELSE job[o])
  BY DEF Types, CallerTypes
<1>3. ASSUME NEW o \in Callers PROVE Fits(at'[o], job'[o], lastZone', lastRec')
  <2>1. CASE o = c
    BY <1>2, <2>1
  <2>2. CASE o # c
    BY <1>2, <2>2, FitsGrows DEF Types, CallerTypes, IInv, StoreInv, RowTypes
  <2> QED
    BY <2>1, <2>2
<1> QED
  BY <1>1, <1>3 DEF CallerTypes

-----------------------------------------------------------------------------
(* Requests fit.                                                           *)

LEMMA BeginTypes ==
  ASSUME Types, NEW c \in Callers, NEW step \in Steps, NEW j, Begin(c, step, j),
         Fits(step, j, lastZone, lastRec)
  PROVE  /\ CallerTypes' /\ RowTypes' /\ SignalTypes'
         /\ strained' \subseteq 1 .. lastZone => OtherTypes'
<1>1. CallerTypes'
  <2>1. lastZone' = lastZone /\ lastRec' = lastRec
    BY DEF Begin, tables
  <2>2. /\ lastZone' \in Nat /\ lastRec' \in Nat /\ lastZone <= lastZone' /\ lastRec <= lastRec'
        /\ Fits(step, j, lastZone', lastRec')
    BY <2>1 DEF Types, IInv, StoreInv, RowTypes
  <2>3. at' = [at EXCEPT ![c] = step] /\ job' = [job EXCEPT ![c] = j]
    BY DEF Begin
  <2> QED
    BY <2>2, <2>3, CallerGoes, Zenon
<1>2. RowTypes' /\ SignalTypes'
  <2>1. RowTypes'
    BY DEF Begin, tables, Types, RowTypes
  <2>2. pending' = pending /\ raced' = raced
    BY DEF Begin, serving
  <2> QED
    BY <2>1, <2>2 DEF Types, SignalTypes
<1>3. strained' \subseteq 1 .. lastZone => OtherTypes'
  <2>1. ASSUME NEW o \in Callers, Building(o)' PROVE at'[o] = "reload"
    <3>1. Building(o) /\ at[o] = "reload" /\ at[c] = "idle"
      BY <2>1 DEF Begin, serving, Building, Types, OtherTypes
    <3> QED
      BY <3>1 DEF Begin, Types, CallerTypes
  <2>2. settings' = settings /\ requests' \in 0 .. MaxRequests /\ lastZone' = lastZone
    BY DEF Begin, tables, Types, OtherTypes
  <2> QED
    BY <2>1, <2>2 DEF Types, OtherTypes
<1> QED
  BY <1>1, <1>2, <1>3

\* The job that Owned begins with.
LEMMA OwnedJob ==
  ASSUME Types, NEW c \in Callers, NEW d \in Domains, NEW step \in Steps, NEW j,
         JobShape(j), Owned(d, step, c, j)
  PROVE  \E k : /\ Begin(c, step, k) /\ JobShape(k) /\ k.zid = zone[d] /\ zone[d] \in 1 .. lastZone
                /\ k.form = j.form /\ k.rid = j.rid /\ k.left = j.left
<1> DEFINE k == [j EXCEPT !.dom = d, !.zid = zone[d]]
<1>1. JobShape(k)
  BY DEF JobShape, JobFields
<1>2. k.zid = zone[d] /\ k.form = j.form /\ k.rid = j.rid /\ k.left = j.left
  BY DEF JobShape, JobFields
<1>3. zone[d] \in 1 .. lastZone
  BY DEF Owned, Types, IInv, StoreInv
<1> QED
  BY <1>1, <1>2, <1>3 DEF Owned

LEMMA AskTypes ==
  ASSUME Types, NEW c \in Callers, Ask(c)
  PROVE  CallerTypes' /\ RowTypes' /\ OtherTypes' /\ SignalTypes'
<1> DEFINE Goal == CallerTypes' /\ RowTypes' /\ OtherTypes' /\ SignalTypes'
<1>1. JobShape(NoJob) /\ NoJob.left = {}
  BY DEF JobShape, JobFields, NoJob
<1>2. ASSUME NEW d \in Domains, NEW step \in Steps, NEW j, JobShape(j), Owned(d, step, c, j),
             step \notin {"insert", "put"},
             step \in {"find", "update", "count", "remove"} => j.rid \in 1 .. lastRec,
             step \in {"add", "append"} => j.form.type \in RecordTypes,
             step \in {"look", "append"} => \A f \in j.left : f.type \in RecordTypes,
             step = "cleanup" => j.form.type # "NS",
             strained' = strained \/ strained' = strained \cup {zone[d]}
      PROVE  Goal
  <2>1. PICK k : /\ Begin(c, step, k) /\ JobShape(k) /\ k.zid = zone[d] /\ zone[d] \in 1 .. lastZone
                 /\ k.form = j.form /\ k.rid = j.rid /\ k.left = j.left
    BY <1>2, OwnedJob
  <2>2. Fits(step, k, lastZone, lastRec)
    BY <1>2, <2>1, Zenon DEF Fits
  <2>3. strained' \subseteq 1 .. lastZone
    BY <1>2, <2>1 DEF Types, OtherTypes
  <2> QED
    BY <2>1, <2>2, <2>3, BeginTypes
<1>3. ASSUME NEW d \in Domains, AskCreateZone(c, d) PROVE Goal
  <2> DEFINE j == [NoJob EXCEPT !.dom = d, !.ns = settings]
  <2>1. JobShape(j) /\ j.ns = settings
    BY DEF JobShape, JobFields, NoJob
  <2>2. Fits("insert", j, lastZone, lastRec) /\ "insert" \in Steps
    BY <2>1 DEF Fits, Steps, Types, OtherTypes
  <2>3. Begin(c, "insert", j) /\ strained' = strained
    BY <1>3 DEF AskCreateZone
  <2> QED
    BY <2>2, <2>3, BeginTypes DEF Types, OtherTypes
<1>4. ASSUME NEW ns \in Settings, AskPutSettings(c, ns) PROVE Goal
  <2> DEFINE j == [NoJob EXCEPT !.ns = ns]
  <2>1. JobShape(j) /\ j.ns = ns
    BY DEF JobShape, JobFields, NoJob
  <2>2. Fits("put", j, lastZone, lastRec) /\ "put" \in Steps
    BY <2>1 DEF Fits, Steps
  <2>3. Begin(c, "put", j) /\ strained' = strained
    BY <1>4 DEF AskPutSettings
  <2> QED
    BY <2>2, <2>3, BeginTypes DEF Types, OtherTypes
<1>5. ASSUME NEW d \in Domains, AskDeleteZone(c, d) PROVE Goal
  BY <1>1, <1>2, <1>5 DEF AskDeleteZone, Steps
<1>6. ASSUME NEW d \in Domains, NEW f \in Forms, AskAdd(c, d, f) PROVE Goal
  <2> DEFINE j == [NoJob EXCEPT !.form = f]
  <2>1. JobShape(j) /\ j.form = f
    BY DEF JobShape, JobFields, NoJob
  <2>2. f.type \in RecordTypes
    BY DEF RecordTypes
  <2> QED
    BY <1>2, <1>6, <2>1, <2>2 DEF AskAdd, Steps
<1>7. ASSUME NEW d \in Domains, NEW r \in recs, NEW f \in Forms, AskPatch(c, d, r.id, f) PROVE Goal
  <2> DEFINE j == [NoJob EXCEPT !.rid = r.id, !.form = f]
  <2>1. JobShape(j) /\ j.rid = r.id
    BY DEF JobShape, JobFields, NoJob
  <2>2. r.id \in 1 .. lastRec
    BY DEF Types, RowTypes
  <2> QED
    BY <1>2, <1>7, <2>1, <2>2 DEF AskPatch, Steps
<1>8. ASSUME NEW d \in Domains, NEW r \in recs, AskDelete(c, d, r.id) \/ AskRemoveByHand(c, d, r.id)
      PROVE  Goal
  <2> DEFINE j == [NoJob EXCEPT !.rid = r.id]
  <2>1. JobShape(j) /\ j.rid = r.id
    BY DEF JobShape, JobFields, NoJob
  <2>2. r.id \in 1 .. lastRec
    BY DEF Types, RowTypes
  <2> QED
    BY <1>2, <1>8, <2>1, <2>2 DEF AskDelete, AskRemoveByHand, Steps
<1>9. ASSUME NEW h \in Hosts, AskProvision(c, h) PROVE Goal
  <2>1. PICK d \in Domains :
          /\ Owned(d, "look", c, [NoJob EXCEPT !.left =
               {[name |-> Label(h, d), type |-> a.type, value |-> a.value] : a \in Addresses}])
          /\ strained' = strained
    BY <1>9 DEF AskProvision, ZoneFor, Apexes
  <2> DEFINE left == {[name |-> Label(h, d), type |-> a.type, value |-> a.value] : a \in Addresses}
             j == [NoJob EXCEPT !.left = left]
  <2>2. \A f \in left : f.type \in RecordTypes
    BY DEF RecordTypes
  <2>3. JobShape(j) /\ j.left = left
    BY DEF JobShape, JobFields, NoJob
  <2>4. Owned(d, "look", c, j) /\ strained' = strained
    BY <2>1
  <2> HIDE DEF j
  <2> QED
    BY <1>2, <2>2, <2>3, <2>4 DEF Steps
<1>10. ASSUME NEW d \in Domains, NEW f \in Challenges, AskAppend(c, d, f) PROVE Goal
  <2> DEFINE j == [NoJob EXCEPT !.left = {f}, !.solver = TRUE]
  <2>1. JobShape(j) /\ j.left = {f}
    BY DEF JobShape, JobFields, NoJob
  <2>2. f.type \in RecordTypes
    BY DEF RecordTypes
  <2> QED
    BY <1>2, <1>10, <2>1, <2>2 DEF AskAppend, Steps
<1>11. ASSUME NEW d \in Domains, NEW f \in Challenges, AskCleanUp(c, d, f) PROVE Goal
  <2> DEFINE j == [NoJob EXCEPT !.form = f, !.solver = TRUE]
  <2>1. JobShape(j) /\ j.form = f
    BY DEF JobShape, JobFields, NoJob
  <2> QED
    BY <1>2, <1>11, <2>1 DEF AskCleanUp, Steps
<1> QED
  BY <1>3, <1>4, <1>5, <1>6, <1>7, <1>8, <1>9, <1>10, <1>11 DEF Ask

-----------------------------------------------------------------------------
(* Transactions fit.                                                       *)

LEMMA StepTypes ==
  ASSUME Types, NEW c \in Callers, NEW step \in Steps, NEW j, at[c] # "reload",
         lastZone' \in Nat, lastZone <= lastZone', lastRec <= lastRec', RowTypes',
         Fits(step, j, lastZone', lastRec'), settings' \in Settings, pending' \in BOOLEAN,
         at' = [at EXCEPT ![c] = step], job' = [job EXCEPT ![c] = j],
         UNCHANGED <<serving, requests, strained>>
  PROVE  CallerTypes' /\ RowTypes' /\ OtherTypes' /\ SignalTypes'
<1>1. CallerTypes'
  BY CallerGoes DEF RowTypes
<1>2. OtherTypes'
  <2>1. ASSUME NEW o \in Callers, Building(o)' PROVE at'[o] = "reload"
    <3>1. Building(o) /\ at[o] = "reload" /\ o # c
      BY <2>1 DEF serving, Building, Types, OtherTypes
    <3> QED
      BY <3>1 DEF Types, CallerTypes
  <2>2. strained \subseteq 1 .. lastZone' /\ requests \in 0 .. MaxRequests
    BY DEF Types, IInv, StoreInv, OtherTypes
  <2> QED
    BY <2>1, <2>2 DEF OtherTypes
<1>3. SignalTypes'
  BY DEF Types, SignalTypes, serving
<1> QED
  BY <1>1, <1>2, <1>3

\* Its work done, a job makes no more demands.
LEMMA FitsAfter ==
  ASSUME NEW from, NEW j, NEW lz, NEW lr, NEW lz2, NEW lr2, Fits(from, j, lz, lr),
         NEW step \in {"idle", "tell", "reload", "drop"}
  PROVE  Fits(step, j, lz2, lr2)
<1>1. JobShape(j)
  BY DEF Fits
<1> QED
  BY <1>1 DEF Fits

LEMMA NoJobFits == ASSUME NEW lz, NEW lr PROVE Fits("idle", NoJob, lz, lr)
<1>1. JobShape(NoJob)
  BY DEF JobShape, JobFields, NoJob
<1> QED
  BY <1>1 DEF Fits

LEMMA FewerRows ==
  ASSUME Types, recs' \subseteq recs, lastRec' = lastRec, lastZone' = lastZone
  PROVE  RowTypes'
  BY DEF Types, RowTypes

LEMMA InsertRow ==
  ASSUME Types, NEW id \in 1 .. lastZone, NEW f, f.type \in RecordTypes, Insert(id, f)
  PROVE  RowTypes' /\ lastRec' = lastRec + 1 /\ UNCHANGED <<zone, settings, lastZone>>
<1> DEFINE row == [id |-> lastRec + 1, zone |-> id, name |-> f.name, type |-> f.type,
                   value |-> f.value]
<1>1. recs' = recs \cup {row} /\ lastRec' = lastRec + 1 /\ UNCHANGED <<zone, settings, lastZone>>
  BY DEF Insert
<1>2. row.id = lastRec + 1 /\ row.zone = id /\ row.type = f.type
  OBVIOUS
<1>3. /\ lastRec \in Nat /\ lastZone \in Nat
      /\ \A r \in recs : r.id \in 1 .. lastRec /\ r.zone \in 1 .. lastZone /\ r.type \in RecordTypes
      /\ \A r, s \in recs : r.id = s.id => r = s
  BY DEF Types, IInv, StoreInv, RowTypes
<1> HIDE DEF row
<1>4. \A r \in recs' : r.id \in 1 .. lastRec' /\ r.zone \in 1 .. lastZone' /\ r.type \in RecordTypes
  BY <1>1, <1>2, <1>3
<1>5. \A r, s \in recs' : r.id = s.id => r = s
  BY <1>1, <1>2, <1>3
<1> QED
  BY <1>1, <1>3, <1>4, <1>5 DEF RowTypes

\* A caller that goes to its next step, or answers.
LEMMA GotoTypes ==
  ASSUME Types, NEW c \in Callers, NEW step \in Steps, at[c] # "reload", Goto(c, step),
         lastZone' \in Nat, lastZone <= lastZone', lastRec <= lastRec', RowTypes',
         Fits(step, job[c], lastZone', lastRec'), settings' \in Settings
  PROVE  CallerTypes' /\ RowTypes' /\ OtherTypes' /\ SignalTypes'
<1>1. job' = [job EXCEPT ![c] = job[c]]
  BY DEF Goto, Types, CallerTypes
<1>2. pending' \in BOOLEAN
  BY DEF Goto, Types, SignalTypes
<1> QED
  BY <1>1, <1>2, StepTypes DEF Goto

LEMMA AnswersTypes ==
  ASSUME Types, NEW c \in Callers, at[c] # "reload", Answers(c),
         lastZone' = lastZone, lastRec' = lastRec, recs' \subseteq recs, settings' = settings
  PROVE  CallerTypes' /\ RowTypes' /\ OtherTypes' /\ SignalTypes'
<1>1. pending' \in BOOLEAN
  BY DEF Answers, Types, SignalTypes
<1>2. RowTypes'
  BY FewerRows
<1>3. /\ lastZone' \in Nat /\ lastZone <= lastZone' /\ lastRec <= lastRec' /\ settings' \in Settings
  BY DEF Types, IInv, StoreInv, RowTypes, OtherTypes
<1>4. Fits("idle", NoJob, lastZone', lastRec') /\ "idle" \in Steps
  BY NoJobFits DEF Steps
<1> QED
  BY <1>1, <1>2, <1>3, <1>4, StepTypes DEF Answers

\* What a caller at a step knows of its job.
LEMMA CallerKnows ==
  ASSUME Types, NEW c \in Callers
  PROVE  /\ Fits(at[c], job[c], lastZone, lastRec) /\ JobShape(job[c])
         /\ lastZone \in Nat /\ lastRec \in Nat /\ settings \in Settings
  BY DEF Types, IInv, StoreInv, RowTypes, OtherTypes, CallerTypes, Fits

LEMMA InsertZoneTypes ==
  ASSUME Types, NEW c \in Callers, InsertZone(c)
  PROVE  CallerTypes' /\ RowTypes' /\ OtherTypes' /\ SignalTypes'
<1> DEFINE d == job[c].dom
           names == job[c].ns
           rows == Bootstrap(lastZone + 1, names, lastRec)
<1>1. /\ Fits(at[c], job[c], lastZone, lastRec) /\ at[c] = "insert"
      /\ lastZone \in Nat /\ lastRec \in Nat /\ settings \in Settings
  BY CallerKnows DEF InsertZone
<1>2. names \in Settings /\ IsFiniteSet(names)
  BY <1>1 DEF Fits
<1>3. CASE /\ recs' = recs \cup rows /\ lastZone' = lastZone + 1
           /\ lastRec' = lastRec + Cardinality(names)
           /\ Goto(c, "tell") /\ UNCHANGED settings
  <2>1. /\ Cardinality(names) \in Nat
        /\ \A r \in rows : /\ r.id \in lastRec + 1 .. lastRec + Cardinality(names)
                           /\ r.zone = lastZone + 1 /\ r.type = "NS" /\ r.name = <<>>
        /\ \A r, s \in rows : r.id = s.id => r = s
    BY <1>1, <1>2, BootstrapRows
  <2>2. /\ \A r \in recs : r.id \in 1 .. lastRec /\ r.zone \in 1 .. lastZone /\ r.type \in RecordTypes
        /\ \A r, s \in recs : r.id = s.id => r = s
    BY DEF Types, RowTypes
  <2>3. "NS" \in RecordTypes
    BY DEF RecordTypes
  <2> HIDE DEF rows, names
  <2>4. \A r \in recs' : r.id \in 1 .. lastRec' /\ r.zone \in 1 .. lastZone' /\ r.type \in RecordTypes
    BY <1>1, <1>3, <2>1, <2>2, <2>3
  <2>5. \A r, s \in recs' : r.id = s.id => r = s
    BY <1>1, <1>3, <2>1, <2>2
  <2>6. RowTypes'
    BY <1>1, <1>3, <2>1, <2>4, <2>5 DEF RowTypes
  <2>7. Fits("tell", job[c], lastZone', lastRec') /\ "tell" \in Steps
    BY <1>1, FitsAfter DEF Steps
  <2>8. lastZone' \in Nat /\ lastZone <= lastZone' /\ lastRec <= lastRec' /\ settings' \in Settings
    BY <1>1, <1>3, <2>1
  <2> QED
    BY <1>1, <1>3, <2>6, <2>7, <2>8, GotoTypes
<1>4. CASE Answers(c) /\ UNCHANGED tables
  BY <1>1, <1>4, AnswersTypes DEF tables
<1> QED
  BY <1>3, <1>4 DEF InsertZone

\* The end of a transaction that leaves the counters alone and adds no row.
LEMMA ShrinkTypes ==
  ASSUME Types, NEW c \in Callers, NEW step \in {"tell", "reload"}, at[c] # "reload",
         Goto(c, step), recs' \subseteq recs, lastRec' = lastRec, lastZone' = lastZone,
         settings' \in Settings
  PROVE  CallerTypes' /\ RowTypes' /\ OtherTypes' /\ SignalTypes'
<1>1. RowTypes'
  BY FewerRows
<1>2. /\ lastZone' \in Nat /\ lastZone <= lastZone' /\ lastRec <= lastRec'
      /\ Fits(at[c], job[c], lastZone, lastRec)
  BY CallerKnows
<1>3. Fits(step, job[c], lastZone', lastRec') /\ step \in Steps
  BY <1>2, FitsAfter DEF Steps
<1> QED
  BY <1>1, <1>2, <1>3, GotoTypes

LEMMA DeleteZoneTypes ==
  ASSUME Types, NEW c \in Callers, DeleteZone(c)
  PROVE  CallerTypes' /\ RowTypes' /\ OtherTypes' /\ SignalTypes'
<1>1. at[c] = "drop" /\ settings \in Settings
  BY CallerKnows DEF DeleteZone
<1>2. CASE /\ recs' = recs \ Rows(recs, zone[job[c].dom])
           /\ Goto(c, "tell") /\ UNCHANGED <<settings, lastZone, lastRec>>
  BY <1>1, <1>2, ShrinkTypes
<1>3. CASE Answers(c) /\ UNCHANGED tables
  BY <1>1, <1>3, AnswersTypes DEF tables
<1> QED
  BY <1>2, <1>3 DEF DeleteZone

LEMMA AddRecordTypes ==
  ASSUME Types, NEW c \in Callers, AddRecord(c)
  PROVE  CallerTypes' /\ RowTypes' /\ OtherTypes' /\ SignalTypes'
<1>1. /\ Fits(at[c], job[c], lastZone, lastRec) /\ at[c] = "add"
      /\ lastZone \in Nat /\ lastRec \in Nat /\ settings \in Settings
      /\ Insert(job[c].zid, job[c].form) /\ Goto(c, "tell")
  BY CallerKnows DEF AddRecord
<1>2. job[c].zid \in 1 .. lastZone /\ job[c].form.type \in RecordTypes
  BY <1>1 DEF Fits
<1>3. RowTypes' /\ lastRec' = lastRec + 1 /\ UNCHANGED <<zone, settings, lastZone>>
  BY <1>1, <1>2, InsertRow
<1>4. Fits("tell", job[c], lastZone', lastRec') /\ "tell" \in Steps
  BY <1>1, FitsAfter DEF Steps
<1> QED
  BY <1>1, <1>3, <1>4, GotoTypes

\* A value that changes makes no other row.
LEMMA UpdateRows ==
  ASSUME Types, NEW c \in Callers,
         recs' = (recs \ Target(c)) \cup
                   {[r EXCEPT !.value = job[c].form.value] : r \in Target(c)}
  PROVE  /\ \A r \in recs' : \E s \in recs :
              r.id = s.id /\ r.zone = s.zone /\ r.type = s.type /\ r.name = s.name
         /\ \A s \in recs : \E r \in recs' :
              r.id = s.id /\ r.zone = s.zone /\ r.type = s.type /\ r.name = s.name
         /\ \A r, s \in recs' : r.id = s.id => r = s
<1> DEFINE new(r) == [r EXCEPT !.value = job[c].form.value]
<1>1. \A r \in recs : /\ new(r).id = r.id /\ new(r).zone = r.zone
                      /\ new(r).type = r.type /\ new(r).name = r.name
  BY DEF Types, IInv, StoreInv, Row
<1>2. Target(c) \subseteq recs /\ \A r, s \in recs : r.id = s.id => r = s
  BY DEF Target, Types, RowTypes
<1>3. recs' = (recs \ Target(c)) \cup {new(r) : r \in Target(c)}
  OBVIOUS
<1> HIDE DEF new
<1>4. \A r \in recs' : \E s \in recs :
         r.id = s.id /\ r.zone = s.zone /\ r.type = s.type /\ r.name = s.name
  BY <1>1, <1>2, <1>3
<1>5. \A s \in recs : \E r \in recs' :
         r.id = s.id /\ r.zone = s.zone /\ r.type = s.type /\ r.name = s.name
  BY <1>1, <1>2, <1>3
<1>6. \A r, s \in recs' : r.id = s.id => r = s
  BY <1>1, <1>2, <1>3
<1> QED
  BY <1>4, <1>5, <1>6

LEMMA PatchRecordTypes ==
  ASSUME Types, NEW c \in Callers, PatchRecord(c)
  PROVE  CallerTypes' /\ RowTypes' /\ OtherTypes' /\ SignalTypes'
<1>1. /\ Fits(at[c], job[c], lastZone, lastRec) /\ lastZone \in Nat /\ lastRec \in Nat
      /\ settings \in Settings /\ at[c] \in {"find", "update"}
  BY CallerKnows DEF PatchRecord
<1>2. CASE at[c] = "find" /\ Goto(c, "update") /\ UNCHANGED tables
  <2>1. Fits("update", job[c], lastZone, lastRec) /\ "update" \in Steps
    BY <1>1, <1>2 DEF Fits, Steps
  <2>2. RowTypes' /\ lastZone' = lastZone /\ lastRec' = lastRec /\ settings' = settings
    BY <1>2, FewerRows DEF tables
  <2> QED
    BY <1>1, <1>2, <2>1, <2>2, GotoTypes
<1>3. CASE /\ Goto(c, "tell") /\ UNCHANGED <<zone, settings, lastZone, lastRec>>
           /\ recs' = (recs \ Target(c)) \cup
                        {[r EXCEPT !.value = job[c].form.value] : r \in Target(c)}
  <2>1. /\ \A r \in recs' : \E s \in recs :
             r.id = s.id /\ r.zone = s.zone /\ r.type = s.type /\ r.name = s.name
        /\ \A r, s \in recs' : r.id = s.id => r = s
    BY <1>3, UpdateRows, Zenon
  <2>2. RowTypes'
    BY <1>1, <1>3, <2>1 DEF Types, RowTypes
  <2>3. Fits("tell", job[c], lastZone', lastRec') /\ "tell" \in Steps
    BY <1>1, FitsAfter DEF Steps
  <2> QED
    BY <1>1, <1>3, <2>2, <2>3, GotoTypes
<1>4. CASE Answers(c) /\ UNCHANGED tables
  BY <1>1, <1>4, AnswersTypes DEF tables
<1> QED
  BY <1>2, <1>3, <1>4 DEF PatchRecord

LEMMA DeleteRecordTypes ==
  ASSUME Types, NEW c \in Callers, DeleteRecord(c)
  PROVE  CallerTypes' /\ RowTypes' /\ OtherTypes' /\ SignalTypes'
<1>1. /\ Fits(at[c], job[c], lastZone, lastRec) /\ lastZone \in Nat /\ lastRec \in Nat
      /\ settings \in Settings /\ at[c] \in {"count", "remove"}
  BY CallerKnows DEF DeleteRecord
<1>2. CASE at[c] = "count" /\ Goto(c, "remove") /\ UNCHANGED tables
  <2>1. Fits("remove", job[c], lastZone, lastRec) /\ "remove" \in Steps
    BY <1>1, <1>2 DEF Fits, Steps
  <2>2. RowTypes' /\ lastZone' = lastZone /\ lastRec' = lastRec /\ settings' = settings
    BY <1>2, FewerRows DEF tables
  <2> QED
    BY <1>1, <1>2, <2>1, <2>2, GotoTypes
<1>3. CASE /\ Goto(c, "tell") /\ recs' = recs \ Target(c)
           /\ UNCHANGED <<zone, settings, lastZone, lastRec>>
  BY <1>1, <1>3, ShrinkTypes
<1>4. CASE Answers(c) /\ UNCHANGED tables
  BY <1>1, <1>4, AnswersTypes DEF tables
<1> QED
  BY <1>2, <1>3, <1>4 DEF DeleteRecord

LEMMA PutSettingsTypes ==
  ASSUME Types, NEW c \in Callers, PutSettings(c)
  PROVE  CallerTypes' /\ RowTypes' /\ OtherTypes' /\ SignalTypes'
<1>1. /\ Fits(at[c], job[c], lastZone, lastRec) /\ at[c] = "put" /\ Goto(c, "tell")
      /\ settings' = job[c].ns /\ UNCHANGED <<zone, serial, recs, lastZone, lastRec>>
  BY CallerKnows DEF PutSettings
<1>2. settings' \in Settings
  BY <1>1 DEF Fits
<1> QED
  BY <1>1, <1>2, ShrinkTypes

LEMMA AddIfAbsentTypes ==
  ASSUME Types, NEW c \in Callers, AddIfAbsent(c)
  PROVE  CallerTypes' /\ RowTypes' /\ OtherTypes' /\ SignalTypes'
<1>1. /\ Fits(at[c], job[c], lastZone, lastRec) /\ JobShape(job[c])
      /\ lastZone \in Nat /\ lastRec \in Nat
      /\ settings \in Settings /\ at[c] \in {"look", "append"} /\ pending \in BOOLEAN
  BY CallerKnows DEF AddIfAbsent, Types, SignalTypes
<1>2. CASE Conclude(c, job[c].added) /\ UNCHANGED tables
  <2>1. CASE Answers(c)
    BY <1>1, <1>2, <2>1, AnswersTypes DEF tables
  <2>2. ASSUME NEW step \in {"tell", "reload"}, Goto(c, step)
        PROVE  CallerTypes' /\ RowTypes' /\ OtherTypes' /\ SignalTypes'
    BY <1>1, <1>2, <2>2, ShrinkTypes DEF tables
  <2>3. Answers(c) \/ Goto(c, "tell") \/ Goto(c, "reload")
    BY <1>2, Zenon DEF Conclude
  <2>4. CASE Goto(c, "tell")
    BY <2>2, <2>4
  <2>5. CASE Goto(c, "reload")
    BY <2>2, <2>5
  <2> QED
    BY <2>1, <2>3, <2>4, <2>5, Zenon
<1>3. ASSUME NEW f \in job[c].left, NEW step \in {"append", "look"}, at[c] = "look",
             UNCHANGED <<tables, pending, serving, requests, strained>>,
             job' = [job EXCEPT ![c] = [job[c] EXCEPT !.left = job[c].left \ {f}, !.form = f]],
             at' = [at EXCEPT ![c] = step]
      PROVE  CallerTypes' /\ RowTypes' /\ OtherTypes' /\ SignalTypes'
  <2> DEFINE j == [job[c] EXCEPT !.left = job[c].left \ {f}, !.form = f]
  <2>1. JobShape(j) /\ j.left = job[c].left \ {f} /\ j.form = f /\ j.zid = job[c].zid
    BY <1>1 DEF JobShape, JobFields
  <2>2. job' = [job EXCEPT ![c] = j]
    BY <1>3
  <2> HIDE DEF j
  <2>3. /\ job[c].zid \in 1 .. lastZone /\ \A g \in job[c].left : g.type \in RecordTypes
    BY <1>1, <1>3 DEF Fits
  <2>4. Fits(step, j, lastZone, lastRec) /\ step \in Steps
    BY <1>3, <2>1, <2>3 DEF Fits, Steps
  <2>5. RowTypes' /\ lastZone' = lastZone /\ lastRec' = lastRec /\ settings' = settings
    BY <1>3, FewerRows DEF tables
  <2>6. UNCHANGED <<serving, requests, strained>> /\ pending' \in BOOLEAN /\ at[c] # "reload"
    BY <1>1, <1>3
  <2>7. /\ lastZone' \in Nat /\ lastZone <= lastZone' /\ lastRec <= lastRec'
        /\ Fits(step, j, lastZone', lastRec') /\ settings' \in Settings
    BY <1>1, <2>4, <2>5
  <2>8. at' = [at EXCEPT ![c] = step]
    BY <1>3
  <2> QED
    BY <2>2, <2>4, <2>5, <2>6, <2>7, <2>8, StepTypes, Zenon
<1>4. CASE /\ at[c] = "append" /\ Insert(job[c].zid, job[c].form)
           /\ job' = [job EXCEPT ![c] = [job[c] EXCEPT !.added = TRUE]]
           /\ at' = [at EXCEPT ![c] = "look"]
           /\ UNCHANGED <<pending, serving, requests, strained>>
  <2> DEFINE j == [job[c] EXCEPT !.added = TRUE]
  <2>1. JobShape(j) /\ j.left = job[c].left /\ j.zid = job[c].zid
    BY <1>1 DEF JobShape, JobFields
  <2>2. job' = [job EXCEPT ![c] = j]
    BY <1>4
  <2> HIDE DEF j
  <2>3. /\ job[c].zid \in 1 .. lastZone /\ job[c].form.type \in RecordTypes
        /\ \A g \in job[c].left : g.type \in RecordTypes
    BY <1>1, <1>4 DEF Fits
  <2>4. RowTypes' /\ lastRec' = lastRec + 1 /\ UNCHANGED <<zone, settings, lastZone>>
    BY <1>4, <2>3, InsertRow
  <2>5. Fits("look", j, lastZone', lastRec') /\ "look" \in Steps
    BY <2>1, <2>3, <2>4 DEF Fits, Steps
  <2>6. UNCHANGED <<serving, requests, strained>> /\ pending' \in BOOLEAN /\ at[c] # "reload"
    BY <1>1, <1>4
  <2>7. /\ lastZone' \in Nat /\ lastZone <= lastZone' /\ lastRec <= lastRec'
        /\ settings' \in Settings
    BY <1>1, <2>4
  <2>8. at' = [at EXCEPT ![c] = "look"]
    BY <1>4
  <2> QED
    BY <2>2, <2>4, <2>5, <2>6, <2>7, <2>8, StepTypes, Zenon
<1> QED
  BY <1>2, <1>3, <1>4 DEF AddIfAbsent

LEMMA CleanUpTypes ==
  ASSUME Types, NEW c \in Callers, CleanUp(c)
  PROVE  CallerTypes' /\ RowTypes' /\ OtherTypes' /\ SignalTypes'
<1>1. /\ at[c] = "cleanup" /\ settings \in Settings /\ recs' \subseteq recs
      /\ UNCHANGED <<zone, settings, lastZone, lastRec>>
  BY CallerKnows DEF CleanUp
<1>2. CASE Answers(c)
  BY <1>1, <1>2, AnswersTypes
<1>3. ASSUME NEW step \in {"tell", "reload"}, Goto(c, step)
      PROVE  CallerTypes' /\ RowTypes' /\ OtherTypes' /\ SignalTypes'
  BY <1>1, <1>3, ShrinkTypes
<1>4. Answers(c) \/ Goto(c, "tell") \/ Goto(c, "reload")
  BY Zenon DEF CleanUp, Conclude
<1>5. CASE Goto(c, "tell")
  BY <1>3, <1>5
<1>6. CASE Goto(c, "reload")
  BY <1>3, <1>6
<1> QED
  BY <1>2, <1>4, <1>5, <1>6, Zenon

LEMMA TellTypes ==
  ASSUME Types, NEW c \in Callers, Tell(c)
  PROVE  CallerTypes' /\ RowTypes' /\ OtherTypes' /\ SignalTypes'
<1>1. RowTypes' /\ lastZone' = lastZone /\ lastRec' = lastRec /\ settings' = settings
  BY FewerRows DEF Tell, tables
<1>2. Fits("idle", NoJob, lastZone', lastRec') /\ "idle" \in Steps
  BY NoJobFits DEF Steps
<1>3. lastZone \in Nat /\ lastRec \in Nat /\ settings \in Settings
  BY CallerKnows
<1>4. /\ lastZone' \in Nat /\ lastZone <= lastZone' /\ lastRec <= lastRec'
      /\ settings' \in Settings
  BY <1>1, <1>3
<1>5. /\ at[c] # "reload" /\ pending' \in BOOLEAN /\ UNCHANGED <<serving, requests, strained>>
      /\ at' = [at EXCEPT ![c] = "idle"] /\ job' = [job EXCEPT ![c] = NoJob]
  BY DEF Tell
<1> QED
  BY <1>1, <1>2, <1>4, <1>5, StepTypes, Zenon

-----------------------------------------------------------------------------
(* Builds fit.                                                             *)

\* A build goes on: whoever builds has come to it by its own step.
LEMMA PhaseTypes ==
  ASSUME Types, NEW b \in Builders, NEW next \in Phases, phase' = [phase EXCEPT ![b] = next],
         UNCHANGED <<tables, at, job, requests, strained>>,
         b \in Callers /\ next # "idle" => at[b] = "reload"
  PROVE  CallerTypes' /\ RowTypes' /\ OtherTypes'
<1>1. CallerTypes'
  BY DEF Types, CallerTypes, tables
<1>2. RowTypes'
  BY FewerRows DEF tables
<1>3. ASSUME NEW o \in Callers, Building(o)' PROVE at'[o] = "reload"
  <2>1. phase \in [Builders -> Phases] /\ o \in Builders
    BY DEF Types, IInv, SnapshotInv, Builders
  <2>2. CASE o = b
    BY <1>3, <2>1, <2>2 DEF Building
  <2>3. CASE o # b
    BY <1>3, <2>1, <2>3 DEF Building, Types, OtherTypes
  <2> QED
    BY <2>2, <2>3
<1>4. OtherTypes'
  BY <1>3 DEF Types, OtherTypes, tables
<1> QED
  BY <1>1, <1>2, <1>4

LEMMA BeginBuildTypes ==
  ASSUME Types, NEW b \in Builders, BeginBuild(b)
  PROVE  CallerTypes' /\ RowTypes' /\ OtherTypes' /\ SignalTypes'
<1>1. /\ phase' = [phase EXCEPT ![b] = "records"] /\ "records" \in Phases
      /\ UNCHANGED <<tables, at, job, requests, strained>>
      /\ b \in Callers => at[b] = "reload"
  BY DEF BeginBuild, Phases
<1>2. raced' \in BOOLEAN
  BY Zenon DEF BeginBuild
<1>3. pending' \in BOOLEAN
  BY DEF BeginBuild, Types, SignalTypes
<1> QED
  BY <1>1, <1>2, <1>3, PhaseTypes DEF SignalTypes

LEMMA AllDNSDataTypes ==
  ASSUME Types, NEW b \in Builders, AllDNSData(b)
  PROVE  CallerTypes' /\ RowTypes' /\ OtherTypes' /\ SignalTypes'
<1>1. ASSUME NEW from \in {"records", "settings"}, NEW to \in {"settings", "swap"}, NEW snapshot,
             Read(b, from, to, snapshot)
      PROVE  CallerTypes' /\ RowTypes' /\ OtherTypes' /\ SignalTypes'
  <2>1. /\ phase' = [phase EXCEPT ![b] = to] /\ to \in Phases
        /\ UNCHANGED <<tables, at, job, requests, strained>>
        /\ b \in Callers => at[b] = "reload"
    BY <1>1 DEF Read, Phases, Types, OtherTypes, Building
  <2>2. pending' = pending /\ raced' = raced
    BY <1>1 DEF Read
  <2>3. SignalTypes'
    BY <2>2 DEF Types, SignalTypes
  <2> QED
    BY <2>1, <2>3, PhaseTypes
<1>2. CASE Read(b, "records", "settings", [draft[b] EXCEPT !.rows = recs])
  BY <1>1, <1>2
<1>3. CASE Read(b, "settings", "swap", [draft[b] EXCEPT !.ns = settings])
  BY <1>1, <1>3
<1> QED
  BY <1>2, <1>3 DEF AllDNSData

LEMMA SwapTypes ==
  ASSUME Types, NEW b \in Builders, Swap(b)
  PROVE  CallerTypes' /\ RowTypes' /\ OtherTypes' /\ SignalTypes'
<1>1. /\ phase' = [phase EXCEPT ![b] = "idle"] /\ "idle" \in Phases
      /\ UNCHANGED <<tables, pending, requests, strained, raced>>
  BY DEF Swap, Phases
<1>2. SignalTypes'
  BY <1>1 DEF Types, SignalTypes
<1>3. CASE b = Plane
  <2>1. UNCHANGED <<tables, at, job, requests, strained>> /\ b \notin Callers
    BY <1>1, <1>3 DEF Swap
  <2> QED
    BY <1>1, <1>2, <2>1, PhaseTypes
<1>4. CASE b # Plane
  <2>1. /\ b \in Callers /\ at' = [at EXCEPT ![b] = "idle"]
        /\ job' = [job EXCEPT ![b] = NoJob]
    BY <1>4 DEF Swap, Builders
  <2>2. RowTypes' /\ lastZone' = lastZone /\ lastRec' = lastRec
    BY <1>1, FewerRows DEF tables
  <2>3. lastZone \in Nat /\ lastRec \in Nat
    BY <2>1, CallerKnows
  <2>4. Fits("idle", NoJob, lastZone', lastRec') /\ "idle" \in Steps
    BY NoJobFits DEF Steps
  <2>5. /\ lastZone' \in Nat /\ lastRec' \in Nat /\ lastZone <= lastZone' /\ lastRec <= lastRec'
    BY <2>2, <2>3
  <2>6. CallerTypes'
    BY <2>1, <2>4, <2>5, CallerGoes, Zenon
  <2>7. ASSUME NEW o \in Callers, Building(o)' PROVE at'[o] = "reload"
    <3>1. phase \in [Builders -> Phases] /\ o \in Builders /\ at \in [Callers -> Steps]
      BY DEF Types, IInv, SnapshotInv, CallerTypes, Builders
    <3>2. o # b
      BY <1>1, <2>7, <3>1 DEF Building
    <3> QED
      BY <1>1, <2>1, <2>7, <3>1, <3>2 DEF Building, Types, OtherTypes
  <2>8. OtherTypes'
    BY <1>1, <2>7 DEF Types, OtherTypes, tables
  <2> QED
    BY <1>2, <2>2, <2>6, <2>8
<1> QED
  BY <1>3, <1>4

LEMMA InitTypes == Init => Types
<1> SUFFICES ASSUME Init PROVE Types
  OBVIOUS
<1>1. IInv
  BY InitInv
<1>2. CallerTypes
  <2>1. at \in [Callers -> Steps] /\ job = [c \in Callers |-> job[c]]
    BY DEF Init, Steps
  <2>2. ASSUME NEW c \in Callers PROVE Fits(at[c], job[c], lastZone, lastRec)
    <3>1. at[c] = "idle" /\ job[c] = NoJob
      BY DEF Init
    <3> QED
      BY <3>1, NoJobFits
  <2> QED
    BY <2>1, <2>2 DEF CallerTypes
<1>3. RowTypes
  <2>1. settings \in Settings /\ IsFiniteSet(settings) /\ lastRec = Cardinality(recs)
    BY DEF Init
  <2>2. CASE recs = {} /\ lastZone \in Nat
    BY <2>1, <2>2, FS_EmptySet DEF RowTypes
  <2>3. CASE recs = Bootstrap(1, settings, 0) /\ lastZone = 1
    <3>1. /\ Cardinality(settings) \in Nat
          /\ \A r \in recs : /\ r.id \in 0 + 1 .. 0 + Cardinality(settings)
                             /\ r.zone = 1 /\ r.type = "NS" /\ r.name = <<>>
          /\ \A r, s \in recs : r.id = s.id => r = s
      BY <2>1, <2>3, BootstrapRows
    <3>2. Cardinality(recs) = Cardinality(settings)
      BY <2>1, <2>3, BootstrapSize
    <3>3. "NS" \in RecordTypes
      BY DEF RecordTypes
    <3> QED
      BY <2>1, <2>3, <3>1, <3>2, <3>3 DEF RowTypes
  <2> QED
    BY <2>2, <2>3 DEF Init
<1>4. OtherTypes
  BY DEF Init, OtherTypes, Building, Builders
<1>5. SignalTypes
  BY DEF Init, SignalTypes
<1> QED
  BY <1>1, <1>2, <1>3, <1>4, <1>5 DEF Types

LEMMA NextTypes == Types /\ [Next]_zonesVars => Types'
<1> SUFFICES ASSUME Types, [Next]_zonesVars PROVE Types'
  OBVIOUS
<1> DEFINE Goal == CallerTypes' /\ RowTypes' /\ OtherTypes' /\ SignalTypes'
<1>1. IInv'
  BY NextInv DEF Types
<1>2. ASSUME NEW c \in Callers, Ask(c) PROVE Goal
  BY <1>2, AskTypes
<1>3. ASSUME NEW c \in Callers, CallerStep(c) PROVE Goal
  BY <1>3, InsertZoneTypes, DeleteZoneTypes, AddRecordTypes, PatchRecordTypes,
     DeleteRecordTypes, PutSettingsTypes, AddIfAbsentTypes, CleanUpTypes, TellTypes
     DEF CallerStep
<1>4. ASSUME NEW b \in Builders, BeginBuild(b) \/ AllDNSData(b) \/ Swap(b) PROVE Goal
  BY <1>4, BeginBuildTypes, AllDNSDataTypes, SwapTypes
<1>5. ASSUME UNCHANGED zonesVars PROVE Goal
  <2>1. CallerTypes' /\ RowTypes'
    BY <1>5 DEF zonesVars, Types, CallerTypes, RowTypes
  <2>2. OtherTypes'
    BY <1>5 DEF zonesVars, Types, OtherTypes, Building
  <2>3. pending' = pending /\ raced' = raced
    BY <1>5 DEF zonesVars
  <2>4. SignalTypes'
    BY <2>3 DEF Types, SignalTypes
  <2> QED
    BY <2>1, <2>2, <2>4
<1> HIDE DEF Goal
<1>6. Goal
  BY <1>2, <1>3, <1>4, <1>5 DEF Next
<1> QED
  BY <1>1, <1>6 DEF Types, Goal

\* The tables stay what the schema makes of them: no id twice, every row below the
\* counter, every record of a zone that there is or was; and only a solver that has
\* changed something builds a snapshot beside the data plane.
THEOREM TypeCorrect == Spec => []TypeOK
<1>1. Types => TypeOK
  BY TypesAreTypeOK
<1> QED
  BY <1>1, InitTypes, NextTypes, PTL DEF Spec

-----------------------------------------------------------------------------
(* Name servers.                                                           *)

Deleting == {"count", "remove"}

\* Deletions in one zone do not overlap without its being strained.
Alone ==
  \A c, o \in Callers :
    c # o /\ at[c] \in Deleting /\ at[o] \in Deleting /\ job[c].zid = job[o].zid =>
      job[c].zid \in strained

\* What is about to be deleted is not the last name server.
Spared(c) ==
  at[c] = "remove" /\ job[c].zid \notin strained /\ ApexNS(recs, job[c].zid) # {} =>
    \E r \in ApexNS(recs, job[c].zid) : r.id # job[c].rid

NSInv == Alone /\ \A c \in Callers : Spared(c)

\* The name servers of a zone stay, and others have ids that were not given before.
Kept(rows, rows2, last, z) ==
  /\ \A r \in ApexNS(rows, z) : \E s \in ApexNS(rows2, z) : s.id = r.id
  /\ \A s \in ApexNS(rows2, z) : (\E r \in ApexNS(rows, z) : r.id = s.id) \/ s.id > last

Gone(z) == ApexNS(recs', z) = {} /\ \E d \in Domains : zone[d] = z /\ zone'[d] # z

Removes(c, z) == at[c] = "remove" /\ job[c].zid = z /\ recs' = recs \ Target(c)

LEMMA SameKept ==
  ASSUME NEW rows, NEW rows2, NEW last, NEW z, ApexNS(rows2, z) = ApexNS(rows, z)
  PROVE  Kept(rows, rows2, last, z)
  BY DEF Kept

LEMMA MoreKept ==
  ASSUME NEW rows, NEW more, NEW last, NEW z, \A r \in more : r.id > last
  PROVE  Kept(rows, rows \cup more, last, z)
  BY DEF Kept, ApexNS, Rows

LEMMA InsertZoneNames ==
  ASSUME Types, NEW c \in Callers, InsertZone(c), NEW z
  PROVE  Kept(recs, recs', lastRec, z)
<1> DEFINE rows == Bootstrap(lastZone + 1, job[c].ns, lastRec)
<1>1. CASE recs' = recs \cup rows
  <2>1. /\ Fits("insert", job[c], lastZone, lastRec) /\ lastRec \in Nat
    BY CallerKnows DEF InsertZone
  <2>2. IsFiniteSet(job[c].ns)
    BY <2>1 DEF Fits
  <2>3. /\ Cardinality(job[c].ns) \in Nat
        /\ \A r \in rows : r.id \in lastRec + 1 .. lastRec + Cardinality(job[c].ns)
    BY <2>1, <2>2, BootstrapRows
  <2> HIDE DEF rows
  <2>4. \A r \in rows : r.id > lastRec
    BY <2>1, <2>3
  <2> QED
    BY <1>1, <2>4, MoreKept
<1>2. CASE UNCHANGED tables
  <2>1. ApexNS(recs', z) = ApexNS(recs, z)
    BY <1>2 DEF tables
  <2> QED
    BY <2>1, SameKept
<1> QED
  BY <1>1, <1>2 DEF InsertZone

LEMMA InsertNames ==
  ASSUME Types, NEW id, NEW f, Insert(id, f), NEW z
  PROVE  Kept(recs, recs', lastRec, z)
<1> DEFINE row == [id |-> lastRec + 1, zone |-> id, name |-> f.name, type |-> f.type,
                   value |-> f.value]
<1>1. recs' = recs \cup {row} /\ row.id = lastRec + 1 /\ lastRec \in Nat
  BY DEF Insert, Types, RowTypes
<1> HIDE DEF row
<1>2. \A r \in {row} : r.id > lastRec
  BY <1>1
<1> QED
  BY <1>1, <1>2, MoreKept

LEMMA DeleteZoneNames ==
  ASSUME Types, NEW c \in Callers, DeleteZone(c), NEW z
  PROVE  Kept(recs, recs', lastRec, z) \/ Gone(z)
<1> DEFINE d == job[c].dom
<1>1. CASE zone[d] # 0 /\ recs' = recs \ Rows(recs, zone[d]) /\ zone' = [zone EXCEPT ![d] = 0]
  <2>1. CASE zone[d] = z
    <3>1. d \in Domains /\ zone'[d] # z
      BY <1>1, <2>1 DEF DeleteZone, Types, IInv, JobInv, StoreInv
    <3>2. ApexNS(recs', z) = {}
      BY <1>1, <2>1 DEF ApexNS, Rows
    <3> QED
      BY <2>1, <3>1, <3>2 DEF Gone
  <2>2. CASE zone[d] # z
    <3>1. ApexNS(recs', z) = ApexNS(recs, z)
      BY <1>1, <2>2 DEF ApexNS, Rows
    <3> QED
      BY <3>1, SameKept
  <2> QED
    BY <2>1, <2>2
<1>2. CASE UNCHANGED tables
  <2>1. ApexNS(recs', z) = ApexNS(recs, z)
    BY <1>2 DEF tables
  <2> QED
    BY <2>1, SameKept
<1> QED
  BY <1>1, <1>2 DEF DeleteZone

LEMMA PatchRecordNames ==
  ASSUME Types, NEW c \in Callers, PatchRecord(c), NEW z
  PROVE  Kept(recs, recs', lastRec, z)
<1>1. CASE recs' = (recs \ Target(c)) \cup
                     {[r EXCEPT !.value = job[c].form.value] : r \in Target(c)}
  <2>1. /\ \A r \in recs' : \E s \in recs :
             r.id = s.id /\ r.zone = s.zone /\ r.type = s.type /\ r.name = s.name
        /\ \A s \in recs : \E r \in recs' :
             r.id = s.id /\ r.zone = s.zone /\ r.type = s.type /\ r.name = s.name
    BY <1>1, UpdateRows, Zenon
  <2> QED
    BY <2>1 DEF Kept, ApexNS, Rows
<1>2. CASE UNCHANGED tables
  <2>1. ApexNS(recs', z) = ApexNS(recs, z)
    BY <1>2 DEF tables
  <2> QED
    BY <2>1, SameKept
<1> QED
  BY <1>1, <1>2 DEF PatchRecord

LEMMA DeleteRecordNames ==
  ASSUME Types, NEW c \in Callers, DeleteRecord(c), NEW z
  PROVE  Kept(recs, recs', lastRec, z) \/ Removes(c, z)
<1>1. CASE at[c] = "remove" /\ recs' = recs \ Target(c)
  <2>1. CASE job[c].zid = z
    BY <1>1, <2>1 DEF Removes
  <2>2. CASE job[c].zid # z
    <3>1. ApexNS(recs', z) = ApexNS(recs, z)
      BY <1>1, <2>2 DEF ApexNS, Rows, Target
    <3> QED
      BY <3>1, SameKept
  <2> QED
    BY <2>1, <2>2
<1>2. CASE UNCHANGED tables
  <2>1. ApexNS(recs', z) = ApexNS(recs, z)
    BY <1>2 DEF tables
  <2> QED
    BY <2>1, SameKept
<1> QED
  BY <1>1, <1>2 DEF DeleteRecord

LEMMA CleanUpNames ==
  ASSUME Types, NEW c \in Callers, CleanUp(c), NEW z
  PROVE  Kept(recs, recs', lastRec, z)
<1>1. job[c].form.type # "NS"
  BY CallerKnows DEF CleanUp, Fits
<1>2. ApexNS(recs', z) = ApexNS(recs, z)
  BY <1>1 DEF CleanUp, Same, ApexNS, Rows
<1> QED
  BY <1>2, SameKept

LEMMA CallerNames ==
  ASSUME Types, NEW c \in Callers, CallerStep(c), NEW z
  PROVE  Kept(recs, recs', lastRec, z) \/ Gone(z) \/ Removes(c, z)
<1>1. CASE AddRecord(c)
  BY <1>1, InsertNames DEF AddRecord
<1>2. CASE AddIfAbsent(c)
  <2>1. CASE Insert(job[c].zid, job[c].form)
    BY <2>1, InsertNames
  <2>2. CASE recs' = recs
    BY <2>2, SameKept
  <2> QED
    BY <1>2, <2>1, <2>2 DEF AddIfAbsent, tables
<1>3. CASE PutSettings(c) \/ Tell(c)
  <2>1. recs' = recs
    BY <1>3 DEF PutSettings, Tell, tables
  <2> QED
    BY <2>1, SameKept
<1> QED
  BY <1>1, <1>2, <1>3, InsertZoneNames, DeleteZoneNames, PatchRecordNames, DeleteRecordNames,
     CleanUpNames DEF CallerStep

\* Nobody but c moves.
Others(c) == \A o \in Callers : o # c => at'[o] = at[o] /\ job'[o] = job[o]

LEMMA AskDeletes ==
  ASSUME Types, NEW c \in Callers, Ask(c)
  PROVE  /\ Others(c) /\ strained \subseteq strained' /\ recs' = recs /\ zone' = zone
         /\ at'[c] = "remove" => job'[c].zid \in strained'
         /\ \A o \in Callers : /\ o # c /\ at[o] \in Deleting /\ at'[c] \in Deleting
                              /\ job[o].zid = job'[c].zid
                             => job'[c].zid \in strained'
<1> DEFINE Goal == /\ Others(c) /\ strained \subseteq strained' /\ recs' = recs /\ zone' = zone
                   /\ at'[c] = "remove" => job'[c].zid \in strained'
                   /\ \A o \in Callers : /\ o # c /\ at[o] \in Deleting /\ at'[c] \in Deleting
                                        /\ job[o].zid = job'[c].zid
                                       => job'[c].zid \in strained'
<1>1. at \in [Callers -> Steps] /\ job = [o \in Callers |-> job[o]]
  BY DEF Types, CallerTypes
<1>2. ASSUME NEW step, NEW j, Begin(c, step, j)
      PROVE  /\ Others(c) /\ recs' = recs /\ zone' = zone
             /\ at'[c] = step /\ job'[c] = j
  BY <1>1, <1>2 DEF Begin, Others, tables
<1>3. ASSUME NEW step, NEW j, Begin(c, step, j), step \notin Deleting, strained' = strained
      PROVE  Goal
  BY <1>2, <1>3 DEF Deleting
<1>4. ASSUME NEW d \in Domains, NEW step, NEW j, Owned(d, step, c, j), step \notin Deleting,
             strained' = strained
      PROVE  Goal
  BY <1>3, <1>4 DEF Owned
<1>5. ASSUME NEW d \in Domains, NEW r \in recs, AskDelete(c, d, r.id) PROVE Goal
  <2> DEFINE j == [[NoJob EXCEPT !.rid = r.id] EXCEPT !.dom = d, !.zid = zone[d]]
  <2>1. j.zid = zone[d]
    BY DEF NoJob
  <2> HIDE DEF j
  <2>2. Begin(c, "count", j)
    BY <1>5 DEF AskDelete, Owned, j
  <2>3. /\ Others(c) /\ recs' = recs /\ zone' = zone /\ at'[c] = "count" /\ job'[c] = j
    BY <1>2, <2>2
  <2>4. strained' = IF \E o \in Callers : at[o] \in Deleting /\ job[o].zid = zone[d]
                      THEN strained \cup {zone[d]} ELSE strained
    BY <1>5 DEF AskDelete, Deleting
  <2> QED
    BY <2>1, <2>3, <2>4
<1>6. ASSUME NEW d \in Domains, NEW r \in recs, AskRemoveByHand(c, d, r.id) PROVE Goal
  <2> DEFINE j == [[NoJob EXCEPT !.rid = r.id] EXCEPT !.dom = d, !.zid = zone[d]]
  <2>1. j.zid = zone[d]
    BY DEF NoJob
  <2> HIDE DEF j
  <2>2. Begin(c, "remove", j)
    BY <1>6 DEF AskRemoveByHand, Owned, j
  <2>3. /\ Others(c) /\ recs' = recs /\ zone' = zone /\ at'[c] = "remove" /\ job'[c] = j
    BY <1>2, <2>2
  <2>4. strained' = strained \cup {zone[d]}
    BY <1>6 DEF AskRemoveByHand
  <2> QED
    BY <2>1, <2>3, <2>4
<1>7. CASE \E d \in Domains : AskCreateZone(c, d) \/ AskDeleteZone(c, d)
  BY <1>3, <1>4, <1>7 DEF AskCreateZone, AskDeleteZone, Deleting
<1>8. CASE \E d \in Domains, f \in Forms \ Challenges : AskAdd(c, d, f)
  BY <1>4, <1>8 DEF AskAdd, Deleting
<1>9. CASE \E d \in Domains, r \in recs, f \in Forms : AskPatch(c, d, r.id, f)
  BY <1>4, <1>9 DEF AskPatch, Deleting
<1>10. CASE \E ns \in Settings : AskPutSettings(c, ns)
  BY <1>3, <1>10 DEF AskPutSettings, Deleting
<1>11. CASE \E h \in Hosts : AskProvision(c, h)
  BY <1>4, <1>11 DEF AskProvision, ZoneFor, Apexes, Deleting
<1>12. CASE \E d \in Domains, f \in Challenges : AskAppend(c, d, f) \/ AskCleanUp(c, d, f)
  BY <1>4, <1>12 DEF AskAppend, AskCleanUp, Deleting
<1> HIDE DEF Goal
<1>13. CASE \E d \in Domains, r \in recs : AskDelete(c, d, r.id) \/ AskRemoveByHand(c, d, r.id)
  BY <1>5, <1>6, <1>13 DEF Goal
<1>14. \/ \E d \in Domains, f \in Forms \ Challenges : AskAdd(c, d, f)
       \/ \E d \in Domains : AskCreateZone(c, d) \/ AskDeleteZone(c, d)
       \/ \E d \in Domains, r \in recs, f \in Forms : AskPatch(c, d, r.id, f)
       \/ \E d \in Domains, r \in recs : AskDelete(c, d, r.id) \/ AskRemoveByHand(c, d, r.id)
       \/ \E ns \in Settings : AskPutSettings(c, ns)
       \/ \E h \in Hosts : AskProvision(c, h)
       \/ \E d \in Domains, f \in Challenges : AskAppend(c, d, f) \/ AskCleanUp(c, d, f)
  BY DEF Ask
<1> QED
  BY <1>7, <1>8, <1>9, <1>10, <1>11, <1>12, <1>13, <1>14, Zenon

LEMMA GotoMoves ==
  ASSUME Types, NEW c \in Callers, NEW step, Goto(c, step)
  PROVE  Others(c) /\ at'[c] = step /\ job'[c] = job[c] /\ strained' = strained
  BY DEF Goto, Others, Types, CallerTypes

LEMMA AnswersMoves ==
  ASSUME Types, NEW c \in Callers, Answers(c)
  PROVE  Others(c) /\ at'[c] = "idle" /\ strained' = strained
  BY DEF Answers, Others, Types, CallerTypes

LEMMA StepDeletes ==
  ASSUME Types, NEW c \in Callers, CallerStep(c)
  PROVE  /\ Others(c) /\ strained' = strained
         /\ \/ at'[c] \notin Deleting
            \/ /\ at[c] = "count" /\ at'[c] = "remove" /\ job'[c] = job[c]
               /\ recs' = recs /\ ~LastNameServer(c)
<1> DEFINE Goal == /\ Others(c) /\ strained' = strained
                   /\ \/ at'[c] \notin Deleting
                      \/ /\ at[c] = "count" /\ at'[c] = "remove" /\ job'[c] = job[c]
                         /\ recs' = recs /\ ~LastNameServer(c)
<1>1. ASSUME NEW step, Goto(c, step), step \notin Deleting PROVE Goal
  BY <1>1, GotoMoves
<1>2. ASSUME Answers(c) PROVE Goal
  BY <1>2, AnswersMoves DEF Deleting
<1>3. ASSUME DeleteRecord(c) PROVE Goal
  <2>1. CASE at[c] = "count" /\ ~LastNameServer(c) /\ Goto(c, "remove") /\ UNCHANGED tables
    BY <2>1, GotoMoves DEF tables
  <2>2. CASE Goto(c, "tell")
    BY <1>1, <2>2 DEF Deleting
  <2> HIDE DEF Goal
  <2> QED
    BY <1>2, <1>3, <2>1, <2>2 DEF DeleteRecord
<1>4. ASSUME AddIfAbsent(c) PROVE Goal
  <2>1. ASSUME NEW step \in {"append", "look"}, NEW j, job' = [job EXCEPT ![c] = j],
               at' = [at EXCEPT ![c] = step], strained' = strained
        PROVE  Goal
    BY <2>1 DEF Others, Types, CallerTypes, Deleting
  <2>2. CASE Conclude(c, job[c].added)
    <3>1. Answers(c) \/ Goto(c, "tell") \/ Goto(c, "reload")
      BY <2>2, Zenon DEF Conclude
    <3> QED
      BY <1>1, <1>2, <3>1 DEF Deleting
  <2> HIDE DEF Goal
  <2>3. ASSUME NEW f \in job[c].left,
               UNCHANGED <<tables, pending, serving, requests, strained>>,
               job' = [job EXCEPT ![c] = [job[c] EXCEPT !.left = job[c].left \ {f}, !.form = f]],
               at' = [at EXCEPT ![c] = IF Same(job[c].zid, f) = {} THEN "append" ELSE "look"]
        PROVE  Goal
    BY <2>1, <2>3
  <2>4. CASE /\ job' = [job EXCEPT ![c] = [job[c] EXCEPT !.added = TRUE]]
             /\ at' = [at EXCEPT ![c] = "look"]
             /\ UNCHANGED <<pending, serving, requests, strained>>
    BY <2>1, <2>4
  <2> QED
    BY <1>4, <2>2, <2>3, <2>4 DEF AddIfAbsent
<1>5. ASSUME CleanUp(c) PROVE Goal
  <2>1. Answers(c) \/ Goto(c, "tell") \/ Goto(c, "reload")
    BY <1>5, Zenon DEF CleanUp, Conclude
  <2> QED
    BY <1>1, <1>2, <2>1 DEF Deleting
<1>6. ASSUME Tell(c) PROVE Goal
  BY <1>6 DEF Tell, Others, Types, CallerTypes, Deleting
<1>7. ASSUME PatchRecord(c) PROVE Goal
  <2>1. Answers(c) \/ Goto(c, "update") \/ Goto(c, "tell")
    BY <1>7 DEF PatchRecord
  <2> QED
    BY <1>1, <1>2, <2>1 DEF Deleting
<1>8. ASSUME InsertZone(c) \/ DeleteZone(c) \/ AddRecord(c) \/ PutSettings(c) PROVE Goal
  <2>1. Answers(c) \/ Goto(c, "tell")
    BY <1>8 DEF InsertZone, DeleteZone, AddRecord, PutSettings
  <2> QED
    BY <1>1, <1>2, <2>1 DEF Deleting
<1> HIDE DEF Goal
<1>9. Goal
  BY <1>3, <1>4, <1>5, <1>6, <1>7, <1>8 DEF CallerStep
<1> QED
  BY <1>9 DEF Goal

\* A zone whose name servers are kept spares them still.
LEMMA KeptSpares ==
  ASSUME NEW rows, NEW rows2, NEW last \in Nat, NEW z, NEW rid \in 1 .. last,
         Kept(rows, rows2, last, z), \A r \in rows2 : r.id \in Nat,
         ApexNS(rows, z) # {} => \E r \in ApexNS(rows, z) : r.id # rid,
         ApexNS(rows2, z) # {}
  PROVE  \E r \in ApexNS(rows2, z) : r.id # rid
<1>1. PICK s \in ApexNS(rows2, z) : TRUE
  OBVIOUS
<1>2. CASE s.id > last
  <2>1. s.id \in Nat
    BY DEF ApexNS, Rows
  <2> QED
    BY <1>2, <2>1
<1>3. CASE \E r \in ApexNS(rows, z) : r.id = s.id
  BY <1>3 DEF Kept
<1> QED
  BY <1>1, <1>2, <1>3 DEF Kept

LEMMA WaitingSpared ==
  ASSUME Types, Types', NSInv, NEW o \in Callers, at'[o] = at[o], job'[o] = job[o],
         strained \subseteq strained', at[o] = "remove", job[o].zid \notin strained,
         Kept(recs, recs', lastRec, job[o].zid) \/ ApexNS(recs', job[o].zid) = {}
  PROVE  Spared(o)'
<1> DEFINE z == job[o].zid
           rid == job[o].rid
<1>1. Fits("remove", job[o], lastZone, lastRec) /\ lastRec \in Nat
  BY CallerKnows
<1>2. rid \in 1 .. lastRec
  BY <1>1 DEF Fits
<1>3. ApexNS(recs, z) # {} => \E r \in ApexNS(recs, z) : r.id # rid
  BY DEF NSInv, Spared
<1>4. \A r \in recs' : r.id \in Nat
  BY DEF Types, RowTypes
<1>5. ApexNS(recs', z) # {} => \E r \in ApexNS(recs', z) : r.id # rid
  BY <1>1, <1>2, <1>3, <1>4, KeptSpares
<1> QED
  BY <1>5 DEF Spared

LEMMA AloneKept ==
  ASSUME Alone, NEW c \in Callers, Others(c), strained \subseteq strained',
         \A o \in Callers : /\ o # c /\ at[o] \in Deleting /\ at'[c] \in Deleting
                          /\ job[o].zid = job'[c].zid
                         => job'[c].zid \in strained'
  PROVE  Alone'
  BY DEF Alone, Others

LEMMA AskNames == ASSUME Types, Types', NSInv, NEW c \in Callers, Ask(c) PROVE NSInv'
<1>1. /\ Others(c) /\ strained \subseteq strained' /\ recs' = recs
      /\ at'[c] = "remove" => job'[c].zid \in strained'
      /\ \A o \in Callers : /\ o # c /\ at[o] \in Deleting /\ at'[c] \in Deleting
                           /\ job[o].zid = job'[c].zid
                          => job'[c].zid \in strained'
  BY AskDeletes
<1>2. Alone'
  BY <1>1, AloneKept DEF NSInv
<1>3. ASSUME NEW o \in Callers PROVE Spared(o)'
  <2>1. CASE o = c
    BY <1>1, <2>1 DEF Spared
  <2>2. CASE o # c
    BY <1>1, <2>2 DEF Spared, NSInv, Others
  <2> QED
    BY <2>1, <2>2
<1> QED
  BY <1>2, <1>3 DEF NSInv

LEMMA StepNames == ASSUME Types, Types', NSInv, NEW c \in Callers, CallerStep(c) PROVE NSInv'
<1>1. /\ Others(c) /\ strained' = strained
      /\ \/ at'[c] \notin Deleting
         \/ /\ at[c] = "count" /\ at'[c] = "remove" /\ job'[c] = job[c]
            /\ recs' = recs /\ ~LastNameServer(c)
  BY StepDeletes
<1>2. \A o \in Callers : /\ o # c /\ at[o] \in Deleting /\ at'[c] \in Deleting
                       /\ job[o].zid = job'[c].zid
                      => job'[c].zid \in strained'
  BY <1>1 DEF NSInv, Alone, Deleting
<1>3. Alone'
  BY <1>1, <1>2, AloneKept DEF NSInv
<1>4. ASSUME NEW o \in Callers PROVE Spared(o)'
  <2>1. CASE o = c
    <3>1. CASE at'[c] \notin Deleting
      BY <2>1, <3>1 DEF Spared, Deleting
    <3>2. CASE /\ at[c] = "count" /\ at'[c] = "remove" /\ job'[c] = job[c]
               /\ recs' = recs /\ ~LastNameServer(c)
      <4>1. ApexNS(recs, job[c].zid) # {} =>
              \E r \in ApexNS(recs, job[c].zid) : r.id # job[c].rid
        BY <3>2 DEF LastNameServer, Target, ApexNS, Rows
      <4> QED
        BY <2>1, <3>2, <4>1 DEF Spared
    <3> QED
      BY <1>1, <3>1, <3>2
  <2>2. CASE o # c /\ at[o] = "remove" /\ job[o].zid \notin strained
    <3>1. ~Removes(c, job[o].zid)
      BY <2>2 DEF Removes, NSInv, Alone, Deleting
    <3>2. Kept(recs, recs', lastRec, job[o].zid) \/ Gone(job[o].zid)
      BY <3>1, CallerNames
    <3>3. Kept(recs, recs', lastRec, job[o].zid) \/ ApexNS(recs', job[o].zid) = {}
      BY <3>2 DEF Gone
    <3>4. at'[o] = at[o] /\ job'[o] = job[o]
      BY <1>1, <2>2 DEF Others
    <3> QED
      BY <1>1, <2>2, <3>3, <3>4, WaitingSpared
  <2>3. CASE o # c /\ ~(at[o] = "remove" /\ job[o].zid \notin strained)
    BY <1>1, <2>3 DEF Spared, Others
  <2> QED
    BY <2>1, <2>2, <2>3
<1> QED
  BY <1>3, <1>4 DEF NSInv

LEMMA BuildNames ==
  ASSUME Types, NSInv, NEW b \in Builders, BeginBuild(b) \/ AllDNSData(b) \/ Swap(b)
  PROVE  NSInv' /\ recs' = recs
<1>1. recs' = recs /\ strained' = strained
  BY DEF BeginBuild, AllDNSData, Read, Swap, tables
<1>2. \A o \in Callers : (at'[o] = at[o] /\ job'[o] = job[o]) \/ at'[o] = "idle"
  BY DEF BeginBuild, AllDNSData, Read, Swap, Builders, Types, CallerTypes
<1>3. Alone'
  BY <1>1, <1>2 DEF NSInv, Alone, Deleting
<1>4. \A o \in Callers : Spared(o)'
  BY <1>1, <1>2 DEF NSInv, Spared
<1> QED
  BY <1>1, <1>3, <1>4 DEF NSInv

LEMMA NextNames == Types /\ Types' /\ NSInv /\ [Next]_zonesVars => NSInv'
<1> SUFFICES ASSUME Types, Types', NSInv, [Next]_zonesVars PROVE NSInv'
  OBVIOUS
<1>1. CASE UNCHANGED zonesVars
  BY <1>1 DEF zonesVars, NSInv, Alone, Spared
<1> QED
  BY <1>1, AskNames, StepNames, BuildNames DEF Next

ZoneKeeps(d) ==
  zone[d] # 0 /\ zone'[d] = zone[d] /\ zone[d] \notin strained' =>
    (ApexNS(recs, zone[d]) # {} => ApexNS(recs', zone[d]) # {})

LEMMA StepKeeps ==
  Types /\ NSInv /\ [Next]_zonesVars => \A d \in Domains : ZoneKeeps(d)
<1> SUFFICES ASSUME Types, NSInv, [Next]_zonesVars, NEW d \in Domains PROVE ZoneKeeps(d)
  OBVIOUS
<1>1. ASSUME recs' = recs PROVE ZoneKeeps(d)
  BY <1>1 DEF ZoneKeeps
<1>2. ASSUME NEW c \in Callers, Ask(c) PROVE ZoneKeeps(d)
  BY <1>1, <1>2, AskDeletes
<1>3. ASSUME NEW c \in Callers, CallerStep(c) PROVE ZoneKeeps(d)
  <2>1. CASE Kept(recs, recs', lastRec, zone[d])
    BY <2>1 DEF Kept, ZoneKeeps
  <2>2. CASE Gone(zone[d])
    BY <2>2 DEF Gone, ZoneKeeps, Types, IInv, StoreInv
  <2>3. CASE Removes(c, zone[d])
    <3>1. strained' = strained
      BY <1>3, StepDeletes
    <3>2. ASSUME zone[d] \notin strained, ApexNS(recs, zone[d]) # {}
          PROVE  ApexNS(recs', zone[d]) # {}
      <4>1. PICK r \in ApexNS(recs, zone[d]) : r.id # job[c].rid
        BY <2>3, <3>2 DEF Removes, NSInv, Spared
      <4>2. r \in ApexNS(recs', zone[d])
        BY <2>3, <4>1 DEF Removes, ApexNS, Rows, Target
      <4> QED
        BY <4>2
    <3> QED
      BY <3>1, <3>2 DEF ZoneKeeps
  <2> QED
    BY <1>3, <2>1, <2>2, <2>3, CallerNames
<1>4. ASSUME NEW b \in Builders, BeginBuild(b) \/ AllDNSData(b) \/ Swap(b) PROVE ZoneKeeps(d)
  BY <1>1, <1>4, BuildNames
<1>5. CASE UNCHANGED zonesVars
  BY <1>1, <1>5 DEF zonesVars
<1> QED
  BY <1>2, <1>3, <1>4, <1>5 DEF Next

\* A zone keeps a name server through every patch, provisioning and deletion
\* (handleDeleteDNSRecord counts the others first), as long as the deletions of its
\* records do not overlap and none comes from the command line.
THEOREM NameServersKept == Spec => KeepsNameServer
<1>1. Init => NSInv
  BY DEF Init, NSInv, Alone, Spared, Deleting
<1>2. Types /\ NSInv /\ [Next]_zonesVars =>
        [\A d \in Domains :
           zone[d] # NoRow /\ zone'[d] = zone[d] /\ zone[d] \notin strained' =>
             (ApexNS(recs, zone[d]) # {} => ApexNS(recs, zone[d])' # {})]_zonesVars
  <2>1. ASSUME Types, NSInv, Next, NEW d \in Domains, zone'[d] = zone[d]
        PROVE  ApexNS(recs', zone[d]) = ApexNS(recs, zone[d])'
    BY <2>1 DEF ApexNS, Rows
  <2> QED
    BY <2>1, StepKeeps DEF ZoneKeeps
<1> QED
  BY <1>1, <1>2, InitTypes, NextTypes, NextNames, PTL DEF Spec, KeepsNameServer

-----------------------------------------------------------------------------
(* The search for a zone.                                                  *)

LEMMA Least ==
  ASSUME NEW n \in Nat, NEW S, S \subseteq 1 .. n, S # {}
  PROVE  \E i \in S : \A k \in S : i <= k
<1> DEFINE Below == {1 .. i : i \in S}
<1>1. IsFiniteSet(1 .. n)
  BY FS_Interval
<1>2. IsWellFoundedOn(StrictSubsetOrdering(1 .. n), FiniteSubsetsOf(1 .. n))
  BY FS_StrictSubsetOrderingWellFounded
<1>3. Below \subseteq FiniteSubsetsOf(1 .. n) /\ Below # {}
  <2>1. ASSUME NEW i \in S PROVE 1 .. i \in FiniteSubsetsOf(1 .. n)
    BY <1>1, FS_Interval DEF FiniteSubsetsOf
  <2> QED
    BY <2>1
<1> HIDE DEF Below
<1>4. PICK x \in Below : \A y \in Below : ~ (<<y, x>> \in StrictSubsetOrdering(1 .. n))
  BY <1>2, <1>3, WFMin
<1>5. PICK i \in S : x = 1 .. i
  BY DEF Below
<1>6. ASSUME NEW k \in S, k < i PROVE FALSE
  <2>1. 1 .. k \in Below
    BY DEF Below
  <2>2. i \in Nat /\ k \in Nat /\ i >= 1 /\ k >= 1
    OBVIOUS
  <2>3. 1 .. k \subseteq 1 .. i /\ 1 .. k # 1 .. i /\ 1 .. k \subseteq 1 .. n /\ 1 .. i \subseteq 1 .. n
    BY <1>6, <2>2
  <2> QED
    BY <1>4, <1>5, <2>1, <2>3 DEF StrictSubsetOrdering
<1> QED
  BY <1>6

Names == Seq(STRING)

\* A name in a zone is its label and the apex.
LEMMA LabelAndApex ==
  ASSUME NEW q \in Names, NEW d \in Names, Within(q, d)
  PROVE  Label(q, d) \in Names /\ Label(q, d) \o d = q
<1> DEFINE cut == Len(q) - Len(d)
<1>1. Len(q) \in Nat /\ Len(d) \in Nat /\ cut \in 0 .. Len(q)
  BY LenProperties DEF Within, Names
<1>2. \A i \in 1 .. cut : q[i] \in STRING
  BY <1>1, ElementOfSeq DEF Names
<1>3. Label(q, d) \in Names
  BY <1>1, <1>2, SubSeqProperties DEF Label, Names
<1>4. SubSeq(q, 1, cut) \o SubSeq(q, cut + 1, Len(q)) = SubSeq(q, 1, Len(q))
  <2>1. 1 \in 1 .. Len(q) + 1 /\ cut \in 1 - 1 .. Len(q) /\ Len(q) \in cut .. Len(q)
    BY <1>1
  <2> HIDE DEF cut
  <2> QED
    BY <2>1, ConcatAdjacentSubSeq DEF Names
<1>5. SubSeq(q, 1, Len(q)) = q
  BY SubSeqFull DEF Names
<1> QED
  BY <1>3, <1>4, <1>5 DEF Within, Label

LEMMA SameLabel ==
  ASSUME NEW s \in Names, NEW t \in Names, NEW d \in Names, s \o d = t \o d
  PROVE  s = t
<1>1. \A S : \A x, y, v \in Seq(S) : x \o v = y \o v => x = y
  BY ConcatSimplifications, Zenon
<1> QED
  BY <1>1, Zenon DEF Names

\* So a record of a zone belongs to a name if its own is the name's label.
LEMMA OwnerByLabel ==
  ASSUME NEW q \in Names, NEW d \in Names, Within(q, d), NEW n \in Names
  PROVE  n \o d = q <=> n = Label(q, d)
<1>1. Label(q, d) \in Names /\ Label(q, d) \o d = q
  BY LabelAndApex
<1>2. ASSUME n \o d = Label(q, d) \o d PROVE n = Label(q, d)
  BY <1>1, <1>2, SameLabel
<1> QED
  BY <1>1, <1>2

LEMMA WildOwner ==
  ASSUME NEW d \in Names, NEW n \in Names, Star \in STRING
  PROVE  n \o d = <<Star>> \o d <=> n = <<Star>>
<1>1. <<Star>> \in Names
  BY DEF Names
<1>2. ASSUME n \o d = <<Star>> \o d PROVE n = <<Star>>
  BY <1>1, <1>2, SameLabel
<1> QED
  BY <1>2

\* The ends of a name are the apexes it is within.
LEMMA Ends ==
  ASSUME NEW q \in Names, NEW i \in 1 .. Len(q)
  PROVE  /\ Len(SubSeq(q, i, Len(q))) = Len(q) - i + 1
         /\ Within(q, SubSeq(q, i, Len(q)))
<1>1. Len(q) \in Nat
  BY LenProperties DEF Names
<1>2. \A k \in i .. Len(q) : q[k] \in STRING
  BY <1>1, ElementOfSeq DEF Names
<1>3. Len(SubSeq(q, i, Len(q))) = Len(q) - i + 1
  BY <1>1, <1>2, SubSeqProperties
<1>4. Len(q) - (Len(q) - i + 1) + 1 = i
  BY <1>1
<1> QED
  BY <1>1, <1>3, <1>4 DEF Within

LEMMA ApexIsEnd ==
  ASSUME NEW q \in Names, NEW d \in Names, d # <<>>, Within(q, d)
  PROVE  /\ Len(q) - Len(d) + 1 \in 1 .. Len(q)
         /\ d = SubSeq(q, Len(q) - Len(d) + 1, Len(q))
<1>1. Len(q) \in Nat /\ Len(d) \in Nat /\ Len(d) # 0
  BY LenProperties, EmptySeq DEF Names
<1> QED
  BY <1>1 DEF Within

\* Stripping labels from the front finds the zone with the longest apex.
LEMMA FindIsZoneFor ==
  ASSUME served.ids = zone, NEW q \in Names
  PROVE  \/ ZoneFor(q) = {} /\ Find(q) = <<>>
         \/ \E d \in Domains : ZoneFor(q) = {d} /\ Find(q) = d /\ Within(q, d)
<1> DEFINE hit == {i \in 1 .. Len(q) : Served(SubSeq(q, i, Len(q)))}
<1>1. Len(q) \in Nat /\ \A d \in Domains : d \in Names /\ d # <<>> /\ Len(d) \in Nat
  BY NamesAssumption, LenProperties DEF Names
<1>2. \A d \in Apexes(q) : /\ Len(q) - Len(d) + 1 \in hit
                          /\ d = SubSeq(q, Len(q) - Len(d) + 1, Len(q))
  BY <1>1, ApexIsEnd DEF Apexes, Served
<1>3. \A i \in hit : /\ SubSeq(q, i, Len(q)) \in Apexes(q)
                     /\ Len(SubSeq(q, i, Len(q))) = Len(q) - i + 1
  BY Ends DEF Apexes, Served
<1>4. CASE hit = {}
  BY <1>2, <1>4 DEF Find, ZoneFor
<1>5. CASE hit # {}
  <2>1. \E i \in hit : \A k \in hit : i <= k
    BY <1>1, <1>5, Least
  <2> DEFINE first == CHOOSE i \in hit : \A k \in hit : i <= k
             d == SubSeq(q, first, Len(q))
  <2>2. first \in hit /\ \A k \in hit : first <= k
    BY <2>1
  <2>3. Find(q) = d
    BY <1>5 DEF Find
  <2> HIDE DEF first
  <2>4. first \in 1 .. Len(q) /\ d \in Apexes(q) /\ Len(d) = Len(q) - first + 1
    BY <1>3, <2>2
  <2> HIDE DEF d, hit
  <2>5. ASSUME NEW e \in Apexes(q) PROVE Len(e) <= Len(d) /\ (Len(e) = Len(d) => e = d)
    <3>1. Len(e) \in Nat /\ Len(q) - Len(e) + 1 \in hit
      BY <1>1, <1>2 DEF Apexes
    <3>2. first <= Len(q) - Len(e) + 1
      BY <2>2, <3>1
    <3>3. Len(e) <= Len(d)
      BY <1>1, <2>4, <3>1, <3>2
    <3>4. ASSUME Len(e) = Len(d) PROVE e = d
      BY <1>2, <2>4, <3>4
    <3> QED
      BY <3>3, <3>4
  <2>6. ZoneFor(q) = {d}
    <3>1. d \in ZoneFor(q)
      BY <2>4, <2>5 DEF ZoneFor
    <3>2. ASSUME NEW e \in ZoneFor(q) PROVE e = d
      <4>1. e \in Apexes(q) /\ Len(d) <= Len(e) /\ Len(d) \in Nat /\ Len(e) \in Nat
        BY <1>1, <2>4 DEF ZoneFor, Apexes
      <4> QED
        BY <2>5, <4>1
    <3> QED
      BY <3>1, <3>2
  <2> QED
    BY <2>3, <2>4, <2>6 DEF Apexes
<1> QED
  BY <1>4, <1>5

StoredRows(d, n) == {r \in Rows(recs, zone[d]) : r.name = n}

\* The index by owner names finds the records that the label names.
LEMMA MatchIsStored ==
  ASSUME served = Snapshot, \A r \in recs : r.name \in Names,
         NEW d \in Domains, NEW q \in Names, Within(q, d)
  PROVE  /\ At(d, q) = StoredRows(d, Label(q, d))
         /\ At(d, <<Star>> \o d) = StoredRows(d, <<Star>>)
<1>1. d \in Names /\ Star \in STRING
  BY NamesAssumption DEF Names
<1>2. Rows(served.rows, served.ids[d]) = Rows(recs, zone[d])
  BY DEF Snapshot
<1>3. \A r \in Rows(recs, zone[d]) :
        /\ r.name \o d = q <=> r.name = Label(q, d)
        /\ r.name \o d = <<Star>> \o d <=> r.name = <<Star>>
  BY <1>1, OwnerByLabel, WildOwner DEF Rows
<1> QED
  BY <1>2, <1>3, Zenon DEF At, StoredRows

LEMMA ServesAsStored ==
  ASSUME served = Snapshot, \A r \in recs : r.name \in Names,
         NEW q \in Names, NEW t \in RecordTypes \cup {"SOA"}
  PROVE  ServeDNS(q, t) = StoredReply(q, t)
<1>1. t # "ANY"
  BY NamesAssumption DEF RecordTypes
<1>2. served.ids = zone /\ served.serials = serial /\ served.ns = settings
  BY DEF Snapshot
<1>3. CASE ZoneFor(q) = {} /\ Find(q) = <<>>
  BY <1>3 DEF ServeDNS, StoredReply
<1>4. ASSUME NEW d \in Domains, ZoneFor(q) = {d}, Find(q) = d, Within(q, d)
      PROVE  ServeDNS(q, t) = StoredReply(q, t)
  <2>1. d # <<>>
    BY NamesAssumption
  <2>2. (CHOOSE e \in ZoneFor(q) : TRUE) = d
    BY <1>4
  <2> DEFINE rows == IF StoredRows(d, Label(q, d)) # {} THEN StoredRows(d, Label(q, d))
                     ELSE StoredRows(d, <<Star>>)
             ofType(type) == {r.value : r \in {s \in rows : s.type = type}}
  <2>3. \A type : Match(d, q, type) = [known |-> rows # {}, values |-> ofType(type)]
    BY <1>4, MatchIsStored, Zenon DEF Match
  <2>4. StoredReply(q, t) =
          IF q = d /\ t = "SOA" THEN Reply("ok", "SOA", {<<serial[d], settings>>})
          ELSE IF ofType(t) # {} THEN Reply("ok", t, ofType(t))
          ELSE IF ofType("CNAME") # {} THEN Reply("ok", "CNAME", ofType("CNAME"))
          ELSE Reply(IF rows = {} THEN "nxdomain" ELSE "ok", t, {})
    BY <1>4, <2>2, Zenon DEF StoredReply, StoredRows
  <2>5. ServeDNS(q, t) =
          IF q = d /\ t = "SOA" THEN Reply("ok", "SOA", {<<serial[d], settings>>})
          ELSE IF ofType(t) # {} THEN Reply("ok", t, ofType(t))
          ELSE IF ofType("CNAME") # {} THEN Reply("ok", "CNAME", ofType("CNAME"))
          ELSE Reply(IF rows # {} THEN "ok" ELSE "nxdomain", t, {})
    <3> HIDE DEF rows, ofType
    <3>1. /\ Match(d, q, t).values = ofType(t) /\ Match(d, q, "CNAME").values = ofType("CNAME")
          /\ Match(d, q, t).known = (rows # {})
      BY <2>3
    <3>2. ServeDNS(q, t) =
            IF q = d /\ t = "SOA" THEN Reply("ok", "SOA", {<<served.serials[d], served.ns>>})
            ELSE IF Match(d, q, t).values # {} THEN Reply("ok", t, Match(d, q, t).values)
            ELSE IF Match(d, q, "CNAME").values # {}
              THEN Reply("ok", "CNAME", Match(d, q, "CNAME").values)
            ELSE Reply(IF Match(d, q, t).known THEN "ok" ELSE "nxdomain", t, {})
      BY <1>1, <1>4, <2>1, Zenon DEF ServeDNS
    <3> QED
      BY <1>2, <3>1, <3>2, Zenon
  <2> HIDE DEF rows, ofType
  <2> QED
    BY <2>4, <2>5
<1> QED
  BY <1>2, <1>3, <1>4, FindIsZoneFor

-----------------------------------------------------------------------------
(* Whether the snapshot is level with the store.                           *)

\* A caller that has changed something and not said so yet.
Owed(c) ==
  \/ at[c] = "tell"
  \/ at[c] = "reload" /\ ~Building(c)
  \/ at[c] \in {"look", "append"} /\ job[c].added

Due == pending \/ \E c \in Callers : Owed(c)

\* A build that has read what the store has now, as far as it has read.
Current(b) ==
  /\ draft[b].ids = zone /\ draft[b].serials = serial
  /\ phase[b] \in {"settings", "swap"} => draft[b].rows = recs
  /\ phase[b] = "swap" => draft[b].ns = settings

LevelInv ==
  /\ ~raced => \A b, o \in Builders : Building(b) /\ Building(o) => b = o
  /\ ~raced /\ ~Due =>
       /\ (\A b \in Builders : ~Building(b)) => served = Snapshot
       /\ \A b \in Builders : Building(b) => Current(b)

\* What a caller's step leaves alone, and that it owes a build for a change.
Pays(c) ==
  /\ Others(c) /\ UNCHANGED serving /\ (pending => pending')
  /\ (tables' = tables) \/ Due'
  /\ Owed(c) => Due'

LEMMA PaysLevel ==
  ASSUME LevelInv, NEW c \in Callers, Pays(c)
  PROVE  LevelInv'
<1>1. \A b \in Builders : Building(b)' <=> Building(b)
  BY DEF Pays, serving, Building
<1>2. ~Due' => tables' = tables /\ ~Due
  <2>1. ASSUME NEW o \in Callers, Owed(o) PROVE Due'
    <3>1. CASE o = c
      BY <2>1, <3>1 DEF Pays
    <3>2. CASE o # c
      BY <1>1, <2>1, <3>2 DEF Pays, Others, Owed, Due, Builders
    <3> QED
      BY <3>1, <3>2
  <2>2. pending => Due'
    BY DEF Pays, Due
  <2> QED
    BY <2>1, <2>2 DEF Due, Pays
<1>3. phase' = phase /\ draft' = draft /\ served' = served /\ raced' = raced
  BY DEF Pays, serving
<1>4. tables' = tables => Snapshot' = Snapshot /\ \A b \in Builders : Current(b)' <=> Current(b)
  BY <1>3 DEF tables, Snapshot, Current
<1> QED
  BY <1>1, <1>2, <1>3, <1>4 DEF LevelInv

LEMMA SaysSo ==
  ASSUME Types, NEW c \in Callers, NEW step \in {"tell", "reload"}, Goto(c, step),
         at[c] # "reload"
  PROVE  Pays(c)
<1>1. Others(c) /\ at'[c] = step /\ UNCHANGED serving /\ (pending => pending')
  BY GotoMoves DEF Goto
<1>2. ~Building(c)'
  BY <1>1 DEF serving, Building, Types, OtherTypes
<1>3. Due'
  BY <1>1, <1>2 DEF Due, Owed
<1> QED
  BY <1>1, <1>3 DEF Pays

LEMMA OwesNothing ==
  ASSUME Types, NEW c \in Callers, ~Owed(c), tables' = tables,
         Answers(c) \/ \E step : Goto(c, step)
  PROVE  Pays(c)
<1>1. Others(c) /\ UNCHANGED serving /\ (pending => pending')
  BY GotoMoves, AnswersMoves DEF Goto, Answers
<1> QED
  BY <1>1 DEF Pays

LEMMA AskPays ==
  ASSUME Types, NEW c \in Callers, Ask(c)
  PROVE  Pays(c)
<1>1. \E step, j : Begin(c, step, j)
  BY DEF Ask, AskCreateZone, AskDeleteZone, AskAdd, AskPatch, AskDelete, AskRemoveByHand,
     AskPutSettings, AskProvision, AskAppend, AskCleanUp, Owned
<1>2. PICK step, j : Begin(c, step, j)
  BY <1>1
<1>3. at[c] = "idle" /\ tables' = tables /\ UNCHANGED serving /\ pending' = pending
  BY <1>2 DEF Begin
<1>4. Others(c)
  BY AskDeletes
<1>5. ~Owed(c)
  BY <1>3 DEF Owed
<1> QED
  BY <1>3, <1>4, <1>5 DEF Pays

LEMMA ConcludePays ==
  ASSUME Types, NEW c \in Callers, NEW changed, Conclude(c, changed), at[c] # "reload",
         ~changed => tables' = tables /\ ~Owed(c)
  PROVE  Pays(c)
<1>1. CASE ~changed
  <2>1. Answers(c)
    BY <1>1, Zenon DEF Conclude
  <2> QED
    BY <1>1, <2>1, OwesNothing
<1>2. CASE changed
  <2>1. Goto(c, "tell") \/ Goto(c, "reload")
    BY <1>2, Zenon DEF Conclude
  <2> QED
    BY <2>1, SaysSo
<1> QED
  BY <1>1, <1>2

LEMMA AddIfAbsentPays ==
  ASSUME Types, NEW c \in Callers, AddIfAbsent(c)
  PROVE  Pays(c)
<1>1. /\ at[c] \in {"look", "append"} /\ at[c] # "reload" /\ JobShape(job[c])
      /\ at \in [Callers -> Steps] /\ job = [o \in Callers |-> job[o]]
  BY CallerKnows DEF AddIfAbsent, Types, CallerTypes
<1>2. ASSUME Conclude(c, job[c].added), UNCHANGED tables PROVE Pays(c)
  BY <1>1, <1>2, ConcludePays, Zenon DEF Owed
<1>3. ASSUME NEW f \in job[c].left, NEW step \in {"append", "look"},
             UNCHANGED <<tables, pending, serving, requests, strained>>,
             job' = [job EXCEPT ![c] = [job[c] EXCEPT !.left = job[c].left \ {f}, !.form = f]],
             at' = [at EXCEPT ![c] = step]
      PROVE  Pays(c)
  <2> DEFINE j == [job[c] EXCEPT !.left = job[c].left \ {f}, !.form = f]
  <2>1. j.added = job[c].added
    BY <1>1 DEF JobShape, JobFields
  <2> HIDE DEF j
  <2>2. Others(c) /\ at'[c] = step /\ job'[c] = j
    BY <1>1, <1>3 DEF Others, j
  <2>3. Owed(c) => Owed(c)'
    BY <1>1, <2>1, <2>2 DEF Owed
  <2> QED
    BY <1>3, <2>2, <2>3 DEF Pays, Due
<1>4. ASSUME job' = [job EXCEPT ![c] = [job[c] EXCEPT !.added = TRUE]],
             at' = [at EXCEPT ![c] = "look"],
             UNCHANGED <<pending, serving, requests, strained>>
      PROVE  Pays(c)
  <2> DEFINE j == [job[c] EXCEPT !.added = TRUE]
  <2>1. j.added
    BY <1>1 DEF JobShape, JobFields
  <2> HIDE DEF j
  <2>2. Others(c) /\ at'[c] = "look" /\ job'[c] = j
    BY <1>1, <1>4 DEF Others, j
  <2>3. Owed(c)'
    BY <2>1, <2>2 DEF Owed
  <2> QED
    BY <1>4, <2>2, <2>3 DEF Pays, Due
<1> QED
  BY <1>2, <1>3, <1>4 DEF AddIfAbsent

LEMMA StepPays ==
  ASSUME Types, NEW c \in Callers, CallerStep(c)
  PROVE  Pays(c)
<1>1. ASSUME at[c] \in Steps \ {"tell", "reload", "look", "append"} PROVE ~Owed(c)
  BY <1>1 DEF Owed
<1>2. CASE InsertZone(c) \/ DeleteZone(c)
  <2>1. at[c] \in {"insert", "drop"}
    BY <1>2 DEF InsertZone, DeleteZone
  <2>2. Goto(c, "tell") \/ (Answers(c) /\ tables' = tables)
    BY <1>2 DEF InsertZone, DeleteZone
  <2> QED
    BY <1>1, <2>1, <2>2, SaysSo, OwesNothing DEF Steps
<1>3. CASE AddRecord(c) \/ PutSettings(c)
  BY <1>3, SaysSo DEF AddRecord, PutSettings
<1>4. CASE PatchRecord(c) \/ DeleteRecord(c)
  <2>1. at[c] \in {"find", "update", "count", "remove"}
    BY <1>4 DEF PatchRecord, DeleteRecord
  <2>2. \/ Goto(c, "tell")
        \/ (Answers(c) \/ Goto(c, "update") \/ Goto(c, "remove")) /\ tables' = tables
    BY <1>4 DEF PatchRecord, DeleteRecord
  <2> QED
    BY <1>1, <2>1, <2>2, SaysSo, OwesNothing DEF Steps
<1>5. CASE AddIfAbsent(c)
  BY <1>5, AddIfAbsentPays
<1>6. CASE CleanUp(c)
  <2> DEFINE gone == Same(job[c].zid, job[c].form)
  <2>1. at[c] = "cleanup" /\ Conclude(c, gone # {})
    BY <1>6 DEF CleanUp
  <2>2. gone = {} => tables' = tables
    BY <1>6 DEF CleanUp, tables
  <2> HIDE DEF gone
  <2>3. ~(gone # {}) => tables' = tables /\ ~Owed(c)
    BY <1>1, <2>1, <2>2 DEF Steps
  <2> QED
    BY <2>1, <2>3, ConcludePays
<1>7. CASE Tell(c)
  BY <1>7 DEF Tell, Pays, Others, Due, Types, CallerTypes
<1> QED
  BY <1>2, <1>3, <1>4, <1>5, <1>6, <1>7 DEF CallerStep

-----------------------------------------------------------------------------
(* Builds keep the snapshot level.                                         *)

LEMMA BuildersMove ==
  ASSUME Types, NEW b \in Builders, NEW next, NEW snapshot,
         phase' = [phase EXCEPT ![b] = next], draft' = [draft EXCEPT ![b] = snapshot]
  PROVE  /\ phase'[b] = next /\ draft'[b] = snapshot
         /\ \A o \in Builders \ {b} : phase'[o] = phase[o] /\ draft'[o] = draft[o]
  BY DEF Types, IInv, SnapshotInv

LEMMA BeginBuildLevel ==
  ASSUME Types, LevelInv, NEW b \in Builders, BeginBuild(b)
  PROVE  LevelInv'
<1> DEFINE first == [NoDraft EXCEPT !.ids = zone, !.serials = serial]
<1>1. first.ids = zone /\ first.serials = serial
  BY DEF NoDraft
<1>2. /\ phase' = [phase EXCEPT ![b] = "records"] /\ draft' = [draft EXCEPT ![b] = first]
      /\ tables' = tables /\ ~Building(b)
  BY DEF BeginBuild
<1> HIDE DEF first
<1>3. /\ phase'[b] = "records" /\ draft'[b] = first
      /\ \A o \in Builders \ {b} : phase'[o] = phase[o] /\ draft'[o] = draft[o]
  BY <1>2, BuildersMove
<1>4. raced' <=> \E o \in Builders : Building(o)
  BY Zenon DEF BeginBuild
<1>5. ~raced' => \A o \in Builders : Building(o)' <=> o = b
  BY <1>3, <1>4 DEF Building
<1>6. Current(b)'
  BY <1>1, <1>2, <1>3 DEF Current, tables
<1> QED
  BY <1>5, <1>6 DEF LevelInv

LEMMA ReadLevel ==
  ASSUME Types, LevelInv, NEW b \in Builders, NEW from, NEW to \in {"settings", "swap"},
         NEW snapshot, Read(b, from, to, snapshot), from # "idle",
         Current(b) => /\ snapshot.ids = zone /\ snapshot.serials = serial /\ snapshot.rows = recs
                       /\ to = "swap" => snapshot.ns = settings
  PROVE  LevelInv'
<1>1. /\ phase' = [phase EXCEPT ![b] = to] /\ draft' = [draft EXCEPT ![b] = snapshot]
      /\ phase[b] = from /\ tables' = tables
      /\ UNCHANGED <<at, job, pending, served, raced>>
  BY DEF Read
<1>2. /\ phase'[b] = to /\ draft'[b] = snapshot
      /\ \A o \in Builders \ {b} : phase'[o] = phase[o] /\ draft'[o] = draft[o]
  BY <1>1, BuildersMove
<1>3. \A o \in Builders : Building(o)' <=> Building(o)
  BY <1>1, <1>2 DEF Building
<1>4. Due' <=> Due
  BY <1>1, <1>3 DEF Due, Owed, Builders
<1>5. \A o \in Builders : Current(o) => Current(o)'
  BY <1>1, <1>2 DEF Current, tables
<1>6. Building(b)
  BY <1>1 DEF Building
<1> QED
  BY <1>1, <1>3, <1>4, <1>5, <1>6 DEF LevelInv

LEMMA AllDNSDataLevel ==
  ASSUME Types, LevelInv, NEW b \in Builders, AllDNSData(b)
  PROVE  LevelInv'
<1>1. SnapshotShape(draft[b])
  BY DEF Types, IInv, SnapshotInv
<1>2. CASE Read(b, "records", "settings", [draft[b] EXCEPT !.rows = recs])
  <2> DEFINE s == [draft[b] EXCEPT !.rows = recs]
  <2>1. s.ids = draft[b].ids /\ s.serials = draft[b].serials /\ s.rows = recs
    BY <1>1 DEF SnapshotShape
  <2> HIDE DEF s
  <2>2. Read(b, "records", "settings", s)
    BY <1>2 DEF s
  <2> QED
    BY <2>1, <2>2, ReadLevel DEF Current
<1>3. CASE Read(b, "settings", "swap", [draft[b] EXCEPT !.ns = settings])
  <2> DEFINE s == [draft[b] EXCEPT !.ns = settings]
  <2>1. /\ s.ids = draft[b].ids /\ s.serials = draft[b].serials /\ s.rows = draft[b].rows
        /\ s.ns = settings
    BY <1>1 DEF SnapshotShape
  <2> HIDE DEF s
  <2>2. Read(b, "settings", "swap", s) /\ phase[b] = "settings"
    BY <1>3 DEF s, Read
  <2> QED
    BY <2>1, <2>2, ReadLevel DEF Current
<1> QED
  BY <1>2, <1>3 DEF AllDNSData

LEMMA SwapLevel ==
  ASSUME Types, LevelInv, NEW b \in Builders, Swap(b)
  PROVE  LevelInv'
<1>1. /\ phase' = [phase EXCEPT ![b] = "idle"] /\ draft' = [draft EXCEPT ![b] = NoDraft]
      /\ phase[b] = "swap" /\ served' = draft[b] /\ tables' = tables
      /\ pending' = pending /\ raced' = raced
  BY DEF Swap
<1>2. /\ phase'[b] = "idle"
      /\ \A o \in Builders \ {b} : phase'[o] = phase[o] /\ draft'[o] = draft[o]
  BY <1>1, BuildersMove
<1>3. Building(b) /\ ~Building(b)' /\ \A o \in Builders \ {b} : Building(o)' <=> Building(o)
  BY <1>1, <1>2 DEF Building
<1>4. \A c \in Callers : c # b => at'[c] = at[c] /\ job'[c] = job[c]
  BY DEF Swap, Types, CallerTypes
<1>5. Due => Due'
  <2>1. ASSUME NEW c \in Callers, Owed(c) PROVE Owed(c)'
    <3>1. c # b
      BY <1>3, <2>1 DEF Owed, Types, OtherTypes
    <3> QED
      BY <1>3, <1>4, <2>1, <3>1 DEF Owed, Builders
  <2> QED
    BY <1>1, <2>1 DEF Due
<1>6. SnapshotShape(draft[b])
  BY DEF Types, IInv, SnapshotInv
<1>7. Current(b) => served' = Snapshot'
  BY <1>1, <1>6 DEF Current, SnapshotShape, Snapshot, tables
<1>8. ~raced => \A o \in Builders : ~Building(o)'
  BY <1>3 DEF LevelInv
<1> QED
  BY <1>1, <1>3, <1>5, <1>7, <1>8 DEF LevelInv

-----------------------------------------------------------------------------
(* Names are sequences of labels.                                          *)

NamedJob(j) == j.form.name \in Names /\ \A f \in j.left : f.name \in Names

NameInv ==
  /\ \A r \in recs : r.name \in Names
  /\ \A c \in Callers : NamedJob(job[c])

LEMMA NoJobNamed == NamedJob(NoJob)
<1>1. <<>> \in Names
  BY DEF Names
<1> QED
  BY <1>1 DEF NamedJob, NoJob, NoForm

LEMMA OwnedNamed ==
  ASSUME Types, NEW c \in Callers, NEW d \in Domains, NEW step, NEW j,
         JobShape(j), NamedJob(j), Owned(d, step, c, j)
  PROVE  \E i, k : Begin(c, i, k) /\ NamedJob(k)
<1> DEFINE k == [j EXCEPT !.dom = d, !.zid = zone[d]]
<1>1. k.form = j.form /\ k.left = j.left
  BY DEF JobShape, JobFields
<1>2. Begin(c, step, k)
  BY DEF Owned
<1> HIDE DEF k
<1>3. NamedJob(k)
  BY <1>1 DEF NamedJob
<1> QED
  BY <1>2, <1>3

LEMMA AskNamed ==
  ASSUME Types, NEW c \in Callers, Ask(c)
  PROVE  \E i, k : Begin(c, i, k) /\ NamedJob(k)
<1> DEFINE Goal == \E i, k : Begin(c, i, k) /\ NamedJob(k)
<1>1. /\ JobShape(NoJob) /\ NoJob.left = {} /\ NoJob.form.name \in Names
      /\ \A f \in Forms : f.name \in Names
  BY NamesAssumption, NoJobNamed DEF JobShape, JobFields, NoJob, NamedJob, Names
<1>2. ASSUME NEW d \in Domains, NEW step, NEW j, JobShape(j), NamedJob(j), Owned(d, step, c, j)
      PROVE  Goal
  BY <1>2, OwnedNamed
<1>3. ASSUME NEW d \in Domains, AskCreateZone(c, d) PROVE Goal
  <2> DEFINE j == [NoJob EXCEPT !.dom = d, !.ns = settings]
  <2>1. j.form = NoJob.form /\ j.left = NoJob.left
    BY DEF NoJob
  <2>2. Begin(c, "insert", j)
    BY <1>3 DEF AskCreateZone
  <2> HIDE DEF j
  <2> QED
    BY <1>1, <2>1, <2>2 DEF NamedJob
<1>4. ASSUME NEW ns, AskPutSettings(c, ns) PROVE Goal
  <2> DEFINE j == [NoJob EXCEPT !.ns = ns]
  <2>1. j.form = NoJob.form /\ j.left = NoJob.left
    BY DEF NoJob
  <2>2. Begin(c, "put", j)
    BY <1>4 DEF AskPutSettings
  <2> HIDE DEF j
  <2> QED
    BY <1>1, <2>1, <2>2 DEF NamedJob
<1>5. ASSUME NEW d \in Domains, AskDeleteZone(c, d) PROVE Goal
  BY <1>1, <1>2, <1>5, NoJobNamed DEF AskDeleteZone
<1>6. ASSUME NEW d \in Domains, NEW f \in Forms, AskAdd(c, d, f) PROVE Goal
  <2> DEFINE j == [NoJob EXCEPT !.form = f]
  <2>1. JobShape(j) /\ j.form = f /\ j.left = {}
    BY DEF JobShape, JobFields, NoJob
  <2>2. Owned(d, "add", c, j)
    BY <1>6 DEF AskAdd
  <2> HIDE DEF j
  <2> QED
    BY <1>1, <1>2, <2>1, <2>2 DEF NamedJob
<1>7. ASSUME NEW d \in Domains, NEW id, NEW f \in Forms, AskPatch(c, d, id, f) PROVE Goal
  <2> DEFINE j == [NoJob EXCEPT !.rid = id, !.form = f]
  <2>1. JobShape(j) /\ j.form = f /\ j.left = {}
    BY DEF JobShape, JobFields, NoJob
  <2>2. Owned(d, "find", c, j)
    BY <1>7 DEF AskPatch
  <2> HIDE DEF j
  <2> QED
    BY <1>1, <1>2, <2>1, <2>2 DEF NamedJob
<1>8. ASSUME NEW d \in Domains, NEW id, AskDelete(c, d, id) \/ AskRemoveByHand(c, d, id) PROVE Goal
  <2> DEFINE j == [NoJob EXCEPT !.rid = id]
  <2>1. JobShape(j) /\ j.form = NoJob.form /\ j.left = {}
    BY DEF JobShape, JobFields, NoJob
  <2>2. Owned(d, "count", c, j) \/ Owned(d, "remove", c, j)
    BY <1>8 DEF AskDelete, AskRemoveByHand
  <2> HIDE DEF j
  <2> QED
    BY <1>1, <1>2, <2>1, <2>2 DEF NamedJob
<1>9. ASSUME NEW h \in Hosts, AskProvision(c, h) PROVE Goal
  <2>1. PICK d \in Domains :
          /\ Within(h, d)
          /\ Owned(d, "look", c, [NoJob EXCEPT !.left =
               {[name |-> Label(h, d), type |-> a.type, value |-> a.value] : a \in Addresses}])
    BY <1>9 DEF AskProvision, ZoneFor, Apexes
  <2> DEFINE left == {[name |-> Label(h, d), type |-> a.type, value |-> a.value] : a \in Addresses}
             j == [NoJob EXCEPT !.left = left]
  <2>2. Label(h, d) \in Names
    BY <2>1, LabelAndApex DEF Names
  <2>3. \A f \in left : f.name \in Names
    BY <2>2
  <2>4. JobShape(j) /\ j.left = left /\ j.form = NoJob.form
    BY DEF JobShape, JobFields, NoJob
  <2>5. Owned(d, "look", c, j)
    BY <2>1
  <2> HIDE DEF j, left
  <2> QED
    BY <1>1, <1>2, <2>3, <2>4, <2>5 DEF NamedJob
<1>10. ASSUME NEW d \in Domains, NEW f \in Challenges, AskAppend(c, d, f) PROVE Goal
  <2> DEFINE j == [NoJob EXCEPT !.left = {f}, !.solver = TRUE]
  <2>1. JobShape(j) /\ j.left = {f} /\ j.form = NoJob.form /\ f \in Forms
    BY DEF JobShape, JobFields, NoJob
  <2>2. Owned(d, "look", c, j)
    BY <1>10 DEF AskAppend
  <2> HIDE DEF j
  <2> QED
    BY <1>1, <1>2, <2>1, <2>2 DEF NamedJob
<1>11. ASSUME NEW d \in Domains, NEW f \in Challenges, AskCleanUp(c, d, f) PROVE Goal
  <2> DEFINE j == [NoJob EXCEPT !.form = f, !.solver = TRUE]
  <2>1. JobShape(j) /\ j.form = f /\ j.left = {} /\ f \in Forms
    BY DEF JobShape, JobFields, NoJob
  <2>2. Owned(d, "cleanup", c, j)
    BY <1>11 DEF AskCleanUp
  <2> HIDE DEF j
  <2> QED
    BY <1>1, <1>2, <2>1, <2>2 DEF NamedJob
<1> HIDE DEF Goal
<1>12. Goal
  BY <1>3, <1>4, <1>5, <1>6, <1>7, <1>8, <1>9, <1>10, <1>11 DEF Ask
<1> QED
  BY <1>12 DEF Goal

LEMMA BootstrapNamed ==
  ASSUME NEW id, NEW names, NEW last, NEW r \in Bootstrap(id, names, last)
  PROVE  r.name \in Names
<1>1. r.name = <<>>
  BY DEF Bootstrap
<1> QED
  BY <1>1 DEF Names

\* The rows a step leaves are named if it leaves the old ones, or copies of them,
\* and the one that its job describes.
LEMMA StepNamed ==
  ASSUME Types, NameInv, NEW c \in Callers, CallerStep(c)
  PROVE  NameInv'
<1> DEFINE RowsNamed == \A r \in recs' : r.name \in Names
           JobNamed == NamedJob(job'[c])
<1>1. NamedJob(job[c]) /\ NamedJob(NoJob) /\ \A r \in recs : r.name \in Names
  BY NoJobNamed DEF NameInv
<1>2. ASSUME Answers(c) PROVE JobNamed
  BY <1>1, <1>2 DEF Answers, Types, CallerTypes
<1>3. ASSUME NEW step, Goto(c, step) PROVE JobNamed
  BY <1>1, <1>3 DEF Goto
<1>4. ASSUME tables' = tables PROVE RowsNamed
  BY <1>1, <1>4 DEF tables
<1>5. ASSUME NEW id, NEW f, f.name \in Names, Insert(id, f) PROVE RowsNamed
  BY <1>1, <1>5 DEF Insert
<1> HIDE DEF RowsNamed, JobNamed
<1>6. ASSUME InsertZone(c) PROVE RowsNamed /\ JobNamed
  <2>1. ASSUME recs' = recs \cup Bootstrap(lastZone + 1, job[c].ns, lastRec) PROVE RowsNamed
    <3>1. \A r \in Bootstrap(lastZone + 1, job[c].ns, lastRec) : r.name \in Names
      BY BootstrapNamed
    <3> QED
      BY <1>1, <2>1, <3>1, Zenon DEF RowsNamed
  <2>2. RowsNamed
    BY <1>4, <1>6, <2>1 DEF InsertZone
  <2> QED
    BY <1>2, <1>3, <1>6, <2>2 DEF InsertZone
<1>7. ASSUME DeleteZone(c) \/ DeleteRecord(c) \/ PutSettings(c) PROVE RowsNamed /\ JobNamed
  <2>1. recs' \subseteq recs
    BY <1>7 DEF DeleteZone, DeleteRecord, PutSettings, tables
  <2>2. RowsNamed
    BY <1>1, <2>1 DEF RowsNamed
  <2> QED
    BY <1>2, <1>3, <1>7, <2>2 DEF DeleteZone, DeleteRecord, PutSettings
<1>8. ASSUME AddRecord(c) PROVE RowsNamed /\ JobNamed
  BY <1>1, <1>3, <1>5, <1>8 DEF AddRecord, NamedJob
<1>9. ASSUME PatchRecord(c) PROVE RowsNamed /\ JobNamed
  <2>1. ASSUME recs' = (recs \ Target(c)) \cup
                         {[r EXCEPT !.value = job[c].form.value] : r \in Target(c)}
        PROVE  RowsNamed
    <3>1. ASSUME NEW r \in Target(c) PROVE [r EXCEPT !.value = job[c].form.value].name \in Names
      <4>1. r \in recs /\ Row(r)
        BY DEF Target, Types, IInv, StoreInv
      <4>2. [r EXCEPT !.value = job[c].form.value].name = r.name
        BY <4>1 DEF Row
      <4> QED
        BY <1>1, <4>1, <4>2
    <3>2. ASSUME NEW r \in recs' PROVE r.name \in Names
      <4>1. CASE r \in recs
        BY <1>1, <4>1
      <4>2. CASE \E o \in Target(c) : r = [o EXCEPT !.value = job[c].form.value]
        BY <3>1, <4>2
      <4> QED
        BY <2>1, <4>1, <4>2
    <3> QED
      BY <3>2 DEF RowsNamed
  <2>2. RowsNamed
    BY <1>4, <1>9, <2>1 DEF PatchRecord
  <2> QED
    BY <1>2, <1>3, <1>9, <2>2 DEF PatchRecord
<1>10. ASSUME AddIfAbsent(c) PROVE RowsNamed /\ JobNamed
  <2>1. JobShape(job[c]) /\ job = [o \in Callers |-> job[o]]
    BY CallerKnows DEF Types, CallerTypes
  <2>2. ASSUME Conclude(c, job[c].added), tables' = tables PROVE RowsNamed /\ JobNamed
    <3>1. Answers(c) \/ Goto(c, "tell") \/ Goto(c, "reload")
      BY <2>2, Zenon DEF Conclude
    <3> QED
      BY <1>2, <1>3, <1>4, <2>2, <3>1
  <2>3. ASSUME NEW f \in job[c].left, tables' = tables,
               job' = [job EXCEPT ![c] = [job[c] EXCEPT !.left = job[c].left \ {f}, !.form = f]]
        PROVE  RowsNamed /\ JobNamed
    <3> DEFINE j == [job[c] EXCEPT !.left = job[c].left \ {f}, !.form = f]
    <3>1. j.left = job[c].left \ {f} /\ j.form = f
      BY <2>1 DEF JobShape, JobFields
    <3> HIDE DEF j
    <3>2. job'[c] = j
      BY <2>1, <2>3 DEF j
    <3> QED
      BY <1>1, <1>4, <2>3, <3>1, <3>2 DEF JobNamed, NamedJob
  <2>4. ASSUME Insert(job[c].zid, job[c].form),
               job' = [job EXCEPT ![c] = [job[c] EXCEPT !.added = TRUE]]
        PROVE  RowsNamed /\ JobNamed
    <3> DEFINE j == [job[c] EXCEPT !.added = TRUE]
    <3>1. j.left = job[c].left /\ j.form = job[c].form
      BY <2>1 DEF JobShape, JobFields
    <3> HIDE DEF j
    <3>2. job'[c] = j
      BY <2>1, <2>4 DEF j
    <3> QED
      BY <1>1, <1>5, <2>4, <3>1, <3>2 DEF JobNamed, NamedJob
  <2> QED
    BY <1>10, <2>2, <2>3, <2>4 DEF AddIfAbsent
<1>11. ASSUME CleanUp(c) PROVE RowsNamed /\ JobNamed
  <2>1. recs' \subseteq recs
    BY <1>11 DEF CleanUp
  <2>2. Answers(c) \/ Goto(c, "tell") \/ Goto(c, "reload")
    BY <1>11, Zenon DEF CleanUp, Conclude
  <2> QED
    BY <1>1, <1>2, <1>3, <2>1, <2>2 DEF RowsNamed
<1>12. ASSUME Tell(c) PROVE RowsNamed /\ JobNamed
  BY <1>1, <1>4, <1>12 DEF Tell, JobNamed, Types, CallerTypes
<1>13. RowsNamed /\ JobNamed
  BY <1>6, <1>7, <1>8, <1>9, <1>10, <1>11, <1>12 DEF CallerStep
<1>14. Others(c)
  BY StepDeletes
<1> QED
  BY <1>13, <1>14 DEF NameInv, RowsNamed, JobNamed, Others

-----------------------------------------------------------------------------
(* Answers.                                                                *)

AnswerInv == Types /\ LevelInv /\ NameInv

LEMMA InitAnswers == Init => AnswerInv
<1> SUFFICES ASSUME Init PROVE AnswerInv
  OBVIOUS
<1>1. LevelInv
  <2>1. raced = FALSE /\ served = Snapshot
    BY DEF Init
  <2>2. \A b \in Builders : ~Building(b)
    BY DEF Init, Builders, Building
  <2> QED
    BY <2>1, <2>2 DEF LevelInv
<1>2. \A r \in recs : r.name \in Names
  BY BootstrapNamed DEF Init
<1>3. NameInv
  BY <1>2, NoJobNamed DEF Init, NameInv
<1> QED
  BY <1>1, <1>3, InitTypes DEF AnswerInv

LEMMA NextAnswers == AnswerInv /\ [Next]_zonesVars => AnswerInv'
<1> SUFFICES ASSUME AnswerInv, [Next]_zonesVars PROVE LevelInv' /\ NameInv'
  BY NextTypes DEF AnswerInv
<1> USE DEF AnswerInv
<1>1. ASSUME NEW c \in Callers, Ask(c) PROVE LevelInv' /\ NameInv'
  <2>1. PICK i, k : Begin(c, i, k) /\ NamedJob(k)
    BY <1>1, AskNamed
  <2>2. NameInv'
    BY <2>1 DEF Begin, tables, NameInv, Types, CallerTypes
  <2> QED
    BY <1>1, <2>2, AskPays, PaysLevel
<1>2. ASSUME NEW c \in Callers, CallerStep(c) PROVE LevelInv' /\ NameInv'
  BY <1>2, StepPays, PaysLevel, StepNamed
<1>3. ASSUME NEW b \in Builders, BeginBuild(b) \/ AllDNSData(b) \/ Swap(b)
      PROVE  LevelInv' /\ NameInv'
  <2>1. recs' = recs
    BY <1>3 DEF BeginBuild, AllDNSData, Read, Swap, tables
  <2>2. \A c \in Callers : job'[c] = job[c] \/ job'[c] = NoJob
    BY <1>3 DEF BeginBuild, AllDNSData, Read, Swap, Types, CallerTypes
  <2>3. NameInv'
    BY <2>1, <2>2, NoJobNamed DEF NameInv
  <2> QED
    BY <1>3, <2>3, BeginBuildLevel, AllDNSDataLevel, SwapLevel
<1>4. ASSUME UNCHANGED zonesVars PROVE LevelInv' /\ NameInv'
  <2>1. NameInv'
    BY <1>4 DEF zonesVars, NameInv
  <2>2. LevelInv'
    BY <1>4 DEF zonesVars, LevelInv, Building, Due, Owed, Current, Snapshot
  <2> QED
    BY <2>1, <2>2
<1> QED
  BY <1>1, <1>2, <1>3, <1>4 DEF Next

\* Once all is quiet, every query is answered as the store has it: a change is owed
\* a build until one begins that reads it, a build that had the snapshot to itself
\* serves what it read, and the search from the front of a name finds the zone with
\* the longest apex and, by the label, the records that were written for it.
THEOREM AnswersFromStore == Spec => []AnswersAsStored
<1>1. AnswerInv => AnswersAsStored
  <2> SUFFICES ASSUME AnswerInv, Quiet PROVE \A q \in Queries, t \in RecordTypes \cup {"SOA"} :
                                               ServeDNS(q, t) = StoredReply(q, t)
    BY DEF AnswersAsStored
  <2>1. ~Due
    BY DEF Due, Owed, Quiet
  <2>2. served = Snapshot
    BY <2>1 DEF AnswerInv, LevelInv, Quiet
  <2> QED
    BY <2>2, ServesAsStored, NamesAssumption DEF AnswerInv, NameInv, Names
<1> QED
  BY <1>1, InitAnswers, NextAnswers, PTL DEF Spec

===============================================================================
