------------------------------ MODULE IdeProofs ------------------------------
(***************************************************************************)
(* Theorems about IdeChannel, for any drives, image size, register width   *)
(* and number of reads under way, and for a guest that does what it likes, *)
(* saves and restores included; then about IdeDriver, for any requests the *)
(* driver may make, and last that it implements DriveService.              *)
(***************************************************************************)
EXTENDS IdeDriver, Division, TLAPS

-----------------------------------------------------------------------------
(* Types.  The registers of one interface first.                           *)

LEMMA Modulo == \A a \in Int, b \in Nat \ {0} : a % b \in Nat
  OBVIOUS

LEMMA LeastNat == \A a, b \in Nat : Least(a, b) \in Nat /\ Least(a, b) <= a /\ Least(a, b) <= b
  BY DEF Least

LEMMA RegisterTypes ==
  ASSUME NEW r \in DriveState
  PROVE  /\ \A cd \in BOOLEAN : Reset(r, cd) \in DriveState
         /\ NumSectors(r) \in Nat
         /\ \A n \in Nat : DataAllocate(r, n) \in DriveState
         /\ \A n \in Nat : Advance(r, n) \in DriveState
         /\ \A n \in Nat : MultipleEnd(r, n) \in Nat \cup {None}
         /\ \A s \in Statuses : [r EXCEPT !.status = s] \in DriveState
         /\ \A c \in Commands : [r EXCEPT !.cmd = c] \in DriveState
         /\ [r EXCEPT !.cmd = None] \in DriveState
         /\ \A n \in Nat : [r EXCEPT !.ptr = n] \in DriveState
         /\ \A n \in Nat : [r EXCEPT !.len = n] \in DriveState
         /\ \A n \in Nat : [r EXCEPT !.lba = n] \in DriveState
         /\ \A n \in Nat \cup {None} : [r EXCEPT !.end = n] \in DriveState
         /\ \A n \in Nat \cup {None} : [r EXCEPT !.data = n] \in DriveState
         /\ \A n \in Nat : [r EXCEPT !.multiple = n] \in DriveState
         /\ \A n \in Nat : [r EXCEPT !.write_dest = n] \in DriveState
<1>1. \A cd \in BOOLEAN : Reset(r, cd) \in DriveState
  BY DEF Reset, DriveState, Statuses
<1>2. NumSectors(r) \in Nat
  BY CountAssumption DEF NumSectors, DriveState
<1>3. \A n \in Nat : DataAllocate(r, n) \in DriveState
  BY DEF DataAllocate, DriveState
<1>4. ASSUME NEW n \in Nat PROVE Advance(r, n) \in DriveState
  <2>1. r.count \in Nat /\ r.lba \in Nat
    BY DEF DriveState
  <2>a. r.count - n \in Int /\ r.lba + n \in Int /\ CountWrap \in Nat \ {0} /\ LbaWrap \in Nat \ {0}
    BY <2>1, CountAssumption
  <2> HIDE <2>1
  <2>b. \A a \in Int : a % CountWrap \in Nat /\ a % LbaWrap \in Nat
    BY <2>a, Modulo
  <2>2. (r.count - n) % CountWrap \in Nat /\ (r.lba + n) % LbaWrap \in Nat
    BY <2>a, <2>b, Zenon
  <2> QED
    BY <2>2 DEF Advance, DriveState
<1>5. \A n \in Nat : MultipleEnd(r, n) \in Nat \cup {None}
  BY LeastNat DEF MultipleEnd, DriveState
<1>6. \A s \in Statuses : [r EXCEPT !.status = s] \in DriveState
  BY DEF DriveState
<1>7. \A c \in Commands \cup {None} : [r EXCEPT !.cmd = c] \in DriveState
  BY DEF DriveState
<1>8. \A n \in Nat : /\ [r EXCEPT !.ptr = n] \in DriveState
                     /\ [r EXCEPT !.len = n] \in DriveState
                     /\ [r EXCEPT !.lba = n] \in DriveState
                     /\ [r EXCEPT !.multiple = n] \in DriveState
                     /\ [r EXCEPT !.write_dest = n] \in DriveState
  BY DEF DriveState
<1>9. \A n \in Nat \cup {None} : /\ [r EXCEPT !.end = n] \in DriveState
                                 /\ [r EXCEPT !.data = n] \in DriveState
  BY DEF DriveState
<1> QED
  BY <1>1, <1>2, <1>3, <1>4, <1>5, <1>6, <1>7, <1>8, <1>9

LEMMA ArrivedTypes ==
  ASSUME NEW r \in DriveState, NEW c \in Calls
  PROVE  AtaArrived(r, c) \in DriveState /\ AtapiArrived(r, c) \in DriveState
<1>1. c.n \in Nat /\ c.start \in Nat /\ c.limit \in Nat /\ c.single \in BOOLEAN
  BY DEF Calls
<1>2. AtaArrived(r, c) \in DriveState
  <2> DEFINE q == DataAllocate(r, c.n)
             end == FirstEnd(r, c.n, c.single)
             k == IF c.single THEN 1 ELSE Least(c.n, 128)
             t == [q EXCEPT !.status = "drq", !.data = c.start, !.end = end]
  <2>1. q \in DriveState
    BY <1>1, RegisterTypes
  <2>2. end \in Nat \cup {None}
    BY <1>1, RegisterTypes DEF FirstEnd
  <2>3. k \in Nat
    BY <1>1, LeastNat
  <2>4. t \in DriveState
    <3> HIDE DEF q, end
    <3> QED
      BY <1>1, <2>1, <2>2 DEF DriveState, Statuses
  <2> HIDE DEF t, k
  <2>5. Advance(t, k) \in DriveState
    BY <2>3, <2>4, RegisterTypes
  <2> QED
    BY <2>5 DEF AtaArrived, t, k
<1>3. AtapiArrived(r, c) \in DriveState
  <2> DEFINE q == DataAllocate(r, c.n)
             end == Least(c.limit, c.n)
  <2>1. q \in DriveState /\ end \in Nat
    BY <1>1, RegisterTypes, LeastNat
  <2> HIDE DEF q, end
  <2>2. [q EXCEPT !.status = "drq", !.data = c.start, !.end = end, !.lba = end] \in DriveState
    BY <1>1, <2>1 DEF DriveState, Statuses
  <2> QED
    BY <2>2 DEF AtapiArrived, q, end
<1> QED
  BY <1>2, <1>3

LEMMA ReadEndTypes ==
  ASSUME NEW r \in DriveState, r.end \in Nat, r.ptr = r.end
  PROVE  ReadEnd(r) \in DriveState
<1>1. r.len \in Nat /\ r.lba \in Nat /\ r.ptr \in Nat
  BY DEF DriveState
<1>2. PacketReadEnd(r) \in DriveState
  <2>1. r.len - r.end \in Int /\ LbaWrap \in Nat \ {0} /\ r.end + r.lba \in Nat
    BY <1>1, CountAssumption
  <2>2. (r.len - r.end) % LbaWrap \in Nat
    BY <2>1, Modulo, Zenon
  <2> DEFINE m == (r.len - r.end) % LbaWrap
             e == r.end + r.lba
  <2>3. m \in Nat /\ e \in Nat
    BY <2>1, <2>2
  <2>4. [r EXCEPT !.end = @ + r.lba, !.status = "drq"] = [r EXCEPT !.end = e, !.status = "drq"]
    OBVIOUS
  <2> HIDE DEF m, e
  <2>5. /\ [r EXCEPT !.status = "ready"] \in DriveState
        /\ [r EXCEPT !.status = "drq", !.lba = m, !.end = r.len] \in DriveState
        /\ [r EXCEPT !.status = "drq", !.end = e] \in DriveState
    BY <1>1, <2>3 DEF DriveState, Statuses
  <2> USE DEF m, e
  <2> QED
    BY <2>5 DEF PacketReadEnd
<1>3. AtaReadEnd(r) \in DriveState
  <2>1. CASE r.ptr >= r.len
    BY <2>1, RegisterTypes DEF AtaReadEnd, Statuses
  <2>2. CASE ~ (r.ptr >= r.len)
    <3> DEFINE n == NextBlock(r)
    <3>1. r.len - r.end \in Nat
      BY <1>1, <2>2
    <3>2. n \in Nat \cup {None}
      BY <3>1, RegisterTypes DEF NextBlock
    <3> HIDE DEF n
    <3>3. CASE n = None
      <4>1. [r EXCEPT !.status = "drq", !.end = None] \in DriveState
        BY DEF DriveState, Statuses
      <4> QED
        BY <2>2, <3>3, <4>1 DEF AtaReadEnd, n
    <3>4. CASE n # None
      <4> DEFINE a == Advance(r, n)
      <4>1. a \in DriveState /\ a.end = r.end
        <5>1. a \in DriveState
          BY <3>2, <3>4, RegisterTypes
        <5>2. a.end = r.end
          BY DEF Advance, DriveState
        <5> QED
          BY <5>1, <5>2
      <4> HIDE DEF a
      <4>2. a.end + n \in Nat
        BY <3>2, <3>4, <4>1
      <4>3. [a EXCEPT !.end = @ + n, !.status = "drq"] \in DriveState
        BY <4>1, <4>2 DEF DriveState, Statuses
      <4> QED
        BY <2>2, <3>4, <4>3 DEF AtaReadEnd, n, a
    <3> QED
      BY <3>3, <3>4
  <2> QED
    BY <2>1, <2>2
<1> QED
  BY <1>2, <1>3 DEF ReadEnd

-----------------------------------------------------------------------------
(* The reads under way.                                                    *)

\* What is under way, and which of it has been cancelled: a read is late
\* exactly when its answer will be dropped.
Ios ==
    /\ in_progress \in [Drives -> SUBSET Ids]
    /\ cancelled \in [Drives -> SUBSET Ids]
    /\ calls \in [Drives -> [Ids -> Calls \cup {None}]]
    /\ IoBookkeeping
    /\ \A d \in Drives, id \in Ids :
          calls[d][id] # None => (calls[d][id].late <=> id \in cancelled[d])

\* Every step but the answer itself keeps a read under way.
IosKept ==
    /\ Ios'
    /\ \A d \in Drives, id \in Ids : calls[d][id] # None => calls'[d][id] # None

LEMMA IosUnchanged == Ios /\ UNCHANGED ios => IosKept
  BY DEF Ios, ios, IoBookkeeping, Outstanding, IosKept

LEMMA StartCallIos ==
  ASSUME Ios, NEW d \in Drives, NEW c \in Calls, c.late = FALSE, StartCall(d, c)
  PROVE  IosKept
<1>1. PICK id \in Ids \ Outstanding(d) :
        /\ calls' = [calls EXCEPT ![d][id] = c]
        /\ in_progress' = [in_progress EXCEPT ![d] = @ \cup {id}]
        /\ cancelled' = cancelled
  BY DEF StartCall
<1>2. c # None
  BY NoCallIsNone
<1>3. /\ in_progress' \in [Drives -> SUBSET Ids]
      /\ cancelled' \in [Drives -> SUBSET Ids]
      /\ calls' \in [Drives -> [Ids -> Calls \cup {None}]]
  BY <1>1 DEF Ios
<1>4. id \notin in_progress[d] /\ id \notin cancelled[d]
  BY <1>1 DEF Ios, IoBookkeeping
<1>5. ASSUME NEW e \in Drives
      PROVE  in_progress'[e] \cap cancelled'[e] = {}
  BY <1>1, <1>4 DEF Ios, IoBookkeeping
<1>6. ASSUME NEW e \in Drives, NEW i \in Ids
      PROVE  calls'[e][i] = IF e = d /\ i = id THEN c ELSE calls[e][i]
  BY <1>1 DEF Ios
<1>7. ASSUME NEW e \in Drives
      PROVE  in_progress'[e] \cup cancelled'[e] = {i \in Ids : calls'[e][i] # None}
  <2>1. in_progress[e] \cup cancelled[e] = {i \in Ids : calls[e][i] # None}
    BY DEF Ios, IoBookkeeping, Outstanding
  <2>2. in_progress'[e] = IF e = d THEN in_progress[e] \cup {id} ELSE in_progress[e]
    BY <1>1 DEF Ios
  <2>3. \A i \in Ids : calls'[e][i] # None <=> calls[e][i] # None \/ (e = d /\ i = id)
    BY <1>2, <1>6
  <2>4. \A i : i \in in_progress'[e] \cup cancelled'[e] <=> i \in {j \in Ids : calls'[e][j] # None}
    BY <1>1, <2>1, <2>2, <2>3
  <2> QED
    BY <2>4
<1>8. ASSUME NEW e \in Drives, NEW i \in Ids, calls'[e][i] # None
      PROVE  calls'[e][i].late <=> i \in cancelled'[e]
  <2>1. CASE e = d /\ i = id
    BY <1>1, <1>4, <1>6, <2>1
  <2>2. CASE ~ (e = d /\ i = id)
    BY <1>1, <1>6, <1>8, <2>2 DEF Ios
  <2> QED
    BY <2>1, <2>2
<1>9. \A e \in Drives, i \in Ids : calls[e][i] # None => calls'[e][i] # None
  BY <1>2, <1>6
<1> QED
  BY <1>3, <1>5, <1>7, <1>8, <1>9 DEF IosKept, Ios, IoBookkeeping, Outstanding

LEMMA CancelIos ==
  ASSUME Ios, NEW ds \in SUBSET Drives, CancelIo(ds)
  PROVE  IosKept
<1>1. \A d \in Drives : /\ in_progress[d] \subseteq Ids /\ cancelled[d] \subseteq Ids
                        /\ in_progress[d] \cap cancelled[d] = {}
                        /\ in_progress[d] \cup cancelled[d] = {i \in Ids : calls[d][i] # None}
  BY DEF Ios, IoBookkeeping, Outstanding
<1>2. ASSUME NEW c \in Calls PROVE [c EXCEPT !.late = TRUE] \in Calls
  BY DEF Calls
<1>3. ASSUME NEW d \in Drives
      PROVE  /\ in_progress'[d] = IF d \in ds THEN {} ELSE in_progress[d]
             /\ cancelled'[d] = IF d \in ds THEN cancelled[d] \cup in_progress[d] ELSE cancelled[d]
  BY DEF CancelIo
<1>4. ASSUME NEW d \in Drives, NEW i \in Ids
      PROVE  calls'[d][i] = IF d \in ds /\ calls[d][i] # None THEN [calls[d][i] EXCEPT !.late = TRUE]
                                                             ELSE calls[d][i]
  BY DEF CancelIo
<1>5. ASSUME NEW d \in Drives, NEW i \in Ids
      PROVE  calls'[d][i] \in Calls \cup {None} /\ (calls'[d][i] # None <=> calls[d][i] # None)
  <2>1. calls[d][i] \in Calls \cup {None}
    BY DEF Ios
  <2>2. calls[d][i] # None => [calls[d][i] EXCEPT !.late = TRUE] \in Calls
    BY <1>2, <2>1
  <2> QED
    BY <1>4, <2>1, <2>2, NoCallIsNone
<1>6. /\ in_progress' \in [Drives -> SUBSET Ids]
      /\ cancelled' \in [Drives -> SUBSET Ids]
      /\ calls' \in [Drives -> [Ids -> Calls \cup {None}]]
  <2>1. \A d \in Drives : in_progress'[d] \subseteq Ids /\ cancelled'[d] \subseteq Ids
    BY <1>1, <1>3
  <2>2. /\ in_progress' = [d \in Drives |-> in_progress'[d]]
        /\ cancelled' = [d \in Drives |-> cancelled'[d]]
        /\ calls' = [d \in Drives |-> [i \in Ids |-> calls'[d][i]]]
    BY DEF CancelIo
  <2>3. [d \in Drives |-> [i \in Ids |-> calls'[d][i]]] \in [Drives -> [Ids -> Calls \cup {None}]]
    BY <1>5
  <2>4. /\ [d \in Drives |-> in_progress'[d]] \in [Drives -> SUBSET Ids]
        /\ [d \in Drives |-> cancelled'[d]] \in [Drives -> SUBSET Ids]
    BY <2>1
  <2> QED
    BY <2>2, <2>3, <2>4
<1>7. ASSUME NEW d \in Drives
      PROVE  /\ in_progress'[d] \cap cancelled'[d] = {}
             /\ in_progress'[d] \cup cancelled'[d] = {i \in Ids : calls'[d][i] # None}
  <2>1. {i \in Ids : calls'[d][i] # None} = {i \in Ids : calls[d][i] # None}
    BY <1>5
  <2> QED
    BY <1>1, <1>3, <2>1
<1>8. ASSUME NEW d \in Drives, NEW i \in Ids, calls'[d][i] # None
      PROVE  calls'[d][i].late <=> i \in cancelled'[d]
  <2>0. calls[d][i] # None /\ calls[d][i] \in Calls
    BY <1>5, <1>8 DEF Ios
  <2>1. CASE d \in ds
    <3>1. calls'[d][i] = [calls[d][i] EXCEPT !.late = TRUE]
      BY <1>4, <2>0, <2>1
    <3>2. calls'[d][i].late = TRUE
      BY <2>0, <3>1 DEF Calls
    <3>3. i \in cancelled'[d]
      BY <1>1, <1>3, <2>0, <2>1
    <3> QED
      BY <3>2, <3>3
  <2>2. CASE d \notin ds
    <3>1. calls'[d][i] = calls[d][i]
      BY <1>4, <2>0, <2>2
    <3>2. cancelled'[d] = cancelled[d]
      BY <1>3, <2>2
    <3>3. calls[d][i].late <=> i \in cancelled[d]
      BY <2>0 DEF Ios
    <3> QED
      BY <3>1, <3>2, <3>3
  <2> QED
    BY <2>1, <2>2
<1> QED
  BY <1>5, <1>6, <1>7, <1>8 DEF IosKept, Ios, IoBookkeeping, Outstanding

LEMMA CallbackIos ==
  ASSUME Ios, NEW d \in Drives, NEW id \in Ids, Callback(d, id)
  PROVE  Ios'
<1>1. /\ calls[d][id] # None
      /\ calls' = [calls EXCEPT ![d][id] = None]
      /\ id \in cancelled[d] => /\ cancelled' = [cancelled EXCEPT ![d] = @ \ {id}]
                                /\ in_progress' = in_progress
      /\ id \notin cancelled[d] => /\ in_progress' = [in_progress EXCEPT ![d] = @ \ {id}]
                                   /\ cancelled' = cancelled
  BY DEF Callback
<1>2. /\ in_progress' \in [Drives -> SUBSET Ids]
      /\ cancelled' \in [Drives -> SUBSET Ids]
      /\ calls' \in [Drives -> [Ids -> Calls \cup {None}]]
  <2>1. CASE id \in cancelled[d]
    BY <1>1, <2>1 DEF Ios
  <2>2. CASE id \notin cancelled[d]
    BY <1>1, <2>2 DEF Ios
  <2> QED
    BY <2>1, <2>2
<1>3. ASSUME NEW e \in Drives
      PROVE  /\ in_progress[e] \cap cancelled[e] = {}
             /\ in_progress[e] \cup cancelled[e] = {i \in Ids : calls[e][i] # None}
             /\ in_progress'[e] = IF e = d THEN in_progress[e] \ {id} ELSE in_progress[e]
             /\ cancelled'[e] = IF e = d THEN cancelled[e] \ {id} ELSE cancelled[e]
  <2>1. /\ in_progress[e] \cap cancelled[e] = {}
        /\ in_progress[e] \cup cancelled[e] = {i \in Ids : calls[e][i] # None}
    BY DEF Ios, IoBookkeeping, Outstanding
  <2>2. CASE id \in cancelled[d]
    BY <1>1, <2>1, <2>2 DEF Ios
  <2>3. CASE id \notin cancelled[d]
    BY <1>1, <2>1, <2>3 DEF Ios
  <2> QED
    BY <2>1, <2>2, <2>3
<1>4. ASSUME NEW e \in Drives, NEW i \in Ids
      PROVE  calls'[e][i] = IF e = d /\ i = id THEN None ELSE calls[e][i]
  BY <1>1 DEF Ios
<1>5. ASSUME NEW e \in Drives
      PROVE  /\ in_progress'[e] \cap cancelled'[e] = {}
             /\ in_progress'[e] \cup cancelled'[e] = {i \in Ids : calls'[e][i] # None}
  <2>1. in_progress'[e] \cap cancelled'[e] = {}
    BY <1>3
  <2>2. \A i \in Ids : calls'[e][i] # None <=> calls[e][i] # None /\ ~ (e = d /\ i = id)
    BY <1>4
  <2>3. \A i : i \in in_progress[e] \/ i \in cancelled[e] <=> i \in Ids /\ calls[e][i] # None
    BY <1>3
  <2>4. \A i : i \in in_progress'[e] \/ i \in cancelled'[e]
              <=> (i \in in_progress[e] \/ i \in cancelled[e]) /\ ~ (e = d /\ i = id)
    BY <1>3
  <2>5. \A i : i \in in_progress'[e] \cup cancelled'[e] <=> i \in {j \in Ids : calls'[e][j] # None}
    BY <2>2, <2>3, <2>4
  <2> QED
    BY <2>1, <2>5
<1>6. ASSUME NEW e \in Drives, NEW i \in Ids, calls'[e][i] # None
      PROVE  calls'[e][i].late <=> i \in cancelled'[e]
  <2>1. ~ (e = d /\ i = id) /\ calls'[e][i] = calls[e][i]
    BY <1>4, <1>6
  <2>2. i \in cancelled'[e] <=> i \in cancelled[e]
    BY <1>3, <2>1
  <2> QED
    BY <1>6, <2>1, <2>2 DEF Ios
<1> QED
  BY <1>2, <1>5, <1>6 DEF Ios, IoBookkeeping, Outstanding

-----------------------------------------------------------------------------
(* The registers of the channel.                                           *)

Regs ==
    /\ drive \in [Drives -> DriveState]
    /\ selected \in Drives
    /\ nien \in BOOLEAN /\ irq \in BOOLEAN /\ dma_start \in BOOLEAN
    /\ dma_active \in BOOLEAN /\ dma_irq \in BOOLEAN
    /\ prdt \in Prdts

\* What a command may change.
Touched ==
    /\ drive' \in [Drives -> DriveState]
    /\ irq' \in BOOLEAN /\ dma_irq' \in BOOLEAN /\ dma_active' \in BOOLEAN

LEMMA SetDriveTypes ==
  ASSUME Regs, NEW d \in Drives, NEW r \in DriveState, drive' = [drive EXCEPT ![d] = r]
  PROVE  drive' \in [Drives -> DriveState]
  BY DEF Regs

LEMMA IrqTypes ==
  ASSUME Regs, NEW line \in BOOLEAN, PushIrq(line) \/ NoIrq(line)
  PROVE  irq' \in BOOLEAN /\ dma_irq' \in BOOLEAN
<1>1. irq \in BOOLEAN /\ nien \in BOOLEAN /\ dma_irq \in BOOLEAN
  BY DEF Regs
<1>2. CASE PushIrq(line)
  BY <1>1, <1>2, Zenon DEF PushIrq
<1>3. CASE NoIrq(line)
  BY <1>1, <1>3 DEF NoIrq
<1> QED
  BY <1>2, <1>3

LEMMA ArriveTypes ==
  ASSUME Regs, NEW d \in Drives, NEW r \in DriveState, NEW c \in Calls,
         NEW line \in BOOLEAN, NEW atOnce \in BOOLEAN, Arrive(d, r, c, line, atOnce)
  PROVE  Touched
<1>1. /\ c.n \in Nat /\ c.start \in Nat
      /\ dma_active \in BOOLEAN
  BY DEF Calls, Regs
<1>2. (PushIrq(line) \/ NoIrq(line)) /\ (dma_active' = dma_active \/ dma_active' = FALSE)
  BY DEF Arrive
<1>3. irq' \in BOOLEAN /\ dma_irq' \in BOOLEAN /\ dma_active' \in BOOLEAN
  BY <1>1, <1>2, IrqTypes
<1>4. /\ [Advance(r, c.n) EXCEPT !.status = "ready", !.cmd = None] \in DriveState
      /\ [DataAllocate(r, c.n) EXCEPT !.status = "ready", !.data = c.start] \in DriveState
      /\ [DataAllocate(r, c.n) EXCEPT !.status = "drq", !.data = c.start] \in DriveState
  <2> DEFINE a == Advance(r, c.n)
             b == DataAllocate(r, c.n)
  <2>1. a \in DriveState /\ b \in DriveState
    BY <1>1, RegisterTypes
  <2> HIDE DEF a, b
  <2>2. /\ [a EXCEPT !.status = "ready", !.cmd = None] \in DriveState
        /\ [b EXCEPT !.status = "ready", !.data = c.start] \in DriveState
        /\ [b EXCEPT !.status = "drq", !.data = c.start] \in DriveState
    <3>1. [a EXCEPT !.status = "ready", !.cmd = None] \in DriveState
      BY <2>1 DEF DriveState, Statuses
    <3>2. [b EXCEPT !.status = "ready", !.data = c.start] \in DriveState
      BY <1>1, <2>1 DEF DriveState, Statuses
    <3>3. [b EXCEPT !.status = "drq", !.data = c.start] \in DriveState
      BY <1>1, <2>1 DEF DriveState, Statuses
    <3> QED
      BY <3>1, <3>2, <3>3
  <2> QED
    BY <2>2 DEF a, b
<1>5. PICK q \in DriveState : drive' = [drive EXCEPT ![d] = q]
  BY <1>4, ArrivedTypes DEF Arrive
<1> QED
  BY <1>3, <1>5, SetDriveTypes DEF Touched

LEMMA ReadBufferTypes ==
  ASSUME Regs, Ios, NEW d \in Drives, NEW r \in DriveState, NEW c \in Calls, c.late = FALSE,
         NEW line \in BOOLEAN, ReadBuffer(d, r, c, line)
  PROVE  Touched /\ IosKept
<1>1. CASE Arrive(d, r, c, line, TRUE) /\ UNCHANGED ios
  BY <1>1, ArriveTypes, IosUnchanged
<1>2. CASE /\ StartCall(d, c)
           /\ drive' = [drive EXCEPT ![d] = r]
           /\ NoIrq(line)
           /\ UNCHANGED <<dma_active, mem>>
  BY <1>2, StartCallIos, SetDriveTypes, IrqTypes DEF Touched, Regs
<1> QED
  BY <1>1, <1>2 DEF ReadBuffer

LEMMA CallTypes ==
  ASSUME Regs, NEW op \in {"pio", "dma", "atapi", "atapi_dma"}, NEW start \in Nat, NEW n \in Nat
  PROVE  /\ Call(op, start, n) \in Calls /\ Call(op, start, n).late = FALSE
         /\ \A b \in BOOLEAN : /\ [Call(op, start, n) EXCEPT !.single = b] \in Calls
                                /\ [Call(op, start, n) EXCEPT !.single = b].late = FALSE
         /\ \A k \in Nat : /\ [Call(op, start, n) EXCEPT !.limit = k] \in Calls
                            /\ [Call(op, start, n) EXCEPT !.limit = k].late = FALSE
  BY DEF Regs, Call, Calls

Limited(c, k) == [c EXCEPT !.limit = k]

LEMMA LimitedCall ==
  ASSUME Regs, NEW op \in {"pio", "dma", "atapi", "atapi_dma"}, NEW start \in Nat, NEW n \in Nat,
         NEW k \in Nat
  PROVE  Limited(Call(op, start, n), k) \in Calls /\ Limited(Call(op, start, n), k).late = FALSE
  BY DEF Regs, Call, Calls, Limited

\* The selected registers of a drive, and the small changes commands make.
LEMMA IssuedTypes ==
  ASSUME Regs, NEW d \in Drives, NEW cmd \in Commands
  PROVE  /\ drive[d] \in DriveState
         /\ Issued(d, cmd) \in DriveState
         /\ \A s \in Statuses : [Issued(d, cmd) EXCEPT !.status = s] \in DriveState
<1>1. drive[d] \in DriveState
  BY DEF Regs
<1>2. Issued(d, cmd) \in DriveState
  BY <1>1, RegisterTypes DEF Issued
<1> QED
  BY <1>1, <1>2, RegisterTypes

LEMMA RequestTypes ==
  ASSUME Regs, NEW d \in Drives
  PROVE  /\ drive[d] \in DriveState
         /\ drive[d].lba \in Nat /\ NumSectors(drive[d]) \in Nat
<1>1. drive[d] \in DriveState
  BY DEF Regs
<1> QED
  BY <1>1, RegisterTypes DEF DriveState

\* The names of the strings that are statuses and commands.
LEMMA Names ==
  /\ {"ready", "drq", "busy", "abort", "check", "fault", "zero"} = Statuses
  /\ {"reset", "nondata", "unsupported", "set_multiple", "packet", "identify"} \subseteq Commands
  /\ ReadCommands \cup WriteCommands \cup DmaCommands \subseteq Commands
  BY DEF Statuses, Commands

LEMMA SimpleCommand ==
  ASSUME Regs, Ios, NEW d \in Drives, NEW r \in DriveState, SetDrive(d, r),
         PushIrq(FALSE) \/ NoIrq(FALSE), UNCHANGED <<ios, dma_active, mem>>
  PROVE  Touched /\ IosKept
<1>1. FALSE \in BOOLEAN
  OBVIOUS
<1>2. irq' \in BOOLEAN /\ dma_irq' \in BOOLEAN
  BY <1>1, IrqTypes
<1>3. drive' \in [Drives -> DriveState]
  BY SetDriveTypes DEF SetDrive
<1> QED
  BY <1>2, <1>3, IosUnchanged DEF Touched, Regs

LEMMA CommandTypes ==
  ASSUME Regs, Ios, NEW d \in Drives, NEW cmd, CommandStep(d, cmd)
  PROVE  Touched /\ IosKept /\ Elsewhere
<1> USE Names
<1>1. CASE CommandAborted(d)
  <2>1. [drive[d] EXCEPT !.status = "abort"] \in DriveState
    BY RegisterTypes DEF Regs
  <2> QED
    BY <1>1, <2>1, SimpleCommand DEF CommandAborted
<1>2. CASE CommandReset(d)
  <2> DEFINE q == [Issued(d, "reset") EXCEPT !.ptr = 0, !.end = 0, !.len = 0]
             t == Reset(q, d \in Cds)
  <2>1. q \in DriveState
    <3>1. Issued(d, "reset") \in DriveState
      BY IssuedTypes
    <3> QED
      BY <3>1 DEF DriveState
  <2>2. t \in DriveState
    <3> HIDE DEF q
    <3> QED
      BY <2>1 DEF Reset, DriveState, Statuses
  <2>3. {d} \in SUBSET Drives
    OBVIOUS
  <2>4. IosKept
    BY <1>2, <2>3, CancelIos DEF CommandReset
  <2> HIDE DEF t
  <2>5. drive' \in [Drives -> DriveState]
    BY <1>2, <2>2, SetDriveTypes DEF CommandReset, SetDrive, t
  <2>6. FALSE \in BOOLEAN /\ PushIrq(FALSE) /\ dma_active' = dma_active /\ Elsewhere
    BY <1>2 DEF CommandReset
  <2> QED
    BY <2>4, <2>5, <2>6, IrqTypes DEF Touched, Regs
<1>3. CASE CommandNondata(d)
  <2>1. [Issued(d, "nondata") EXCEPT !.status = "ready"] \in DriveState
    BY IssuedTypes
  <2> QED
    BY <1>3, <2>1, SimpleCommand DEF CommandNondata
<1>4. CASE CommandNativeMax(d)
  <2>1. [Issued(d, "nondata") EXCEPT !.status = "ready", !.lba = Sectors - 1] \in DriveState
    <3>1. Issued(d, "nondata") \in DriveState /\ Sectors - 1 \in Nat
      BY IssuedTypes, CountAssumption
    <3> QED
      BY <3>1 DEF DriveState, Statuses
  <2> QED
    BY <1>4, <2>1, SimpleCommand DEF CommandNativeMax
<1>5. CASE CommandUnsupported(d)
  <2>1. [Issued(d, "unsupported") EXCEPT !.status = "abort"] \in DriveState
    BY IssuedTypes
  <2> QED
    BY <1>5, <2>1, SimpleCommand DEF CommandUnsupported
<1>6. CASE CommandSetMultiple(d)
  <2>1. [Issued(d, "set_multiple") EXCEPT !.status = "ready", !.multiple = drive[d].count] \in DriveState
    <3>1. Issued(d, "set_multiple") \in DriveState /\ drive[d].count \in Nat
      BY IssuedTypes DEF DriveState
    <3> QED
      BY <3>1 DEF DriveState, Statuses
  <2> QED
    BY <1>6, <2>1, SimpleCommand DEF CommandSetMultiple
<1>7. CASE CommandPacket(d)
  <2> DEFINE q == DataAllocate(Issued(d, "packet"), 1)
  <2>1. q \in DriveState /\ Issued(d, "packet") \in DriveState
    BY IssuedTypes, RegisterTypes
  <2> HIDE DEF q
  <2>2. [q EXCEPT !.status = "drq", !.end = 1, !.data = None] \in DriveState
    BY <2>1 DEF DriveState, Statuses
  <2> USE DEF q
  <2>3. CASE d \in Cds
    BY <1>7, <2>2, <2>3, SimpleCommand DEF CommandPacket
  <2>4. CASE d \notin Cds
    BY <1>7, <2>1, <2>4, SimpleCommand DEF CommandPacket
  <2> QED
    BY <2>3, <2>4
<1>8. CASE CommandIdentify(d)
  <2> DEFINE q == DataAllocate(Issued(d, "identify"), 0)
             t == DataAllocate(Issued(d, "identify"), 1)
             r == IF d = "slave" THEN [q EXCEPT !.status = "drq", !.data = None]
                                 ELSE [t EXCEPT !.status = "drq", !.end = 1, !.data = None]
  <2>1. q \in DriveState /\ t \in DriveState
    BY IssuedTypes, RegisterTypes
  <2> HIDE DEF q, t
  <2>2. r \in DriveState
    BY <2>1 DEF DriveState, Statuses
  <2> HIDE DEF r
  <2>3. SetDrive(d, r)
    BY <1>8 DEF CommandIdentify, r, q, t
  <2> QED
    BY <1>8, <2>2, <2>3, SimpleCommand DEF CommandIdentify
<1>9. CASE OutsideOfDisk(d, cmd)
  <2>1. cmd \in Commands
    BY <1>9 DEF OutsideOfDisk
  <2>2. [Issued(d, cmd) EXCEPT !.status = "fault"] \in DriveState
    BY <2>1, IssuedTypes
  <2> QED
    BY <1>9, <2>2, SimpleCommand DEF OutsideOfDisk
<1>10. CASE CommandRead(d, cmd)
  <2> DEFINE c == Call("pio", drive[d].lba, NumSectors(drive[d]))
             b == cmd = "read"
  <2>1. cmd \in Commands
    BY <1>10 DEF CommandRead
  <2>2. [Issued(d, cmd) EXCEPT !.status = "busy"] \in DriveState
    BY <2>1, IssuedTypes
  <2>3. drive[d].lba \in Nat /\ NumSectors(drive[d]) \in Nat
    BY RequestTypes
  <2>b. b \in BOOLEAN
    OBVIOUS
  <2>4. [c EXCEPT !.single = b] \in Calls /\ [c EXCEPT !.single = b].late = FALSE
    <3>1. \A x \in BOOLEAN : [c EXCEPT !.single = x] \in Calls /\ [c EXCEPT !.single = x].late = FALSE
      BY <2>3, CallTypes, Zenon
    <3> QED
      BY <2>b, <3>1, Zenon
  <2>5. ReadBuffer(d, [Issued(d, cmd) EXCEPT !.status = "busy"], [c EXCEPT !.single = b], FALSE)
    BY <1>10 DEF CommandRead
  <2> HIDE DEF c, b
  <2>6. Touched /\ IosKept
    BY <2>2, <2>4, <2>5, ReadBufferTypes
  <2> QED
    BY <1>10, <2>6 DEF CommandRead
<1>11. CASE CommandWrite(d, cmd)
  <2> DEFINE n == NumSectors(drive[d])
             q == DataAllocate(Issued(d, cmd), n)
             e == FirstEnd(drive[d], n, cmd = "write")
             t == [q EXCEPT !.status = "drq", !.end = e, !.write_dest = drive[d].lba, !.data = None]
  <2>1. cmd \in Commands
    BY <1>11 DEF CommandWrite
  <2>2. n \in Nat /\ drive[d].lba \in Nat
    BY RequestTypes
  <2>3. q \in DriveState /\ e \in Nat \cup {None}
    <3>1. drive[d] \in DriveState /\ Issued(d, cmd) \in DriveState
      BY <2>1, IssuedTypes
    <3> HIDE DEF n
    <3> QED
      BY <2>2, <3>1, RegisterTypes DEF FirstEnd
  <2> HIDE DEF n, q, e
  <2>4. t \in DriveState
    BY <2>2, <2>3 DEF DriveState, Statuses
  <2>5. SetDrive(d, t)
    BY <1>11 DEF CommandWrite, n, q, e
  <2> HIDE DEF t
  <2> QED
    BY <1>11, <2>4, <2>5, SimpleCommand DEF CommandWrite
<1>12. CASE CommandDma(d, cmd)
  <2>1. cmd \in Commands
    BY <1>12 DEF CommandDma
  <2>2. [Issued(d, cmd) EXCEPT !.status = "drq"] \in DriveState
    BY <2>1, IssuedTypes
  <2>3. drive' \in [Drives -> DriveState]
    BY <1>12, <2>2, SetDriveTypes DEF CommandDma, SetDrive
  <2>4. FALSE \in BOOLEAN /\ NoIrq(FALSE) /\ dma_active' = TRUE /\ UNCHANGED ios /\ Elsewhere
    BY <1>12 DEF CommandDma
  <2> QED
    BY <2>3, <2>4, IrqTypes, IosUnchanged DEF Touched
<1> QED
  BY <1>1, <1>2, <1>3, <1>4, <1>5, <1>6, <1>7, <1>8, <1>9, <1>10, <1>11, <1>12,
     CommandStep(d, cmd) DEF CommandStep

\* The registers a data or bus master step leaves alone.
Kept == UNCHANGED <<selected, nien, prdt, saved>>

LEMMA SimpleData ==
  ASSUME Regs, Ios, NEW d \in Drives, NEW r \in DriveState, SetDrive(d, r),
         PushIrq(irq) \/ NoIrq(irq), UNCHANGED dma_active, UNCHANGED ios
  PROVE  Touched /\ IosKept
<1>1. irq \in BOOLEAN
  BY DEF Regs
<1>2. irq' \in BOOLEAN /\ dma_irq' \in BOOLEAN
  BY <1>1, IrqTypes
<1>3. drive' \in [Drives -> DriveState]
  BY SetDriveTypes DEF SetDrive
<1> QED
  BY <1>2, <1>3, IosUnchanged DEF Touched, Regs

LEMMA PortTypes ==
  ASSUME Regs, Ios, ReadData \/ WriteData
  PROVE  Touched /\ IosKept /\ Kept /\ dma_start' = dma_start
<1> DEFINE p == drive[selected]
           r == [p EXCEPT !.ptr = @ + 1]
<1>1. p \in DriveState /\ selected \in Drives
  BY DEF Regs
<1>2. p.end # None /\ p.ptr < p.end
  BY DEF ReadData, WriteData, InBuffer
<1>3. p.ptr \in Nat /\ p.end \in Nat
  BY <1>1, <1>2 DEF DriveState
<1>4. r \in DriveState /\ r.end = p.end /\ r.ptr = p.ptr + 1
  <2> HIDE DEF p
  <2> QED
    BY <1>1, <1>3 DEF DriveState
<1> HIDE DEF p, r
<1>5. CASE ReadData
  <2>1. /\ \/ r.ptr >= r.end /\ SetDrive(selected, ReadEnd(r))
           \/ SetDrive(selected, r)
        /\ PushIrq(irq) \/ NoIrq(irq)
        /\ dma_active' = dma_active /\ UNCHANGED ios /\ Kept /\ dma_start' = dma_start
    BY <1>5 DEF ReadData, r, p, Kept
  <2>2. r.ptr >= r.end => r.ptr = r.end /\ r.end \in Nat
    BY <1>2, <1>3, <1>4
  <2>3. r.ptr >= r.end => ReadEnd(r) \in DriveState
    BY <1>4, <2>2, ReadEndTypes
  <2> QED
    BY <1>1, <1>4, <2>1, <2>3, SimpleData
<1>6. CASE WriteData
  <2> DEFINE a == Advance([r EXCEPT !.status = "ready"], r.len)
             b == [r EXCEPT !.status = "drq", !.end = @ + 1]
  <2>1. /\ \/ SetDrive(selected, a)
           \/ SetDrive(selected, b)
           \/ SetDrive(selected, r)
        /\ PushIrq(irq) \/ NoIrq(irq)
        /\ dma_active' = dma_active /\ UNCHANGED ios /\ Kept /\ dma_start' = dma_start
    BY <1>6 DEF WriteData, AllGiven, r, p, Kept
  <2>2. r.len \in Nat /\ r.end + 1 \in Nat
    BY <1>3, <1>4 DEF DriveState
  <2>3. [r EXCEPT !.status = "ready"] \in DriveState
    BY <1>4, RegisterTypes, Names
  <2>4. a \in DriveState
    BY <2>2, <2>3, RegisterTypes
  <2>5. b \in DriveState
    BY <1>4, <2>2 DEF DriveState, Statuses
  <2> HIDE DEF a, b
  <2> QED
    BY <1>1, <1>4, <2>1, <2>4, <2>5, SimpleData
<1> QED
  BY <1>5, <1>6

LEMMA PacketTypes ==
  ASSUME Regs, Ios, NEW d \in Drives, PacketStep(d)
  PROVE  Touched /\ IosKept /\ Kept /\ dma_start' = dma_start
<1>0. drive[d] \in DriveState /\ irq \in BOOLEAN
  BY DEF Regs
<1>1. CASE \E n \in 0 .. 1 : PacketData(d, n)
  <2>1. PICK n \in 0 .. 1 : PacketData(d, n)
    BY <1>1
  <2> DEFINE t == IF n = 0 THEN "ready" ELSE "drq"
             r == [drive[d] EXCEPT !.ptr = 0, !.len = n, !.end = n, !.data = None, !.status = t]
  <2>2. r \in DriveState
    <3>1. t \in Statuses /\ n \in Nat
      BY DEF Statuses
    <3> HIDE DEF t
    <3> QED
      BY <1>0, <3>1 DEF DriveState
  <2>3. SetDrive(d, r) /\ PushIrq(irq) /\ dma_active' = dma_active /\ UNCHANGED ios
        /\ Kept /\ dma_start' = dma_start
    BY <2>1 DEF PacketData, Kept
  <2> HIDE DEF r
  <2> QED
    BY <2>2, <2>3, SimpleData
<1>2. CASE PacketUnsupported(d)
  <2> DEFINE r == [drive[d] EXCEPT !.ptr = 0, !.len = 0, !.status = "check"]
  <2>1. r \in DriveState
    BY <1>0 DEF DriveState, Statuses
  <2>2. SetDrive(d, r) /\ PushIrq(irq) /\ dma_active' = dma_active /\ UNCHANGED ios
        /\ Kept /\ dma_start' = dma_start
    BY <1>2 DEF PacketUnsupported, Kept
  <2> HIDE DEF r
  <2> QED
    BY <2>1, <2>2, SimpleData
<1>3. ASSUME NEW start \in 0 .. Sectors, NEW n \in Counts \cup {0}, PacketRead(d, start, n)
      PROVE  Touched /\ IosKept /\ Kept /\ dma_start' = dma_start
  <2> DEFINE r == [drive[d] EXCEPT !.ptr = 0, !.len = 0, !.lba = 0]
             len == Least(n, Sectors - start)
             c == [Call("atapi", start, len) EXCEPT !.limit = Least(drive[d].lba, n)]
  <2>1. r \in DriveState
    BY <1>0 DEF DriveState
  <2>n. n \in Nat /\ start \in Nat /\ Sectors \in Nat
    BY CountAssumption
  <2>2. n \in Nat /\ start \in Nat /\ drive[d].lba \in Nat /\ Sectors \in Nat
    BY <1>0, <2>n DEF DriveState
  <2>3. \/ SetDrive(d, [r EXCEPT !.status = "fault"]) /\ PushIrq(irq) /\ UNCHANGED <<ios, dma_active, mem>>
        \/ SetDrive(d, [r EXCEPT !.status = "ready"]) /\ PushIrq(irq) /\ UNCHANGED <<ios, dma_active, mem>>
        \/ start < Sectors /\ ReadBuffer(d, [r EXCEPT !.status = "busy"], c, irq)
    BY <1>3, <2>2 DEF PacketRead
  <2>4. /\ [r EXCEPT !.status = "fault"] \in DriveState
        /\ [r EXCEPT !.status = "ready"] \in DriveState
        /\ [r EXCEPT !.status = "busy"] \in DriveState
    <3> HIDE DEF r
    <3> QED
      BY <2>1, RegisterTypes, Names
  <2>5. start < Sectors => c \in Calls /\ c.late = FALSE
    <3> SUFFICES ASSUME start < Sectors PROVE c \in Calls /\ c.late = FALSE
      OBVIOUS
    <3> DEFINE k == Least(drive[d].lba, n)
    <3>1. Sectors - start \in Nat
      BY <2>2
    <3>2. len \in Nat
      BY <2>2, <3>1, LeastNat
    <3>3. k \in Nat
      BY <2>2, LeastNat
    <3> HIDE DEF len, k
    <3>4. "atapi" \in {"pio", "dma", "atapi", "atapi_dma"}
      OBVIOUS
    <3> HIDE DEF c, r
    <3>5. c = Limited(Call("atapi", start, len), k)
      BY DEF c, k, Limited
    <3>6. start \in Nat
      BY <2>2
    <3>7. /\ Limited(Call("atapi", start, len), k) \in Calls
          /\ Limited(Call("atapi", start, len), k).late = FALSE
      BY <3>2, <3>3, <3>4, <3>6, LimitedCall, Zenon
    <3> QED
      BY <3>5, <3>7
  <2>6. Kept /\ dma_start' = dma_start
    BY <1>3 DEF PacketRead, Kept
  <2> HIDE DEF r, c
  <2> QED
    BY <1>0, <2>3, <2>4, <2>5, <2>6, SimpleData, ReadBufferTypes
<1>4. ASSUME NEW start \in 0 .. Sectors, NEW n \in Counts, PacketReadDma(d, start, n)
      PROVE  Touched /\ IosKept /\ Kept /\ dma_start' = dma_start
  <2> DEFINE r == [drive[d] EXCEPT !.ptr = 0]
             c == Call("atapi_dma", start, n)
  <2>1. r \in DriveState
    BY <1>0 DEF DriveState
  <2>2. n \in Nat /\ start \in Nat
    BY CountAssumption
  <2>3. \/ SetDrive(d, [r EXCEPT !.status = "fault"]) /\ PushIrq(irq) /\ UNCHANGED <<ios, dma_active, mem>>
        \/ ReadBuffer(d, [r EXCEPT !.status = "busy"], c, irq)
    BY <1>4 DEF PacketReadDma
  <2>4. /\ [r EXCEPT !.status = "fault"] \in DriveState
        /\ [r EXCEPT !.status = "busy"] \in DriveState
    <3> HIDE DEF r
    <3> QED
      BY <2>1, RegisterTypes, Names
  <2>5. c \in Calls /\ c.late = FALSE
    BY <2>2, CallTypes
  <2>6. Kept /\ dma_start' = dma_start
    BY <1>4 DEF PacketReadDma, Kept
  <2> HIDE DEF r, c
  <2> QED
    BY <1>0, <2>3, <2>4, <2>5, <2>6, SimpleData, ReadBufferTypes
<1> QED
  BY <1>1, <1>2, <1>3, <1>4 DEF PacketStep

LEMMA DmaTypes ==
  ASSUME Regs, Ios, DmaStep
  PROVE  Touched /\ IosKept /\ Kept /\ dma_start' \in BOOLEAN
<1>0. irq \in BOOLEAN /\ dma_active \in BOOLEAN /\ dma_irq \in BOOLEAN /\ drive \in [Drives -> DriveState]
  BY DEF Regs
<1>1. CASE DmaStop
  <2>1. /\ dma_start' = FALSE /\ dma_active' = FALSE
        /\ UNCHANGED <<drive, dma_irq, irq, ios>> /\ Kept
    BY <1>1 DEF DmaStop, Kept
  <2> QED
    BY <1>0, <2>1, IosUnchanged DEF Touched
<1>2. CASE DmaStartSpurious
  <2>1. /\ dma_start' = TRUE /\ dma_active' = TRUE /\ NoIrq(irq)
        /\ UNCHANGED <<drive, ios>> /\ Kept
    BY <1>2 DEF DmaStartSpurious, DmaStart, Kept
  <2> QED
    BY <1>0, <2>1, IosUnchanged, IrqTypes DEF Touched
<1>3. ASSUME NEW d \in Drives, DmaStartRead(d)
      PROVE  Touched /\ IosKept /\ Kept /\ dma_start' \in BOOLEAN
  <2> DEFINE c == Call("dma", drive[d].lba, NumSectors(drive[d]))
  <2>1. drive[d] \in DriveState
    BY <1>0
  <2>2. c \in Calls /\ c.late = FALSE
    BY RequestTypes, CallTypes
  <2>3. /\ \/ Arrive(d, drive[d], c, irq, TRUE) /\ UNCHANGED ios
           \/ StartCall(d, c) /\ dma_active' = TRUE /\ NoIrq(irq) /\ UNCHANGED <<drive, mem>>
        /\ dma_start' = TRUE /\ Kept
    BY <1>3 DEF DmaStartRead, DmaStart, Kept
  <2> HIDE DEF c
  <2>4. CASE Arrive(d, drive[d], c, irq, TRUE) /\ UNCHANGED ios
    BY <1>0, <2>1, <2>2, <2>3, <2>4, ArriveTypes, IosUnchanged
  <2>5. CASE StartCall(d, c) /\ dma_active' = TRUE /\ NoIrq(irq) /\ UNCHANGED <<drive, mem>>
    BY <1>0, <2>2, <2>3, <2>5, StartCallIos, IrqTypes DEF Touched
  <2> QED
    BY <2>3, <2>4, <2>5
<1>4. ASSUME NEW d \in Drives, DmaStartWrite(d)
      PROVE  Touched /\ IosKept /\ Kept /\ dma_start' \in BOOLEAN
  <2> DEFINE n == NumSectors(drive[d])
             a == Advance(drive[d], n)
             r == [a EXCEPT !.status = "ready", !.cmd = None]
  <2>1. n \in Nat /\ drive[d] \in DriveState
    BY RequestTypes
  <2>2. a \in DriveState
    <3> HIDE DEF n
    <3> QED
      BY <2>1, RegisterTypes
  <2>3. r \in DriveState
    <3> HIDE DEF a
    <3> QED
      BY <2>2 DEF DriveState, Statuses
  <2>4. /\ SetDrive(d, r) /\ dma_start' = TRUE /\ dma_active' = FALSE
        /\ PushIrq(irq) /\ UNCHANGED ios /\ Kept
    BY <1>4 DEF DmaStartWrite, DmaStart, Kept
  <2> HIDE DEF r
  <2> QED
    BY <1>0, <2>3, <2>4, IosUnchanged, IrqTypes, SetDriveTypes DEF Touched, SetDrive
<1>5. ASSUME NEW d \in Drives, DmaStartPacket(d)
      PROVE  Touched /\ IosKept /\ Kept /\ dma_start' \in BOOLEAN
  <2> DEFINE r == [drive[d] EXCEPT !.status = "ready"]
  <2>1. r \in DriveState
    BY <1>0, RegisterTypes, Names
  <2>2. /\ \/ SetDrive(d, r) /\ dma_active' = FALSE /\ PushIrq(irq)
           \/ drive' = drive /\ dma_active' = TRUE /\ NoIrq(irq)
        /\ dma_start' = TRUE /\ UNCHANGED ios /\ Kept
    BY <1>5 DEF DmaStartPacket, DmaStart, Kept
  <2> HIDE DEF r
  <2> QED
    BY <1>0, <2>1, <2>2, IosUnchanged, IrqTypes, SetDriveTypes DEF Touched, SetDrive
<1> QED
  BY <1>1, <1>2, <1>3, <1>4, <1>5 DEF DmaStep

LEMMA CallbackTypes ==
  ASSUME Regs, Ios, NEW d \in Drives, NEW id \in Ids, Callback(d, id)
  PROVE  Touched /\ Ios' /\ Kept /\ dma_start' = dma_start
<1>0. drive \in [Drives -> DriveState] /\ irq \in BOOLEAN /\ dma_active \in BOOLEAN
  BY DEF Regs
<1>1. calls[d][id] \in Calls /\ drive[d] \in DriveState
  <2>1. calls[d][id] # None
    BY DEF Callback
  <2> QED
    BY <1>0, <2>1 DEF Ios
<1>2. Ios'
  BY CallbackIos
<1>3. Kept /\ dma_start' = dma_start
  BY DEF Callback, Kept
<1>4. CASE id \in cancelled[d]
  <2>1. UNCHANGED <<drive, dma_active>> /\ NoIrq(irq)
    BY <1>4 DEF Callback
  <2> QED
    BY <1>0, <1>2, <1>3, <2>1, IrqTypes DEF Touched
<1>5. CASE id \notin cancelled[d]
  <2>1. Arrive(d, drive[d], calls[d][id], irq, FALSE)
    BY <1>5 DEF Callback
  <2> QED
    BY <1>0, <1>1, <1>2, <1>3, <2>1, ArriveTypes
<1> QED
  BY <1>4, <1>5

-----------------------------------------------------------------------------
(* The invariant.                                                          *)

\* Inductive: the bookkeeping is right because no read is both in progress and
\* late, which restores keep because they do not touch it.
Invariant == Regs /\ Ios /\ SavedOK

LEMMA RegisterStepTypes ==
  ASSUME Regs, Ios, RegisterStep
  PROVE  Regs' /\ IosKept /\ saved' = saved
<1> USE DEF Regs
<1>1. ASSUME NEW count \in Counts, NEW lba \in 0 .. Sectors, WriteTaskFile(count, lba)
      PROVE  Regs' /\ IosKept /\ saved' = saved
  <2> DEFINE k == count % CountWrap
  <2>1. count \in Int /\ CountWrap \in Nat \ {0} /\ lba \in Nat
    BY CountAssumption
  <2>2. k \in Nat
    BY <2>1, Modulo
  <2>3. drive' = [d \in Drives |-> [drive[d] EXCEPT !.count = k, !.lba = lba]]
    BY <1>1 DEF WriteTaskFile
  <2> HIDE DEF k
  <2>4. \A d \in Drives : [drive[d] EXCEPT !.count = k, !.lba = lba] \in DriveState
    BY <2>1, <2>2 DEF DriveState
  <2>5. drive' \in [Drives -> DriveState]
    BY <2>3, <2>4
  <2> QED
    BY <1>1, <2>5, IosUnchanged DEF WriteTaskFile
<1>2. ASSUME NEW d \in Drives, Select(d) PROVE Regs' /\ IosKept /\ saved' = saved
  BY <1>2, IosUnchanged DEF Select
<1>3. CASE ReadStatus
  <2>1. irq' = FALSE /\ UNCHANGED ios /\ saved' = saved
    BY <1>3 DEF ReadStatus
  <2>2. UNCHANGED <<drive, selected, nien, dma_start, dma_active, dma_irq, prdt>>
    BY <1>3 DEF ReadStatus, registers
  <2> QED
    BY <2>1, <2>2, IosUnchanged
<1>4. ASSUME NEW disable \in BOOLEAN, WriteControl(disable) PROVE Regs' /\ IosKept /\ saved' = saved
  BY <1>4, IosUnchanged DEF WriteControl
<1>5. ASSUME NEW disable \in BOOLEAN, ControlReset(disable) PROVE Regs' /\ IosKept /\ saved' = saved
  <2>1. \A d \in Drives : Reset(drive[d], d \in Cds) \in DriveState
    <3>1. \A d \in Drives : drive[d] \in DriveState /\ (d \in Cds) \in BOOLEAN
      OBVIOUS
    <3> QED
      BY <3>1, RegisterTypes, Zenon
  <2>2. drive' \in [Drives -> DriveState]
    BY <1>5, <2>1 DEF ControlReset
  <2>3. IosKept
    <3>1. Drives \in SUBSET Drives /\ CancelIo(Drives)
      BY <1>5 DEF ControlReset
    <3> QED
      BY <3>1, CancelIos
  <2> QED
    BY <1>5, <2>2, <2>3 DEF ControlReset
<1>6. ASSUME NEW a \in Prdts, SetPrdt(a) PROVE Regs' /\ IosKept /\ saved' = saved
  BY <1>6, IosUnchanged DEF SetPrdt
<1>7. CASE ClearDmaStatus
  BY <1>7, IosUnchanged DEF ClearDmaStatus
<1> QED
  BY <1>1, <1>2, <1>3, <1>4, <1>5, <1>6, <1>7 DEF RegisterStep

LEMMA InvariantStep == Invariant /\ [Next]_vars => Invariant'
<1> SUFFICES ASSUME Regs, Ios, SavedOK, [Next]_vars PROVE Invariant'
  BY DEF Invariant
<1>1. CASE RegisterStep
  BY <1>1, RegisterStepTypes DEF Invariant, SavedOK, IosKept
<1>2. CASE ReadData \/ WriteData
  BY <1>2, PortTypes DEF Invariant, SavedOK, IosKept, Regs, Touched, Kept
<1>3. ASSUME NEW d \in Drives, PacketStep(d) PROVE Invariant'
  BY <1>3, PacketTypes DEF Invariant, SavedOK, IosKept, Regs, Touched, Kept
<1>4. CASE DmaStep
  BY <1>4, DmaTypes DEF Invariant, SavedOK, IosKept, Regs, Touched, Kept
<1>5. ASSUME NEW d \in Drives, NEW id \in Ids, Callback(d, id) PROVE Invariant'
  BY <1>5, CallbackTypes DEF Invariant, SavedOK, IosKept, Regs, Touched, Kept
<1>6. ASSUME NEW d \in Drives, NEW cmd \in Offered, CommandStep(d, cmd) PROVE Invariant'
  BY <1>6, CommandTypes DEF Invariant, SavedOK, IosKept, Regs, Touched, Elsewhere
<1>7. CASE SaveState
  <2>1. Ios' /\ Regs'
    BY <1>7, IosUnchanged DEF IosKept, SaveState, Regs, registers
  <2>2. SavedOK'
    BY <1>7 DEF SaveState, SavedOK, Regs
  <2> QED
    BY <2>1, <2>2 DEF Invariant
<1>8. CASE RestoreState
  <2>1. Ios' /\ SavedOK'
    BY <1>8, IosUnchanged DEF IosKept, RestoreState, SavedOK
  <2>2. Regs'
    BY <1>8 DEF RestoreState, SavedOK, Regs
  <2> QED
    BY <2>1, <2>2 DEF Invariant
<1>9. CASE UNCHANGED vars
  <2>1. Ios' /\ Regs' /\ SavedOK'
    BY <1>9, IosUnchanged DEF IosKept, vars, registers, ios, Regs, SavedOK
  <2> QED
    BY <2>1 DEF Invariant
<1> QED
  BY <1>1, <1>2, <1>3, <1>4, <1>5, <1>6, <1>7, <1>8, <1>9 DEF Next, Step, DataStep, DiskStep

LEMMA InvariantInit == Init => Invariant
<1> SUFFICES ASSUME Init PROVE Invariant
  OBVIOUS
<1>1. InitialRegisters \in DriveState
  BY DEF InitialRegisters, DriveState, Statuses
<1>2. Regs
  BY <1>1, DriveAssumption DEF Init, Regs
<1>3. Ios
  BY DEF Init, Ios, IoBookkeeping, Outstanding
<1>4. SavedOK
  BY DEF Init, SavedOK
<1> QED
  BY <1>2, <1>3, <1>4 DEF Invariant

LEMMA Invariance == Spec => []Invariant
  BY InvariantInit, InvariantStep, PTL DEF Spec

\* Every register keeps its range, whatever the guest programs and whatever
\* state is restored over reads under way.
THEOREM TypeCorrect == Spec => []TypeOK
<1>1. Invariant => TypeOK
  BY DEF Invariant, Regs, Ios, TypeOK
<1> QED
  BY <1>1, Invariance, PTL

\* What read_buffer asserts when an answer comes, ide.ts 1874 and 1879.
THEOREM Bookkeeping == Spec => []IoBookkeeping
<1>1. Invariant => IoBookkeeping
  BY DEF Invariant, Ios
<1> QED
  BY <1>1, Invariance, PTL

\* The answer to a read from before a reset is dropped, for any number of
\* reads, resets and commands since.
THEOREM LateAnswersDropped == Spec => NoLateCompletion
<1> DEFINE Dropped ==
      \A d \in Drives, id \in Ids :
          calls[d][id] # None /\ calls[d][id].late /\ calls'[d][id] = None
              => UNCHANGED <<registers, irq, history>>
<1>1. ASSUME Invariant, Next PROVE Dropped
  <2> SUFFICES ASSUME NEW d \in Drives, NEW id \in Ids,
                      calls[d][id] # None, calls[d][id].late, calls'[d][id] = None
               PROVE  UNCHANGED <<registers, irq, history>>
    OBVIOUS
  <2>1. Ios /\ Regs /\ id \in cancelled[d]
    BY <1>1 DEF Invariant, Ios
  <2>2. ~ IosKept
    BY DEF IosKept
  <2>3. PICK e \in Drives, i \in Ids : Callback(e, i)
    <3>1. CASE RegisterStep
      BY <2>1, <2>2, <3>1, RegisterStepTypes
    <3>2. CASE ReadData \/ WriteData
      BY <2>1, <2>2, <3>2, PortTypes
    <3>3. ASSUME NEW e \in Drives, PacketStep(e) PROVE FALSE
      BY <2>1, <2>2, <3>3, PacketTypes
    <3>4. CASE DmaStep
      BY <2>1, <2>2, <3>4, DmaTypes
    <3>5. ASSUME NEW e \in Drives, NEW cmd \in Offered, CommandStep(e, cmd) PROVE FALSE
      BY <2>1, <2>2, <3>5, CommandTypes
    <3>6. CASE SaveState \/ RestoreState
      BY <2>1, <2>2, <3>6, IosUnchanged DEF SaveState, RestoreState
    <3> QED
      BY <1>1, <3>1, <3>2, <3>3, <3>4, <3>5, <3>6 DEF Next, Step, DataStep, DiskStep
  <2>4. e = d /\ i = id
    BY <2>1, <2>3 DEF Callback, Ios
  <2>5. /\ UNCHANGED <<drive, dma_active, mem, selected, nien, dma_start, prdt, wrote>>
        /\ NoIrq(irq)
    BY <2>1, <2>3, <2>4 DEF Callback
  <2> QED
    BY <2>5 DEF NoIrq, registers, history
<1>2. Invariant /\ [Next]_vars => [Dropped]_vars
  BY <1>1
<1> QED
  BY <1>2, Invariance, PTL DEF Spec, NoLateCompletion

-----------------------------------------------------------------------------
(* The driver.  What it asked for, where the channel is with it, and what  *)
(* the registers of its drive hold meanwhile: a request q, of which t      *)
(* units have gone through the data port, on a drive with registers r.     *)

Quiet == \A d \in Drives : in_progress[d] = {}

\* The sector count register when m sectors are left: zero is the largest count.
CountOf(m) == IF m = CountWrap THEN 0 ELSE m

TaskFile(q, r, k) == r.lba = q.start + k /\ r.count = CountOf(q.n - k)

Programmed(q, r) == /\ r.count = CountOf(q.n)
                    /\ r.lba = IF q.cmd \in Packets THEN q.limit ELSE q.start

WithinDisk(q) == q.start + q.n <= Sectors

MultipleCommands == {"read_multiple"} \cup MultipleWrites
DiskCommands == ReadCommands \cup WriteCommands \cup DmaCommands
Transfers == PioReads \cup WriteCommands \cup BusMaster

MultipleSet(q, r) == q.cmd \in MultipleCommands => r.multiple \in Nat \ {0}

\* The read that q makes, with table p, and that nothing else is in progress.
Wanted(q, p, c) ==
    /\ c.start = q.start /\ c.n = q.n
    /\ \/ c.op = "pio" /\ q.cmd \in ReadCommands /\ (c.single <=> q.cmd = "read")
       \/ c.op = "dma" /\ q.cmd = "read_dma" /\ c.prdt = p
       \/ c.op = "atapi" /\ q.cmd = "packet_read" /\ c.limit = Least(q.limit, q.n)
       \/ c.op = "atapi_dma" /\ q.cmd = "packet_dma"

OnlyWanted(q) ==
    \A d \in Drives : \A id \in in_progress[d] :
        /\ d = q.drive /\ q.drive \notin Empty
        /\ in_progress[d] = {id} /\ Wanted(q, prdt, calls[d][id])

\* The registers while its answer is awaited.
Awaits(q, r) ==
    \/ q.cmd \in ReadCommands /\ r.cmd = q.cmd /\ r.status = "busy" /\ WithinDisk(q) /\ TaskFile(q, r, 0)
    \/ q.cmd = "read_dma" /\ r.cmd = q.cmd /\ r.status = "drq" /\ WithinDisk(q) /\ TaskFile(q, r, 0)
    \/ q.cmd \in Packets /\ r.cmd = "packet" /\ r.status = "busy"

Refused(q, r) ==
    \/ r.status = "abort" /\ q.drive \in Empty
    \/ r.status = "fault" /\ q.cmd \in DiskCommands

AskedForPacket(q, r) ==
    /\ q.cmd \in Packets /\ q.drive \notin Empty
    /\ r.cmd = "packet" /\ r.status = "drq" /\ r.data = None
    /\ r.ptr = 0 /\ r.end = 1 /\ r.lba = q.limit

\* A block of k units under the data port.  In a block of the multiple writes
\* the drive asks for one sector after the other.
Offers(q, t, r, k) ==
    /\ q.cmd \in PioReads \cup WriteCommands /\ q.drive \notin Empty
    /\ r.status = "drq" /\ r.cmd = CommandOf(q) /\ r.len = q.n /\ r.ptr = t
    /\ k \in 1 .. q.n - t
    /\ IF q.cmd \in MultipleWrites THEN r.end \in t + 1 .. t + k ELSE r.end = t + k
    /\ q.cmd \in PioReads \ {"identify"} => r.data = q.start
    /\ q.cmd \in WriteCommands => r.write_dest = q.start
    /\ q.cmd # "identify" => WithinDisk(q)
    /\ q.cmd = "read" => TaskFile(q, r, r.end)
    /\ q.cmd = "write" => TaskFile(q, r, 0)
    /\ q.cmd = "packet_read" => r.lba > 0

\* BlockSize of the driver.
Block(q, t, r) ==
    CASE q.cmd \in Packets -> r.lba
      [] q.cmd \in {"read", "write", "identify"} -> 1
      [] OTHER -> Least(r.multiple, q.n - t)

\* The bus master can start, or the data waits for it.
DmaReady(q, r) ==
    /\ q.cmd \in DmaCommands /\ q.drive \notin Empty
    /\ r.cmd = q.cmd /\ r.status = "drq" /\ WithinDisk(q) /\ TaskFile(q, r, 0)

PacketReady(q, r) ==
    /\ q.cmd = "packet_dma" /\ q.drive \notin Empty
    /\ r.cmd = "packet" /\ r.status = "drq" /\ r.data = q.start /\ r.len = q.n

\* Everything q asked for has been done; m is what came into memory.
Complete(q, t, r, m) ==
    /\ q.drive \notin Empty
    /\ q.cmd \in PioReads \cup WriteCommands => t = q.n
    /\ q.cmd \in {"read_dma", "packet_dma"} => m.start = q.start /\ m.n = q.n
    /\ q.cmd \in {"read", "write"} \cup DmaCommands => WithinDisk(q) /\ TaskFile(q, r, q.n)

Completed(q, t, r, m) == r.status = "ready" /\ Complete(q, t, r, m)

Started(q, r, m, quiet) ==
    /\ q.cmd \in BusMaster
    /\ \/ quiet /\ q.cmd \in DmaCommands /\ Refused(q, r)
       \/ quiet /\ DmaReady(q, r)
       \/ q.cmd = "packet_dma" /\ ~ quiet /\ Awaits(q, r)
       \/ quiet /\ PacketReady(q, r)
       \/ quiet /\ q.cmd = "packet_dma" /\ r.cmd = "packet" /\ Completed(q, 0, r, m)

Waiting(q, t, r, m, quiet) ==
    \/ quiet /\ Refused(q, r)
    \/ quiet /\ q.cmd \notin Transfers /\ r.cmd # "packet"
    \/ ~ quiet /\ t = 0 /\ Awaits(q, r)
    \/ quiet /\ t = 0 /\ AskedForPacket(q, r)
    \/ quiet /\ Offers(q, t, r, Block(q, t, r))
    \/ quiet /\ PacketReady(q, r)
    \/ quiet /\ Completed(q, t, r, m)

Phase(p, q, t, k, r, m, quiet) ==
    /\ p \notin {"start", "wait", "abort", "reset"} => quiet
    /\ p \in {"program", "table", "command", "packet", "start", "poll"} => t = 0
    /\ p \in {"table", "command"} => Programmed(q, r)
    /\ p = "packet" => AskedForPacket(q, r)
    /\ p = "start" => Started(q, r, m, quiet)
    /\ p = "poll" => Refused(q, r) \/ Offers(q, t, r, Block(q, t, r))
    /\ p = "wait" => Waiting(q, t, r, m, quiet)
    /\ p = "transfer" => Offers(q, t, r, k)
    /\ p \in {"abort", "reset"} => quiet \/ Awaits(q, r)
    /\ p \in {"stop", "done"} => q.drive \in Empty \/ Complete(q, t, r, m)

\* A packet is not sent while the bus master is on.
BusMasterOff(p, q, r, on, active) ==
    /\ p \notin {"wait", "stop", "abort"} => ~ on
    /\ on => /\ q.cmd \in BusMaster
             /\ p = "wait" => ~ AskedForPacket(q, r)
    /\ active => on \/ (p = "start" /\ DmaReady(q, r))

NoneOfEmpty == \A d \in Empty : drive[d].cmd = None

Driving(q) ==
    /\ q \in Requests /\ selected = q.drive
    /\ MultipleSet(q, drive[q.drive])
    /\ OnlyWanted(q)
    /\ Phase(pc, q, taken, left, drive[q.drive], mem, Quiet)
    /\ BusMasterOff(pc, q, drive[q.drive], dma_start, dma_active)

DriverInv ==
    /\ NoneOfEmpty
    /\ taken \in Nat /\ left \in Nat
    /\ pc = "idle" => Quiet /\ ~ dma_start /\ ~ dma_active
    /\ pc # "idle" => pc \in Pcs /\ Driving(req)

LEMMA RequestFacts ==
  ASSUME NEW q \in Requests
  PROVE  /\ q.drive \in Drives /\ q.start \in 0 .. Sectors /\ q.start \in Nat
         /\ q.n \in Counts /\ q.n \in 1 .. CountWrap /\ q.n \in Nat
         /\ q.limit \in 0 .. Sectors /\ q.limit \in Nat
         /\ q.cmd \in (Commands \ {"packet"}) \cup Packets
         /\ q.cmd \in Packets => q.drive \in Cds /\ q.limit > 0 /\ WithinDisk(q)
         /\ q.cmd \in DiskCommands => q.drive \notin Cds
         /\ q.cmd = "identify" => q.drive = "master" /\ q.n = 1
<1>1. /\ q \in [drive : Drives, cmd : (Commands \ {"packet"}) \cup Packets,
                start : 0 .. Sectors, n : Counts, limit : 0 .. Sectors]
      /\ q.cmd \in Packets => q.drive \in Cds /\ q.limit > 0 /\ q.start + q.n <= Sectors
      /\ q.cmd \in ReadCommands \cup WriteCommands \cup DmaCommands => q.drive \notin Cds
      /\ q.cmd = "identify" => q.drive = "master" /\ q.n = 1
  BY RequestAssumption
<1>2. Counts \subseteq 1 .. CountWrap /\ Sectors \in Nat /\ CountWrap \in Nat
  BY CountAssumption
<1>3. q.drive \in Drives /\ q.start \in 0 .. Sectors /\ q.n \in Counts /\ q.limit \in 0 .. Sectors
  BY <1>1
<1>4. q.n \in 1 .. CountWrap
  BY <1>2, <1>3
<1>5. q.start \in Nat /\ q.limit \in Nat /\ q.n \in Nat
  BY <1>2, <1>3, <1>4
<1>6. q.cmd \in (Commands \ {"packet"}) \cup Packets
  BY <1>1
<1> QED
  BY <1>1, <1>3, <1>4, <1>5, <1>6 DEF WithinDisk, DiskCommands

LEMMA CountsDown ==
  ASSUME NEW m \in 0 .. CountWrap, NEW k \in 0 .. m
  PROVE  (CountOf(m) - k) % CountWrap = CountOf(m - k)
<1>0. CountWrap \in Nat \ {0} /\ m \in Int /\ k \in Int
  BY CountAssumption
<1>1. CASE m # CountWrap
  <2>1. m - k \in 0 .. CountWrap - 1
    BY <1>0, <1>1
  <2>2. (m - k) % CountWrap = m - k
    BY <1>0, <2>1, Small
  <2> QED
    BY <1>0, <1>1, <2>1, <2>2 DEF CountOf
<1>2. CASE m = CountWrap /\ k = 0
  <2>1. 0 % CountWrap = 0
    BY <1>0, Small
  <2> QED
    BY <1>0, <1>2, <2>1 DEF CountOf
<1>3. CASE m = CountWrap /\ k = CountWrap
  <2>1. (CountWrap * (-1) + 0) % CountWrap = 0
    BY <1>0, ModUnique
  <2>2. CountWrap * (-1) + 0 = 0 - k
    BY <1>0, <1>3
  <2> QED
    BY <1>0, <1>3, <2>1, <2>2 DEF CountOf
<1>4. CASE m = CountWrap /\ k \in 1 .. CountWrap - 1
  <2>1. CountWrap - k \in 0 .. CountWrap - 1
    BY <1>0, <1>4
  <2>2. (CountWrap * (-1) + (CountWrap - k)) % CountWrap = CountWrap - k
    BY <1>0, <2>1, ModUnique
  <2>3. CountWrap * (-1) + (CountWrap - k) = 0 - k
    BY <1>0
  <2> QED
    BY <1>0, <1>4, <2>2, <2>3 DEF CountOf
<1> QED
  BY <1>0, <1>1, <1>2, <1>3, <1>4

LEMMA CountWritten ==
  ASSUME NEW n \in 1 .. CountWrap
  PROVE  n % CountWrap = CountOf(n)
<1>0. CountWrap \in Nat \ {0}
  BY CountAssumption
<1>1. CASE n = CountWrap
  BY <1>0, <1>1, AtTheEnds DEF CountOf
<1>2. CASE n # CountWrap
  <2>1. n \in 0 .. CountWrap - 1
    BY <1>0, <1>2
  <2> QED
    BY <1>0, <1>2, <2>1, Small DEF CountOf
<1> QED
  BY <1>1, <1>2

LEMMA SectorsAsked ==
  ASSUME NEW r \in DriveState, NEW n \in 1 .. CountWrap, r.count = CountOf(n)
  PROVE  NumSectors(r) = n
  BY CountAssumption DEF CountOf, NumSectors

LEMMA AdvanceFields ==
  ASSUME NEW r \in DriveState, NEW j \in Nat
  PROVE  /\ Advance(r, j).status = r.status /\ Advance(r, j).cmd = r.cmd
         /\ Advance(r, j).multiple = r.multiple /\ Advance(r, j).ptr = r.ptr
         /\ Advance(r, j).end = r.end /\ Advance(r, j).len = r.len
         /\ Advance(r, j).data = r.data /\ Advance(r, j).write_dest = r.write_dest
         /\ Advance(r, j).count = (r.count - j) % CountWrap
         /\ Advance(r, j).lba = (r.lba + j) % LbaWrap
  BY DEF Advance, DriveState

\* The task file of a request within the disk does not wrap.
LEMMA Advances ==
  ASSUME NEW q \in Requests, NEW r \in DriveState, NEW k \in Nat, NEW j \in Nat,
         k + j <= q.n, WithinDisk(q), TaskFile(q, r, k)
  PROVE  TaskFile(q, Advance(r, j), k + j)
<1>0. /\ q.start \in Nat /\ q.n \in 1 .. CountWrap /\ CountWrap \in Nat \ {0}
      /\ LbaWrap \in Nat \ {0} /\ Sectors \in Nat /\ Sectors < LbaWrap
  BY RequestFacts, CountAssumption
<1>1. (r.lba + j) % LbaWrap = q.start + (k + j)
  <2>1. r.lba + j = q.start + (k + j)
    BY <1>0 DEF TaskFile
  <2>2. q.start + (k + j) \in 0 .. LbaWrap - 1
    BY <1>0 DEF WithinDisk
  <2> QED
    BY <1>0, <2>1, <2>2, Small
<1>2. (r.count - j) % CountWrap = CountOf(q.n - (k + j))
  <2> DEFINE m == q.n - k
  <2>1. m \in 0 .. CountWrap /\ j \in 0 .. m /\ m - j = q.n - (k + j)
    BY <1>0
  <2>2. r.count = CountOf(m)
    BY DEF TaskFile
  <2> HIDE DEF m
  <2>3. (CountOf(m) - j) % CountWrap = CountOf(m - j)
    BY <2>1, CountsDown
  <2> QED
    BY <2>1, <2>2, <2>3
<1> QED
  BY <1>1, <1>2, AdvanceFields DEF TaskFile

-----------------------------------------------------------------------------
(* Answers to the read the driver waits for.                               *)

LEMMA Kinds ==
  /\ "packet" \notin DiskCommands \cup Packets /\ "identify" \notin DiskCommands \cup Packets
  /\ ReadCommands \cap (WriteCommands \cup DmaCommands \cup Packets) = {}
  /\ WriteCommands \cap (DmaCommands \cup Packets) = {} /\ DmaCommands \cap Packets = {}
  /\ \A cmd \in DiskCommands \cup {"identify"} : cmd \notin Packets
  BY DEF DiskCommands, ReadCommands, WriteCommands, DmaCommands, Packets

LEMMA PioAnswer ==
  ASSUME NEW q \in Requests, NEW r \in DriveState, NEW c \in Calls, NEW p,
         Wanted(q, p, c), c.op = "pio", Awaits(q, r), MultipleSet(q, r), q.drive \notin Empty
  PROVE  LET a == AtaArrived(r, c)
         IN  Offers(q, 0, a, Block(q, 0, a)) /\ a.multiple = r.multiple /\ a.cmd = r.cmd
<1> DEFINE end == FirstEnd(r, c.n, c.single)
           j == IF c.single THEN 1 ELSE Least(c.n, 128)
           b == [DataAllocate(r, c.n) EXCEPT !.status = "drq", !.data = c.start, !.end = end]
           a == Advance(b, j)
<1>1. /\ q.n \in Nat /\ q.n >= 1 /\ q.start \in Nat
  BY RequestFacts
<1>2. /\ c.start = q.start /\ c.n = q.n /\ q.cmd \in ReadCommands /\ (c.single <=> q.cmd = "read")
      /\ r.cmd = q.cmd /\ WithinDisk(q) /\ TaskFile(q, r, 0)
  BY Kinds DEF Wanted, Awaits, DmaCommands, ReadCommands, Packets
<1>3. CASE q.cmd = "read"
  <2>1. end = 1 /\ j = 1
    BY <1>2, <1>3 DEF FirstEnd
  <2> HIDE DEF end, j
  <2>2. /\ b \in DriveState /\ b.status = "drq" /\ b.cmd = r.cmd /\ b.multiple = r.multiple
        /\ b.ptr = 0 /\ b.end = 1 /\ b.len = q.n /\ b.data = q.start
        /\ b.lba = r.lba /\ b.count = r.count
    BY <1>1, <1>2, <2>1 DEF DataAllocate, DriveState, Statuses
  <2> HIDE DEF b
  <2>3. TaskFile(q, b, 0)
    BY <1>2, <2>2 DEF TaskFile
  <2>4. TaskFile(q, a, 1)
    BY <1>1, <1>2, <2>1, <2>2, <2>3, Advances
  <2>5. /\ a.status = "drq" /\ a.cmd = r.cmd /\ a.multiple = r.multiple
        /\ a.ptr = 0 /\ a.end = 1 /\ a.len = q.n /\ a.data = q.start
    BY <2>1, <2>2, AdvanceFields
  <2> HIDE DEF a
  <2>6. Block(q, 0, a) = 1
    BY <1>3 DEF Block, Packets
  <2>7. Offers(q, 0, a, 1)
    BY <1>1, <1>2, <1>3, <2>4, <2>5
       DEF Offers, CommandOf, PioReads, WriteCommands, MultipleWrites, Packets, ReadCommands
  <2> QED
    BY <2>5, <2>6, <2>7 DEF a, b, j, end, AtaArrived
<1>4. CASE q.cmd = "read_multiple"
  <2>0. r.multiple \in Nat \ {0}
    BY <1>4 DEF MultipleSet, MultipleCommands
  <2>1. end = Least(r.multiple, q.n) /\ end \in 1 .. q.n /\ j \in Nat
    BY <1>1, <1>2, <1>4, <2>0, NoneAssumption DEF FirstEnd, MultipleEnd, Least
  <2>e. end \in Nat
    BY <1>1, <2>1
  <2> HIDE DEF end, j
  <2>2. /\ b \in DriveState /\ b.status = "drq" /\ b.cmd = r.cmd /\ b.multiple = r.multiple
        /\ b.ptr = 0 /\ b.end = end /\ b.len = q.n /\ b.data = q.start
    BY <1>1, <1>2, <2>e DEF DataAllocate, DriveState, Statuses
  <2> HIDE DEF b
  <2>5. /\ a.status = "drq" /\ a.cmd = r.cmd /\ a.multiple = r.multiple
        /\ a.ptr = 0 /\ a.end = end /\ a.len = q.n /\ a.data = q.start
    BY <2>1, <2>2, AdvanceFields
  <2> HIDE DEF a
  <2>6. Block(q, 0, a) = end
    BY <1>1, <1>4, <2>1, <2>5 DEF Block, Packets
  <2>7. Offers(q, 0, a, end)
    BY <1>1, <1>2, <1>4, <2>1, <2>5
       DEF Offers, CommandOf, PioReads, WriteCommands, MultipleWrites, Packets, ReadCommands
  <2> QED
    BY <2>5, <2>6, <2>7 DEF a, b, j, end, AtaArrived
<1> QED
  BY <1>2, <1>3, <1>4 DEF ReadCommands

LEMMA AtapiAnswer ==
  ASSUME NEW q \in Requests, NEW r \in DriveState, NEW c \in Calls, NEW p,
         Wanted(q, p, c), c.op = "atapi", Awaits(q, r), q.drive \notin Empty
  PROVE  LET a == AtapiArrived(r, c)
         IN  Offers(q, 0, a, Block(q, 0, a)) /\ a.multiple = r.multiple /\ a.cmd = r.cmd
<1> DEFINE end == Least(c.limit, c.n)
           a == [DataAllocate(r, c.n) EXCEPT !.status = "drq", !.data = c.start, !.end = end, !.lba = end]
<1>1. /\ q.n \in Nat /\ q.n >= 1 /\ q.start \in Nat /\ q.limit \in Nat
  BY RequestFacts
<1>2. /\ c.start = q.start /\ c.n = q.n /\ q.cmd = "packet_read" /\ c.limit = Least(q.limit, q.n)
  BY DEF Wanted
<1>3. r.cmd = "packet" /\ q.limit > 0 /\ WithinDisk(q)
  BY <1>2, RequestFacts DEF Awaits, Packets, ReadCommands
<1>4. end \in 1 .. q.n
  BY <1>1, <1>2, <1>3 DEF Least
<1> HIDE DEF end
<1>5. /\ a.status = "drq" /\ a.cmd = r.cmd /\ a.multiple = r.multiple
      /\ a.ptr = 0 /\ a.end = end /\ a.len = q.n /\ a.data = q.start /\ a.lba = end
  BY <1>1, <1>2, <1>4 DEF DataAllocate, DriveState
<1> HIDE DEF a
<1>6. Block(q, 0, a) = end
  BY <1>2, <1>5 DEF Block, Packets
<1>7. Offers(q, 0, a, end)
  BY <1>1, <1>2, <1>3, <1>4, <1>5
     DEF Offers, CommandOf, PioReads, WriteCommands, MultipleWrites, Packets, ReadCommands
<1> QED
  BY <1>5, <1>6, <1>7 DEF a, end, AtapiArrived

LEMMA DmaAnswer ==
  ASSUME NEW q \in Requests, NEW r \in DriveState, q.cmd = "read_dma" \/ q.cmd = "write_dma",
         WithinDisk(q), TaskFile(q, r, 0)
  PROVE  LET a == [Advance(r, q.n) EXCEPT !.status = "ready", !.cmd = None]
         IN  TaskFile(q, a, q.n) /\ a.multiple = r.multiple /\ a.cmd = None /\ a.status = "ready"
<1> DEFINE b == Advance(r, q.n)
           a == [b EXCEPT !.status = "ready", !.cmd = None]
<1>1. q.n \in Nat
  BY RequestFacts
<1>2. TaskFile(q, b, q.n) /\ b.multiple = r.multiple /\ b \in DriveState
  <2>1. 0 \in Nat /\ 0 + q.n <= q.n /\ 0 + q.n = q.n
    BY <1>1
  <2>2. TaskFile(q, b, 0 + q.n)
    BY <1>1, <2>1, Advances
  <2>3. b.multiple = r.multiple
    BY <1>1, AdvanceFields
  <2>4. b \in DriveState
    BY <1>1, RegisterTypes
  <2> QED
    BY <2>1, <2>2, <2>3, <2>4
<1> HIDE DEF b
<1>3. a.multiple = b.multiple /\ a.cmd = None /\ a.status = "ready" /\ a.lba = b.lba /\ a.count = b.count
  BY <1>2 DEF DriveState
<1> QED
  BY <1>2, <1>3 DEF TaskFile, b

LEMMA PacketDmaAnswer ==
  ASSUME NEW q \in Requests, NEW r \in DriveState, NEW s \in Statuses
  PROVE  LET a == [DataAllocate(r, q.n) EXCEPT !.status = s, !.data = q.start]
         IN  /\ a.status = s /\ a.cmd = r.cmd /\ a.multiple = r.multiple
             /\ a.data = q.start /\ a.len = q.n
  BY RequestFacts DEF DataAllocate, DriveState

\* What an answer leaves in the registers and in memory.
Answered(q, r, m) ==
    /\ \/ Offers(q, 0, r, Block(q, 0, r))
       \/ PacketReady(q, r)
       \/ q.cmd = "read_dma" /\ Completed(q, 0, r, m)
       \/ q.cmd = "packet_dma" /\ r.cmd = "packet" /\ Completed(q, 0, r, m)
    /\ MultipleSet(q, r)

LEMMA ArrivalAnswers ==
  ASSUME NEW q \in Requests, q.drive \notin Empty, NEW r \in DriveState, NEW c \in Calls, NEW p,
         Wanted(q, p, c), Awaits(q, r), MultipleSet(q, r),
         NEW line, NEW once, Arrive(q.drive, r, c, line, once)
  PROVE  /\ \E a : drive' = [drive EXCEPT ![q.drive] = a] /\ Answered(q, a, mem')
         /\ dma_active' = dma_active \/ dma_active' = FALSE
         /\ mem' # mem => /\ q.cmd \in {"read_dma", "packet_dma"} /\ mem' = [start |-> q.start, n |-> q.n]
                          /\ q.cmd = "packet_dma" => dma_active
<1>0. c.start = q.start /\ c.n = q.n
  BY DEF Wanted
<1>m. PICK m : m = mem'
  OBVIOUS
<1>1. CASE c.op = "pio"
  <2>1. drive' = [drive EXCEPT ![q.drive] = AtaArrived(r, c)] /\ mem' = mem /\ dma_active' = dma_active
    BY <1>1 DEF Arrive
  <2> DEFINE a == AtaArrived(r, c)
  <2>2. Offers(q, 0, a, Block(q, 0, a)) /\ a.multiple = r.multiple
    BY <1>1, PioAnswer
  <2> HIDE DEF a
  <2>3. Answered(q, a, m)
    BY <2>2 DEF Answered, MultipleSet
  <2> QED
    BY <1>m, <2>1, <2>3 DEF a
<1>2. CASE c.op = "atapi"
  <2>1. drive' = [drive EXCEPT ![q.drive] = AtapiArrived(r, c)] /\ mem' = mem /\ dma_active' = dma_active
    BY <1>2 DEF Arrive
  <2> DEFINE a == AtapiArrived(r, c)
  <2>2. Offers(q, 0, a, Block(q, 0, a)) /\ a.multiple = r.multiple
    BY <1>2, AtapiAnswer
  <2> HIDE DEF a
  <2>3. Answered(q, a, m)
    BY <2>2 DEF Answered, MultipleSet
  <2> QED
    BY <1>m, <2>1, <2>3 DEF a
<1>3. CASE c.op = "dma"
  <2> DEFINE a == [Advance(r, c.n) EXCEPT !.status = "ready", !.cmd = None]
  <2>1. /\ drive' = [drive EXCEPT ![q.drive] = a]
        /\ mem' = [start |-> c.start, n |-> c.n] /\ dma_active' = FALSE
    BY <1>3 DEF Arrive
  <2>2. q.cmd = "read_dma"
    BY <1>3 DEF Wanted
  <2>3. WithinDisk(q) /\ TaskFile(q, r, 0)
    BY <2>2 DEF Awaits, ReadCommands, Packets
  <2>4. TaskFile(q, a, q.n) /\ a.multiple = r.multiple /\ a.status = "ready"
    BY <1>0, <2>2, <2>3, DmaAnswer
  <2> HIDE DEF a
  <2>5. m.start = q.start /\ m.n = q.n
    BY <1>0, <1>m, <2>1
  <2>6. Answered(q, a, m)
    BY <2>2, <2>3, <2>4, <2>5
       DEF Answered, MultipleSet, Completed, Complete, PioReads, ReadCommands, WriteCommands
  <2> QED
    BY <1>0, <1>m, <2>1, <2>2, <2>6
<1>4. CASE c.op = "atapi_dma"
  <2> DEFINE s == IF dma_active THEN "ready" ELSE "drq"
             a == [DataAllocate(r, c.n) EXCEPT !.status = s, !.data = c.start]
  <2>1. /\ drive' = [drive EXCEPT ![q.drive] = a]
        /\ IF dma_active THEN mem' = [start |-> c.start, n |-> c.n] /\ dma_active' = FALSE
                         ELSE mem' = mem /\ dma_active' = dma_active
    BY <1>4 DEF Arrive
  <2>2. q.cmd = "packet_dma" /\ r.cmd = "packet"
    BY <1>4 DEF Wanted, Awaits, ReadCommands
  <2>3. a.status = s /\ a.cmd = "packet" /\ a.multiple = r.multiple /\ a.data = q.start /\ a.len = q.n
    <3>1. s \in Statuses
      BY DEF Statuses
    <3> HIDE DEF s
    <3> QED
      BY <1>0, <2>2, <3>1, PacketDmaAnswer
  <2> HIDE DEF a
  <2>4. CASE dma_active
    <3>1. m.start = q.start /\ m.n = q.n
      BY <1>0, <1>m, <2>1, <2>4
    <3>2. Answered(q, a, m)
      BY <2>2, <2>3, <2>4, <3>1
         DEF Answered, MultipleSet, Completed, Complete, PioReads, ReadCommands, WriteCommands, DmaCommands
    <3> QED
      BY <1>0, <1>m, <2>1, <2>2, <2>4, <3>2
  <2>5. CASE ~ dma_active
    <3>2. Answered(q, a, m)
      BY <2>2, <2>3, <2>5 DEF Answered, MultipleSet, PacketReady
    <3> QED
      BY <1>m, <2>1, <2>5, <3>2
  <2> QED
    BY <2>4, <2>5
<1> QED
  BY <1>1, <1>2, <1>3, <1>4 DEF Wanted

-----------------------------------------------------------------------------
(* The reads of the driver.                                                *)

LEMMA QuietKept ==
  ASSUME UNCHANGED ios
  PROVE  /\ Quiet' <=> Quiet
         /\ \A q : OnlyWanted(q) /\ prdt' = prdt => OnlyWanted(q)'
  BY DEF ios, Quiet, OnlyWanted

LEMMA QuietWanted ==
  ASSUME Quiet
  PROVE  \A q : OnlyWanted(q)
  BY DEF Quiet, OnlyWanted

LEMMA StartWanted ==
  ASSUME Ios, Quiet, NEW q, q.drive \in Drives, q.drive \notin Empty, NEW c, Wanted(q, prdt, c),
         StartCall(q.drive, c), prdt' = prdt
  PROVE  OnlyWanted(q)' /\ ~ Quiet'
<1>1. PICK id \in Ids \ Outstanding(q.drive) :
        /\ calls' = [calls EXCEPT ![q.drive][id] = c]
        /\ in_progress' = [in_progress EXCEPT ![q.drive] = @ \cup {id}]
  BY DEF StartCall
<1>2. /\ \A d \in Drives : in_progress'[d] = IF d = q.drive THEN {id} ELSE {}
      /\ calls'[q.drive][id] = c
  BY <1>1 DEF Ios, Quiet
<1>3. OnlyWanted(q)'
  BY <1>2 DEF OnlyWanted
<1>4. ~ Quiet'
  BY <1>2 DEF Quiet
<1> QED
  BY <1>3, <1>4

LEMMA CallbackWanted ==
  ASSUME Ios, NEW q, OnlyWanted(q), NEW d \in Drives, NEW id \in Ids, Callback(d, id)
  PROVE  /\ id \in cancelled[d] => OnlyWanted(q)' /\ (Quiet' <=> Quiet)
         /\ id \notin cancelled[d] => /\ d = q.drive /\ q.drive \notin Empty /\ ~ Quiet /\ Quiet'
                                      /\ Wanted(q, prdt, calls[d][id]) /\ calls[d][id] \in Calls
<1>1. CASE id \in cancelled[d]
  <2>1. /\ in_progress' = in_progress /\ prdt' = prdt
        /\ calls' = [calls EXCEPT ![d][id] = None]
    BY <1>1 DEF Callback
  <2>2. id \notin in_progress[d]
    BY <1>1 DEF Ios, IoBookkeeping
  <2>3. \A e \in Drives : \A i \in in_progress[e] : calls'[e][i] = calls[e][i]
    BY <2>1, <2>2 DEF Ios
  <2>4. OnlyWanted(q)'
    BY <2>1, <2>3 DEF OnlyWanted
  <2> QED
    BY <1>1, <2>1, <2>4 DEF Quiet
<1>2. CASE id \notin cancelled[d]
  <2>1. /\ in_progress' = [in_progress EXCEPT ![d] = @ \ {id}]
        /\ calls[d][id] # None
    BY <1>2 DEF Callback
  <2>2. id \in in_progress[d]
    BY <1>2, <2>1 DEF Ios, IoBookkeeping, Outstanding
  <2>3. d = q.drive /\ q.drive \notin Empty /\ in_progress[d] = {id} /\ Wanted(q, prdt, calls[d][id])
    BY <2>2 DEF OnlyWanted
  <2>4. \A e \in Drives : e # d => in_progress[e] = {}
    BY <2>3 DEF OnlyWanted, Ios
  <2>5. Quiet'
    BY <2>1, <2>3, <2>4 DEF Quiet, Ios
  <2>6. ~ Quiet
    BY <2>2 DEF Quiet
  <2> QED
    BY <1>2, <2>1, <2>3, <2>5, <2>6 DEF Ios
<1> QED
  BY <1>1, <1>2

LEMMA DriveTouched ==
  ASSUME Regs, NoneOfEmpty, NEW d \in Drives, NEW a, d \notin Empty \/ a.cmd = None,
         drive' = [drive EXCEPT ![d] = a]
  PROVE  drive'[d] = a /\ NoneOfEmpty'
  BY DriveAssumption DEF Regs, NoneOfEmpty

\* A step that leaves the driver with request q.
LEMMA Becomes ==
  ASSUME NEW p \in Pcs \ {"idle"}, NEW q \in Requests, NEW t \in Nat, NEW k \in Nat, NEW r, NEW m,
         pc' = p, req' = q, taken' = t, left' = k, mem' = m, drive'[q.drive] = r,
         selected' = q.drive, NoneOfEmpty', MultipleSet(q, r), OnlyWanted(q)',
         Phase(p, q, t, k, r, m, Quiet'), BusMasterOff(p, q, r, dma_start', dma_active')
  PROVE  DriverInv'
<1>1. Driving(q)'
  BY DEF Driving
<1> QED
  BY <1>1 DEF DriverInv

-----------------------------------------------------------------------------
(* The driver's steps are steps of the channel.                            *)

LEMMA DriverStepTypes ==
  ASSUME Regs, Ios, DriverInv, Drive \/ Proceed \/ Timeout
  PROVE  Regs' /\ IosKept /\ saved' = saved
<1>1. pc # "idle" => /\ req \in Requests /\ req.n \in Counts /\ req.start \in 0 .. Sectors
                     /\ req.limit \in 0 .. Sectors /\ req.drive \in Drives
  BY RequestFacts DEF DriverInv, Driving
<1>2. CASE RegisterStep
  BY <1>2, RegisterStepTypes
<1>3. CASE \E d \in Drives, cmd \in {CommandOf(req)} : CommandStep(d, cmd)
  BY <1>3, CommandTypes DEF Regs, Touched, Elsewhere
<1>4. CASE ReadData \/ WriteData
  BY <1>4, PortTypes DEF Regs, Touched, Kept
<1>5. CASE \E d \in Drives : PacketStep(d)
  BY <1>5, PacketTypes DEF Regs, Touched, Kept
<1>6. CASE DmaStep
  BY <1>6, DmaTypes DEF Regs, Touched, Kept
<1>7. CASE UNCHANGED vars
  <2>1. UNCHANGED ios /\ UNCHANGED registers /\ irq' = irq /\ saved' = saved
    BY <1>7 DEF vars
  <2> QED
    BY <2>1, IosUnchanged DEF Regs, registers
<1>8. CASE \E r \in Requests : Begin(r)
  BY <1>2, <1>8, RequestFacts DEF Begin, RegisterStep
<1>9. CASE EnableInterrupts \/ Program \/ SetTable \/ Interrupted \/ Done \/ ResetChannel
  <2>1. FALSE \in BOOLEAN
    OBVIOUS
  <2>2. CASE EnableInterrupts
    BY <1>2, <2>1, <2>2 DEF EnableInterrupts, RegisterStep
  <2>3. CASE Program
    BY <1>1, <1>2, <2>3 DEF Program, RegisterStep
  <2>4. CASE SetTable
    BY <1>2, <2>4 DEF SetTable, RegisterStep
  <2>5. CASE Interrupted \/ Done
    BY <1>2, <2>5 DEF Interrupted, Done, RegisterStep
  <2>6. CASE ResetChannel
    BY <1>2, <2>1, <2>6 DEF ResetChannel, RegisterStep
  <2> QED
    BY <1>9, <2>2, <2>3, <2>4, <2>5, <2>6
<1>10. CASE Issue
  BY <1>1, <1>3, <1>10 DEF Issue
<1>11. CASE SendPacket
  BY <1>1, <1>5, <1>11 DEF SendPacket, PacketStep
<1>12. CASE StartDma \/ StopDma \/ Abort
  BY <1>1, <1>6, <1>12 DEF StartDma, StopDma, Abort, DmaStep
<1>13. CASE Poll \/ Timeout
  BY <1>7, <1>13 DEF Poll, Timeout
<1>14. CASE Transfer
  BY <1>4, <1>14 DEF Transfer
<1> QED
  BY <1>8, <1>9, <1>10, <1>11, <1>12, <1>13, <1>14 DEF Drive, Proceed

-----------------------------------------------------------------------------
(* The steps that program the registers.                                   *)

LEMMA BeginInv ==
  ASSUME Regs, Ios, DriverInv, NEW q \in Requests, Begin(q)
  PROVE  DriverInv'
<1>1. /\ pc = "idle" /\ Usable(q)
      /\ selected' = q.drive /\ UNCHANGED <<drive, dma_start, dma_active, mem, ios>>
      /\ pc' = "program" /\ req' = q /\ taken' = 0 /\ left' = 0
  BY DEF Begin, Select, history
<1>2. Quiet' /\ OnlyWanted(q)'
  <2>1. Quiet
    BY <1>1 DEF DriverInv
  <2>2. Quiet'
    BY <1>1, <2>1, QuietKept
  <2> QED
    BY <2>2 DEF OnlyWanted, Quiet
<1> DEFINE r == drive[q.drive]
<1>3. MultipleSet(q, r)
  <2>1. r \in DriveState
    BY RequestFacts DEF Regs
  <2>2. q.cmd \in MultipleCommands => r.multiple \notin {None, 0}
    BY <1>1 DEF Usable, MultipleCommands
  <2> QED
    BY <2>1, <2>2 DEF MultipleSet, DriveState
<1>4. Phase("program", q, 0, 0, r, mem, Quiet')
  BY <1>2 DEF Phase
<1>5. BusMasterOff("program", q, r, dma_start', dma_active')
  BY <1>1 DEF BusMasterOff, DriverInv
<1>6. NoneOfEmpty'
  BY <1>1 DEF DriverInv, NoneOfEmpty
<1>7. "program" \in Pcs \ {"idle"} /\ 0 \in Nat
  BY DEF Pcs
<1> QED
  BY <1>1, <1>2, <1>3, <1>4, <1>5, <1>6, <1>7, Becomes

LEMMA EnableInv ==
  ASSUME DriverInv, EnableInterrupts
  PROVE  DriverInv'
<1>1. /\ pc = "idle" /\ UNCHANGED <<drive, dma_start, dma_active, ios, pc, taken, left>>
  BY DEF EnableInterrupts, WriteControl, driver
<1>2. Quiet'
  BY <1>1, QuietKept DEF DriverInv
<1> QED
  BY <1>1, <1>2 DEF DriverInv, NoneOfEmpty

\* What a step finds when the driver is at work.
LEMMA AtWork ==
  ASSUME Regs, DriverInv, pc # "idle"
  PROVE  /\ req \in Requests /\ req.drive \in Drives /\ selected = req.drive
         /\ drive[req.drive] \in DriveState
         /\ MultipleSet(req, drive[req.drive]) /\ OnlyWanted(req)
         /\ Phase(pc, req, taken, left, drive[req.drive], mem, Quiet)
         /\ BusMasterOff(pc, req, drive[req.drive], dma_start, dma_active)
         /\ taken \in Nat /\ left \in Nat /\ NoneOfEmpty
  BY RequestFacts DEF Regs, DriverInv, Driving

LEMMA ProgramInv ==
  ASSUME Regs, Ios, DriverInv, Program
  PROVE  DriverInv'
<1> DEFINE lba == IF req.cmd \in Packets THEN req.limit ELSE req.start
           d == req.drive
           next == IF req.cmd \in BusMaster THEN "table" ELSE "command"
<1>1. /\ pc = "program"
      /\ drive' = [e \in Drives |-> [drive[e] EXCEPT !.count = req.n % CountWrap, !.lba = lba]]
      /\ UNCHANGED <<selected, dma_start, dma_active, prdt, ios, mem, req, taken, left>>
      /\ pc' = next
  BY DEF Program, WriteTaskFile, Goto, history
<1>2. /\ req \in Requests /\ d \in Drives /\ selected = d /\ drive[d] \in DriveState
      /\ MultipleSet(req, drive[d]) /\ OnlyWanted(req) /\ taken \in Nat /\ left \in Nat
      /\ Phase("program", req, taken, left, drive[d], mem, Quiet)
      /\ BusMasterOff("program", req, drive[d], dma_start, dma_active) /\ NoneOfEmpty
  BY <1>1, AtWork
<1>3. req.n % CountWrap = CountOf(req.n)
  BY <1>2, RequestFacts, CountWritten
<1> DEFINE k == req.n % CountWrap
           r == [drive[d] EXCEPT !.count = k, !.lba = lba]
<1>4. drive'[d] = r
  BY <1>1, <1>2
<1> HIDE DEF k
<1>5. r.count = k /\ r.lba = lba /\ r.multiple = drive[d].multiple
  BY <1>2 DEF DriveState
<1>6. NoneOfEmpty'
  <2>1. \A e \in Empty : e \in Drives /\ drive[e] \in DriveState
    BY DriveAssumption DEF Regs
  <2>2. \A e \in Empty : drive'[e].cmd = drive[e].cmd
    BY <1>1, <2>1 DEF DriveState
  <2> QED
    BY <1>2, <2>2 DEF NoneOfEmpty
<1> HIDE DEF r
<1>7. MultipleSet(req, r)
  BY <1>2, <1>5 DEF MultipleSet
<1>8. Quiet' /\ OnlyWanted(req)'
  <2>1. Quiet
    BY <1>2 DEF Phase
  <2>2. Quiet'
    BY <1>1, <2>1, QuietKept
  <2> QED
    BY <2>2 DEF OnlyWanted, Quiet
<1>9. Programmed(req, r)
  BY <1>3, <1>5 DEF Programmed, k
<1>10. Phase(next, req, taken, left, r, mem, Quiet')
  BY <1>2, <1>8, <1>9 DEF Phase
<1>11. BusMasterOff(next, req, r, dma_start', dma_active')
  BY <1>1, <1>2 DEF BusMasterOff
<1>12. next \in Pcs \ {"idle"}
  BY DEF Pcs
<1> HIDE DEF next
<1> QED
  BY <1>1, <1>2, <1>4, <1>6, <1>7, <1>8, <1>10, <1>11, <1>12, Becomes

LEMMA SetTableInv ==
  ASSUME Regs, Ios, DriverInv, SetTable
  PROVE  DriverInv'
<1>1. /\ pc = "table" /\ pc' = "command"
      /\ UNCHANGED <<drive, selected, dma_start, dma_active, ios, mem, req, taken, left>>
  BY DEF SetTable, SetPrdt, Goto, history
<1> DEFINE r == drive[req.drive]
<1>2. /\ req \in Requests /\ selected = req.drive
      /\ MultipleSet(req, r) /\ taken \in Nat /\ left \in Nat
      /\ Phase("table", req, taken, left, r, mem, Quiet)
      /\ BusMasterOff("table", req, r, dma_start, dma_active) /\ NoneOfEmpty
  BY <1>1, AtWork
<1>3. Quiet' /\ OnlyWanted(req)'
  <2>1. Quiet
    BY <1>2 DEF Phase
  <2>2. Quiet'
    BY <1>1, <2>1, QuietKept
  <2> QED
    BY <2>2 DEF OnlyWanted, Quiet
<1>4. Phase("command", req, taken, left, r, mem, Quiet')
  BY <1>2, <1>3 DEF Phase
<1>5. BusMasterOff("command", req, r, dma_start', dma_active')
  BY <1>1, <1>2 DEF BusMasterOff
<1>6. NoneOfEmpty' /\ drive'[req.drive] = r /\ "command" \in Pcs \ {"idle"}
  BY <1>1, <1>2 DEF NoneOfEmpty, Pcs
<1> QED
  BY <1>1, <1>2, <1>3, <1>4, <1>5, <1>6, Becomes

-----------------------------------------------------------------------------
(* The command.                                                            *)

AfterIssue(q) == CASE q.cmd \in DmaCommands -> "start"
                   [] q.cmd \in WriteCommands -> "poll"
                   [] OTHER -> "wait"

\* What the driver knows before and after a command, whatever it is.
Issuing(q, r) ==
    /\ q \in Requests /\ q.drive \in Drives /\ r \in DriveState /\ r = drive[q.drive]
    /\ selected = q.drive /\ NoneOfEmpty /\ Quiet
    /\ MultipleSet(q, r) /\ Programmed(q, r) /\ ~ dma_start /\ ~ dma_active
    /\ pc' = AfterIssue(q) /\ req' = q /\ taken' = 0 /\ left' \in Nat
    /\ selected' = q.drive /\ dma_start' = dma_start /\ prdt' = prdt

LEMMA IssueEnds ==
  ASSUME NEW q, NEW r, Issuing(q, r), Regs, NEW a, drive' = [drive EXCEPT ![q.drive] = a],
         q.drive \notin Empty \/ a.cmd = None, MultipleSet(q, a), OnlyWanted(q)',
         Phase(AfterIssue(q), q, 0, left', a, mem', Quiet'),
         ~ dma_active' \/ (AfterIssue(q) = "start" /\ DmaReady(q, a))
  PROVE  DriverInv'
<1>1. drive'[q.drive] = a /\ NoneOfEmpty'
  BY DriveTouched DEF Issuing
<1>2. PICK k, m : k \in Nat /\ k = left' /\ m = mem'
  BY DEF Issuing
<1>3. BusMasterOff(AfterIssue(q), q, a, dma_start', dma_active')
  BY DEF BusMasterOff, Issuing
<1>4. AfterIssue(q) \in Pcs \ {"idle"} /\ 0 \in Nat
  BY DEF AfterIssue, Pcs
<1>5. /\ q \in Requests /\ pc' = AfterIssue(q) /\ req' = q /\ taken' = 0 /\ selected' = q.drive
  BY DEF Issuing
<1> QED
  BY <1>1, <1>2, <1>3, <1>4, <1>5, Becomes

\* A command that is over at once, with the reads as they are.
LEMMA IssueQuiet ==
  ASSUME NEW q, NEW r, Issuing(q, r), Regs, NEW a, drive' = [drive EXCEPT ![q.drive] = a],
         q.drive \notin Empty \/ a.cmd = None, MultipleSet(q, a), Quiet',
         ~ dma_active' \/ (AfterIssue(q) = "start" /\ DmaReady(q, a)),
         AfterIssue(q) = "start" => q.cmd \in BusMaster /\ (Refused(q, a) \/ DmaReady(q, a)),
         AfterIssue(q) = "poll" => Refused(q, a) \/ Offers(q, 0, a, Block(q, 0, a)),
         AfterIssue(q) = "wait" => \/ Refused(q, a) \/ AskedForPacket(q, a)
                                   \/ q.cmd \notin Transfers /\ a.cmd # "packet"
                                   \/ Offers(q, 0, a, Block(q, 0, a))
  PROVE  DriverInv'
<1>1. OnlyWanted(q)'
  BY DEF Quiet, OnlyWanted
<1>2. AfterIssue(q) = "start" => q.cmd \in DmaCommands
  BY DEF AfterIssue
<1>3. AfterIssue(q) \in {"start", "poll", "wait"}
  BY DEF AfterIssue
<1>m. PICK m, k : m = mem' /\ k = left'
  OBVIOUS
<1>4. Phase(AfterIssue(q), q, 0, k, a, m, TRUE)
  BY <1>2, <1>3 DEF Phase, Started, Waiting
<1>5. Quiet' <=> TRUE
  OBVIOUS
<1>6. Phase(AfterIssue(q), q, 0, k, a, m, Quiet')
  BY <1>4, <1>5 DEF Phase, Started, Waiting
<1> QED
  BY <1>1, <1>6, <1>m, IssueEnds

LEMMA AnsweredWaits ==
  ASSUME NEW q, NEW a, NEW m, Answered(q, a, m)
  PROVE  \A quiet \in BOOLEAN : quiet => Waiting(q, 0, a, m, quiet)
  BY DEF Answered, Waiting

LEMMA CommandsOf ==
  ASSUME NEW q \in Requests
  PROVE  /\ CommandOf(q) = "packet" <=> q.cmd \in Packets
         /\ CommandOf(q) # "packet" => CommandOf(q) = q.cmd
  BY RequestFacts DEF CommandOf, Packets, Commands

\* Commands that move no data.
LEMMA PlainIssue ==
  ASSUME NEW q, NEW r, Issuing(q, r), Regs, NEW a, SetDrive(q.drive, a), Quiet',
         q.drive \notin Empty, q.cmd \in {"reset", "nondata", "unsupported", "set_multiple"},
         a.cmd = q.cmd, UNCHANGED <<dma_active, mem>>
  PROVE  DriverInv'
<1>1. AfterIssue(q) = "wait" /\ q.cmd \notin Transfers /\ q.cmd \notin MultipleCommands
  BY DEF AfterIssue, Transfers, PioReads, BusMaster, Packets, ReadCommands, WriteCommands, DmaCommands,
         MultipleCommands, MultipleWrites
<1>2. MultipleSet(q, a) /\ a.cmd # "packet" /\ ~ dma_active'
  BY <1>1 DEF MultipleSet, Issuing
<1>3. drive' = [drive EXCEPT ![q.drive] = a]
  BY DEF SetDrive
<1> QED
  BY <1>1, <1>2, <1>3, IssueQuiet

LEMMA IssuedFields ==
  ASSUME Regs, NEW d \in Drives, NEW cmd
  PROVE  /\ Issued(d, cmd).cmd = cmd
         /\ Issued(d, cmd).status = drive[d].status /\ Issued(d, cmd).multiple = drive[d].multiple
         /\ Issued(d, cmd).lba = drive[d].lba /\ Issued(d, cmd).count = drive[d].count
         /\ Issued(d, cmd).ptr = drive[d].ptr /\ Issued(d, cmd).end = drive[d].end
         /\ Issued(d, cmd).write_dest = drive[d].write_dest
         /\ Issued(d, cmd) = [status |-> drive[d].status, cmd |-> cmd,
                              count |-> drive[d].count, lba |-> drive[d].lba,
                              multiple |-> drive[d].multiple, ptr |-> drive[d].ptr,
                              end |-> drive[d].end, len |-> drive[d].len,
                              data |-> drive[d].data, write_dest |-> drive[d].write_dest]
<1>1. drive[d] \in DriveState
  BY DEF Regs
<1> QED
  BY <1>1 DEF Issued, DriveState

LEMMA OutOfDisk ==
  ASSUME NEW q, NEW r, Issuing(q, r), Regs, q.cmd \in DiskCommands, q.drive \notin Empty,
         SetDrive(q.drive, [Issued(q.drive, q.cmd) EXCEPT !.status = "fault"]),
         UNCHANGED <<ios, dma_active, mem>>
  PROVE  DriverInv'
<1> DEFINE a == [Issued(q.drive, q.cmd) EXCEPT !.status = "fault"]
<1>0. q.drive \in Drives /\ r = drive[q.drive] /\ Quiet /\ MultipleSet(q, r) /\ ~ dma_active
  BY DEF Issuing
<1>1. a.status = "fault" /\ a.multiple = r.multiple
  BY <1>0, IssuedFields
<1>2. drive' = [drive EXCEPT ![q.drive] = a]
  BY DEF SetDrive
<1> HIDE DEF a
<1>3. Refused(q, a) /\ MultipleSet(q, a)
  BY <1>0, <1>1 DEF Refused, MultipleSet
<1>4. Quiet' /\ ~ dma_active'
  BY <1>0, QuietKept
<1>5. AfterIssue(q) = "start" => q.cmd \in BusMaster
  BY DEF AfterIssue, BusMaster
<1> QED
  BY <1>2, <1>3, <1>4, <1>5, IssueQuiet

LEMMA ReadIssue ==
  ASSUME NEW q, NEW r, Issuing(q, r), Regs, Ios, CommandRead(q.drive, q.cmd)
  PROVE  DriverInv' /\ mem' = mem
<1> DEFINE d == q.drive
           b == [Issued(d, q.cmd) EXCEPT !.status = "busy"]
           c == [Call("pio", r.lba, NumSectors(r)) EXCEPT !.single = (q.cmd = "read")]
<1>0. /\ q \in Requests /\ d \in Drives /\ r \in DriveState /\ r = drive[d] /\ Quiet
      /\ MultipleSet(q, r) /\ Programmed(q, r) /\ ~ dma_active /\ prdt' = prdt
  BY DEF Issuing
<1>1. /\ d \notin Empty /\ q.cmd \in ReadCommands /\ InDisk(r)
      /\ ReadBuffer(d, b, c, FALSE)
  BY <1>0 DEF CommandRead, Accepts
<1>2. q.cmd \notin Packets /\ q.n \in 1 .. CountWrap /\ q.start \in Nat /\ q.n \in Nat /\ AfterIssue(q) = "wait"
  BY <1>0, <1>1, RequestFacts, Kinds DEF AfterIssue
<1>3. r.lba = q.start /\ r.count = CountOf(q.n) /\ NumSectors(r) = q.n
  BY <1>0, <1>2, SectorsAsked DEF Programmed
<1>4. WithinDisk(q)
  BY <1>1, <1>3 DEF InDisk, WithinDisk
<1>5. /\ c \in Calls /\ c.op = "pio" /\ c.start = q.start /\ c.n = q.n /\ (c.single <=> q.cmd = "read")
  <2>1. prdt \in Prdts
    BY DEF Regs
  <2> QED
    BY <1>2, <1>3, <2>1 DEF Call, Calls
<1>6. Wanted(q, prdt, c)
  BY <1>1, <1>5 DEF Wanted
<1> HIDE DEF c
<1>7. b \in DriveState /\ b.status = "busy" /\ b.cmd = q.cmd /\ b.multiple = r.multiple /\ b.lba = r.lba /\ b.count = r.count
  <2>1. q.cmd \in Commands
    BY <1>1 DEF Commands
  <2> QED
    BY <1>0, <2>1, IssuedFields DEF DriveState, Statuses
<1> HIDE DEF b
<1>8. Awaits(q, b) /\ MultipleSet(q, b)
  <2>1. q.n - 0 = q.n /\ q.start + 0 = q.start
    BY <1>2
  <2> QED
    BY <1>0, <1>1, <1>3, <1>4, <1>7, <2>1 DEF Awaits, MultipleSet, TaskFile
<1>9. CASE Arrive(d, b, c, FALSE, TRUE) /\ UNCHANGED ios
  <2>1. PICK a : drive' = [drive EXCEPT ![d] = a] /\ Answered(q, a, mem')
    BY <1>0, <1>1, <1>5, <1>6, <1>7, <1>8, <1>9, ArrivalAnswers
  <2>2. ~ dma_active' /\ mem' = mem
    <3>1. dma_active' = dma_active \/ dma_active' = FALSE
      BY <1>0, <1>1, <1>5, <1>6, <1>7, <1>8, <1>9, ArrivalAnswers
    <3>2. mem' # mem => q.cmd \in {"read_dma", "packet_dma"}
      BY <1>0, <1>1, <1>5, <1>6, <1>7, <1>8, <1>9, ArrivalAnswers
    <3> QED
      BY <1>0, <1>1, <3>1, <3>2 DEF ReadCommands
  <2>m. PICK m : m = mem'
    OBVIOUS
  <2>3. Offers(q, 0, a, Block(q, 0, a)) /\ MultipleSet(q, a)
    BY <1>1, <2>1, <2>m DEF Answered, PacketReady, ReadCommands
  <2>4. Quiet'
    BY <1>0, <1>9, QuietKept
  <2> QED
    BY <1>0, <1>1, <1>2, <2>1, <2>2, <2>3, <2>4, IssueQuiet
<1>10. CASE /\ StartCall(d, c)
            /\ drive' = [drive EXCEPT ![d] = b]
            /\ UNCHANGED <<dma_active, mem>>
  <2>1. OnlyWanted(q)' /\ ~ Quiet'
    BY <1>0, <1>1, <1>6, <1>10, StartWanted
  <2>2. ~ Quiet' <=> TRUE
    BY <2>1
  <2>k. PICK k, m : k = left' /\ m = mem'
    OBVIOUS
  <2>3. Phase("wait", q, 0, k, b, m, FALSE)
    BY <1>8 DEF Phase, Waiting
  <2>4. Phase("wait", q, 0, k, b, m, Quiet')
    BY <2>1, <2>3 DEF Phase, Waiting
  <2> QED
    BY <1>0, <1>1, <1>2, <1>8, <1>10, <2>1, <2>k, <2>4, IssueEnds
<1> QED
  BY <1>1, <1>9, <1>10 DEF ReadBuffer

LEMMA WriteIssue ==
  ASSUME NEW q, NEW r, Issuing(q, r), Regs, Ios, CommandWrite(q.drive, q.cmd)
  PROVE  DriverInv' /\ mem' = mem
<1> DEFINE d == q.drive
           n == NumSectors(r)
           end == FirstEnd(r, n, q.cmd = "write")
           b == DataAllocate(Issued(d, q.cmd), n)
           a == [b EXCEPT !.status = "drq", !.end = end, !.write_dest = r.lba, !.data = None]
<1>0. /\ q \in Requests /\ d \in Drives /\ r \in DriveState /\ r = drive[d] /\ Quiet
      /\ MultipleSet(q, r) /\ Programmed(q, r) /\ ~ dma_active
  BY DEF Issuing
<1>1. /\ d \notin Empty /\ q.cmd \in WriteCommands /\ InDisk(r)
      /\ SetDrive(d, a) /\ UNCHANGED <<ios, dma_active, mem>>
  BY <1>0 DEF CommandWrite, Accepts
<1>2. q.cmd \notin Packets /\ q.n \in 1 .. CountWrap /\ q.start \in Nat /\ q.n \in Nat /\ AfterIssue(q) = "poll"
  BY <1>0, <1>1, RequestFacts, Kinds DEF AfterIssue
<1>3. r.lba = q.start /\ r.count = CountOf(q.n) /\ n = q.n
  BY <1>0, <1>2, SectorsAsked DEF Programmed
<1>4. WithinDisk(q)
  BY <1>1, <1>3 DEF InDisk, WithinDisk
<1> HIDE DEF n
<1>5. /\ end \in 1 .. q.n
      /\ q.cmd = "write" => end = 1
      /\ q.cmd # "write" => r.multiple \in Nat /\ end = Least(r.multiple, q.n)
  <2>1. CASE q.cmd = "write"
    BY <1>2, <2>1 DEF FirstEnd
  <2>2. CASE q.cmd # "write"
    <3>1. r.multiple \in Nat \ {0}
      BY <1>0, <1>1, <2>2 DEF MultipleSet, MultipleCommands, MultipleWrites, WriteCommands
    <3>2. end = Least(q.n, r.multiple)
      BY <1>3, <2>2, <3>1, NoneAssumption DEF FirstEnd, MultipleEnd
    <3> QED
      BY <1>2, <2>2, <3>1, <3>2 DEF Least
  <2> QED
    BY <2>1, <2>2
<1> HIDE DEF end
<1>6. /\ a.status = "drq" /\ a.cmd = q.cmd /\ a.len = q.n /\ a.ptr = 0 /\ a.end = end
      /\ a.write_dest = q.start /\ a.lba = r.lba /\ a.count = r.count /\ a.multiple = r.multiple
  BY <1>0, <1>3, IssuedFields DEF DataAllocate
<1>7. drive' = [drive EXCEPT ![d] = a]
  BY <1>1 DEF SetDrive
<1> HIDE DEF a
<1>8. Block(q, 0, a) = end
  <2>1. q.cmd = "write" \/ q.cmd \in MultipleWrites
    BY <1>1 DEF WriteCommands, MultipleWrites
  <2>2. CASE q.cmd = "write"
    BY <1>5, <2>2 DEF Block, Packets
  <2>3. CASE q.cmd \in MultipleWrites
    <3>1. q.cmd \notin {"read", "write", "identify"} /\ q.n - 0 = q.n
      BY <1>2, <2>3 DEF MultipleWrites
    <3> QED
      BY <1>2, <1>5, <1>6, <3>1 DEF Block
  <2> QED
    BY <2>1, <2>2, <2>3
<1>9. Offers(q, 0, a, end)
  <2>1. q.n - 0 = q.n /\ q.start + 0 = q.start
    BY <1>2
  <2>2. q.cmd = "write" => TaskFile(q, a, 0)
    BY <1>3, <1>6, <2>1 DEF TaskFile
  <2>3. q.cmd \notin PioReads /\ q.cmd # "packet_read" /\ q.cmd # "read" /\ CommandOf(q) = q.cmd
    BY <1>1, <1>2 DEF WriteCommands, PioReads, ReadCommands, Packets, CommandOf
  <2>4. end \in 1 .. q.n - 0 /\ end \in 0 + 1 .. 0 + end /\ 0 + end = end
    BY <1>2, <1>5
  <2> QED
    BY <1>1, <1>4, <1>6, <2>2, <2>3, <2>4 DEF Offers
<1>10. MultipleSet(q, a) /\ Quiet' /\ ~ dma_active'
  BY <1>0, <1>1, <1>6, QuietKept DEF MultipleSet
<1> QED
  BY <1>0, <1>1, <1>2, <1>7, <1>8, <1>9, <1>10, IssueQuiet

LEMMA DmaIssue ==
  ASSUME NEW q, NEW r, Issuing(q, r), Regs, Ios, CommandDma(q.drive, q.cmd)
  PROVE  DriverInv' /\ mem' = mem
<1> DEFINE d == q.drive
           a == [Issued(d, q.cmd) EXCEPT !.status = "drq"]
<1>0. /\ q \in Requests /\ d \in Drives /\ r \in DriveState /\ r = drive[d] /\ Quiet
      /\ MultipleSet(q, r) /\ Programmed(q, r)
  BY DEF Issuing
<1>1. /\ d \notin Empty /\ q.cmd \in DmaCommands /\ InDisk(r)
      /\ SetDrive(d, a) /\ UNCHANGED <<ios, mem>>
  BY <1>0 DEF CommandDma, Accepts
<1>2. q.cmd \notin Packets /\ q.n \in 1 .. CountWrap /\ q.start \in Nat /\ q.n \in Nat /\ AfterIssue(q) = "start"
  BY <1>0, <1>1, RequestFacts, Kinds DEF AfterIssue
<1>3. r.lba = q.start /\ r.count = CountOf(q.n) /\ NumSectors(r) = q.n
  BY <1>0, <1>2, SectorsAsked DEF Programmed
<1>4. WithinDisk(q)
  BY <1>1, <1>3 DEF InDisk, WithinDisk
<1>6. /\ a.status = "drq" /\ a.cmd = q.cmd /\ a.lba = r.lba /\ a.count = r.count /\ a.multiple = r.multiple
  BY <1>0, IssuedFields
<1>7. drive' = [drive EXCEPT ![d] = a]
  BY <1>1 DEF SetDrive
<1> HIDE DEF a
<1>8. DmaReady(q, a)
  <2>1. q.n - 0 = q.n /\ q.start + 0 = q.start
    BY <1>2
  <2> QED
    BY <1>1, <1>3, <1>4, <1>6, <2>1 DEF DmaReady, TaskFile
<1>9. MultipleSet(q, a) /\ Quiet' /\ q.cmd \in BusMaster
  BY <1>0, <1>1, <1>6, QuietKept DEF MultipleSet, BusMaster
<1> QED
  BY <1>0, <1>1, <1>2, <1>7, <1>8, <1>9, IssueQuiet

LEMMA PacketIssue ==
  ASSUME NEW q, NEW r, Issuing(q, r), Regs, q.cmd \in Packets, CommandPacket(q.drive)
  PROVE  DriverInv' /\ mem' = mem
<1> DEFINE d == q.drive
           b == DataAllocate(Issued(d, "packet"), 1)
           a == [b EXCEPT !.status = "drq", !.end = 1, !.data = None]
<1>0. /\ q \in Requests /\ d \in Drives /\ r \in DriveState /\ r = drive[d] /\ Quiet
      /\ MultipleSet(q, r) /\ Programmed(q, r) /\ ~ dma_active
  BY DEF Issuing
<1>1. d \in Cds /\ AfterIssue(q) = "wait"
  BY <1>0, RequestFacts, Kinds DEF AfterIssue
<1>2. d \notin Empty /\ drive' = [drive EXCEPT ![d] = a] /\ UNCHANGED <<ios, dma_active, mem>>
  BY <1>1 DEF CommandPacket, Accepts, SetDrive
<1>3. /\ a.status = "drq" /\ a.cmd = "packet" /\ a.ptr = 0 /\ a.end = 1 /\ a.data = None
      /\ a.lba = r.lba /\ a.multiple = r.multiple
  BY <1>0, IssuedFields DEF DataAllocate
<1> HIDE DEF a
<1>4. AskedForPacket(q, a) /\ MultipleSet(q, a)
  BY <1>0, <1>2, <1>3 DEF AskedForPacket, Programmed, MultipleSet
<1>5. Quiet' /\ ~ dma_active'
  BY <1>0, <1>2, QuietKept
<1> QED
  BY <1>0, <1>1, <1>2, <1>4, <1>5, IssueQuiet

LEMMA IdentifyIssue ==
  ASSUME NEW q, NEW r, Issuing(q, r), Regs, q.cmd = "identify", CommandIdentify(q.drive)
  PROVE  DriverInv' /\ mem' = mem
<1> DEFINE d == q.drive
           b == DataAllocate(Issued(d, "identify"), 1)
           a == [b EXCEPT !.status = "drq", !.end = 1, !.data = None]
<1>0. /\ q \in Requests /\ d \in Drives /\ r \in DriveState /\ r = drive[d] /\ Quiet
      /\ MultipleSet(q, r) /\ ~ dma_active
  BY DEF Issuing
<1>1. d = "master" /\ q.n = 1 /\ AfterIssue(q) = "wait"
  BY <1>0, RequestFacts DEF AfterIssue, DmaCommands, WriteCommands
<1>2. d \notin Empty /\ drive' = [drive EXCEPT ![d] = a] /\ UNCHANGED <<ios, dma_active, mem>>
  BY <1>1 DEF CommandIdentify, Accepts, SetDrive
<1>3. /\ a.status = "drq" /\ a.cmd = "identify" /\ a.ptr = 0 /\ a.end = 1 /\ a.len = 1
      /\ a.multiple = r.multiple
  BY <1>0, IssuedFields DEF DataAllocate
<1> HIDE DEF a
<1>4. Offers(q, 0, a, 1)
  BY <1>1, <1>2, <1>3 DEF Offers, PioReads, ReadCommands, WriteCommands, CommandOf, Packets, MultipleWrites
<1>5. Quiet' /\ ~ dma_active' /\ Block(q, 0, a) = 1 /\ MultipleSet(q, a)
  BY <1>0, <1>2, <1>3, QuietKept DEF Block, Packets, MultipleSet
<1> QED
  BY <1>0, <1>1, <1>2, <1>4, <1>5, IssueQuiet

LEMMA ResetIssue ==
  ASSUME NEW q, NEW r, Issuing(q, r), Regs, q.cmd = "reset", CommandReset(q.drive)
  PROVE  DriverInv' /\ mem' = mem
<1> DEFINE d == q.drive
           b == [Issued(d, "reset") EXCEPT !.ptr = 0, !.end = 0, !.len = 0]
           a == Reset(b, d \in Cds)
<1>0. d \in Drives /\ Quiet /\ d \notin Empty /\ SetDrive(d, a) /\ UNCHANGED <<dma_active, mem>>
  BY DEF Issuing, CommandReset, Accepts
<1>1. a.cmd = "reset"
  BY <1>0, IssuedFields DEF Reset
<1>2. Quiet'
  BY <1>0 DEF CommandReset, CancelIo, Quiet
<1> HIDE DEF a
<1> QED
  BY <1>0, <1>1, <1>2, PlainIssue

LEMMA PlainIssues ==
  ASSUME NEW q, NEW r, Issuing(q, r), Regs, NEW cmd, cmd = CommandOf(q),
         \/ cmd = "nondata" /\ (CommandNondata(q.drive) \/ CommandNativeMax(q.drive))
         \/ cmd = "unsupported" /\ CommandUnsupported(q.drive)
         \/ cmd = "set_multiple" /\ CommandSetMultiple(q.drive)
  PROVE  DriverInv' /\ mem' = mem
<1> DEFINE d == q.drive
           i == Issued(d, cmd)
<1>0. q \in Requests /\ d \in Drives /\ Quiet
  BY DEF Issuing
<1>1. q.cmd = cmd /\ cmd \in {"nondata", "unsupported", "set_multiple"}
  BY <1>0, CommandsOf
<1>2. /\ [i EXCEPT !.status = "ready"].cmd = cmd
      /\ [i EXCEPT !.status = "ready", !.lba = Sectors - 1].cmd = cmd
      /\ [i EXCEPT !.status = "abort"].cmd = cmd
      /\ [i EXCEPT !.status = "ready", !.multiple = drive[d].count].cmd = cmd
  BY <1>0, IssuedFields
<1>3. PICK a : SetDrive(d, a) /\ a.cmd = cmd /\ UNCHANGED <<ios, dma_active, mem>> /\ d \notin Empty
  BY <1>1, <1>2 DEF CommandNondata, CommandNativeMax, CommandUnsupported, CommandSetMultiple, Accepts
<1>4. Quiet'
  BY <1>0, <1>3, QuietKept
<1> QED
  BY <1>1, <1>3, <1>4, PlainIssue

LEMMA AbortedIssue ==
  ASSUME NEW q, NEW r, Issuing(q, r), Regs, CommandAborted(q.drive)
  PROVE  DriverInv' /\ mem' = mem
<1> DEFINE d == q.drive
           a == [drive[d] EXCEPT !.status = "abort"]
<1>0. /\ q \in Requests /\ d \in Drives /\ r \in DriveState /\ r = drive[d] /\ Quiet
      /\ MultipleSet(q, r) /\ ~ dma_active /\ NoneOfEmpty
  BY DEF Issuing
<1>1. d \in Empty /\ drive' = [drive EXCEPT ![d] = a] /\ UNCHANGED <<ios, dma_active, mem>>
  BY DEF CommandAborted, SetDrive
<1>2. a.status = "abort" /\ a.cmd = None /\ a.multiple = r.multiple
  BY <1>0, <1>1 DEF DriveState, NoneOfEmpty
<1> HIDE DEF a
<1>3. Refused(q, a) /\ MultipleSet(q, a)
  BY <1>0, <1>1, <1>2 DEF Refused, MultipleSet
<1>4. Quiet' /\ ~ dma_active'
  BY <1>0, <1>1, QuietKept
<1>5. AfterIssue(q) = "start" => q.cmd \in BusMaster
  BY DEF AfterIssue, BusMaster
<1> QED
  BY <1>1, <1>2, <1>3, <1>4, <1>5, IssueQuiet

LEMMA IssueInv ==
  ASSUME Regs, Ios, DriverInv, Issue
  PROVE  DriverInv' /\ mem' = mem /\ wrote' = wrote
<1> DEFINE q == req
           r == drive[q.drive]
           cmd == CommandOf(q)
<1>1. pc = "command" /\ CommandStep(q.drive, cmd) /\ pc' = AfterIssue(q)
      /\ UNCHANGED <<req, taken, left>>
  BY DEF Issue, Goto, AfterIssue
<1>2. Elsewhere
  <2>1. q.drive \in Drives
    BY <1>1, AtWork
  <2> QED
    BY <1>1, <2>1, CommandTypes
<1>3. Issuing(q, r) /\ q \in Requests
  <2>1. /\ q \in Requests /\ q.drive \in Drives /\ selected = q.drive /\ r \in DriveState
        /\ MultipleSet(q, r)
        /\ Phase("command", q, taken, left, r, mem, Quiet)
        /\ BusMasterOff("command", q, r, dma_start, dma_active)
        /\ taken \in Nat /\ left \in Nat /\ NoneOfEmpty
    BY <1>1, AtWork
  <2>2. taken = 0 /\ Quiet /\ Programmed(q, r)
    BY <2>1 DEF Phase
  <2>3. ~ dma_start /\ ~ dma_active
    BY <2>1 DEF BusMasterOff
  <2> QED
    BY <1>1, <1>2, <2>1, <2>2, <2>3 DEF Issuing, Elsewhere
<1>w. wrote' = wrote
  BY <1>2 DEF Elsewhere
<1>c. /\ cmd = "packet" <=> q.cmd \in Packets
      /\ cmd # "packet" => cmd = q.cmd
  BY <1>3, CommandsOf
<1> HIDE DEF q, r, cmd
<1>4. CASE CommandAborted(q.drive)
  BY <1>3, <1>4, <1>w, AbortedIssue
<1>5. CASE cmd = "reset" /\ CommandReset(q.drive)
  BY <1>3, <1>5, <1>c, <1>w, ResetIssue
<1>6. CASE \/ cmd = "nondata" /\ (CommandNondata(q.drive) \/ CommandNativeMax(q.drive))
           \/ cmd = "unsupported" /\ CommandUnsupported(q.drive)
           \/ cmd = "set_multiple" /\ CommandSetMultiple(q.drive)
  BY <1>3, <1>6, <1>w, PlainIssues DEF cmd
<1>7. CASE cmd = "packet" /\ CommandPacket(q.drive)
  BY <1>3, <1>7, <1>c, <1>w, PacketIssue
<1>8. CASE cmd = "identify" /\ CommandIdentify(q.drive)
  BY <1>3, <1>8, <1>c, <1>w, IdentifyIssue
<1>9. CASE cmd # "packet" /\ (OutsideOfDisk(q.drive, cmd) \/ CommandRead(q.drive, cmd)
                               \/ CommandWrite(q.drive, cmd) \/ CommandDma(q.drive, cmd))
  <2>1. cmd = q.cmd
    BY <1>9, <1>c
  <2>2. CASE OutsideOfDisk(q.drive, cmd)
    <3>1. /\ q.cmd \in DiskCommands /\ q.drive \notin Empty
          /\ SetDrive(q.drive, [Issued(q.drive, q.cmd) EXCEPT !.status = "fault"])
          /\ UNCHANGED <<ios, dma_active, mem>>
      BY <2>1, <2>2 DEF OutsideOfDisk, Accepts, DiskCommands
    <3> QED
      BY <1>3, <1>w, <3>1, OutOfDisk
  <2>3. CASE CommandRead(q.drive, cmd)
    BY <1>3, <1>w, <2>1, <2>3, ReadIssue
  <2>4. CASE CommandWrite(q.drive, cmd)
    BY <1>3, <1>w, <2>1, <2>4, WriteIssue
  <2>5. CASE CommandDma(q.drive, cmd)
    BY <1>3, <1>w, <2>1, <2>5, DmaIssue
  <2> QED
    BY <1>9, <2>2, <2>3, <2>4, <2>5
<1>10. "packet" \notin DiskCommands
  BY Kinds
<1>11. CASE cmd = "packet" /\ (OutsideOfDisk(q.drive, cmd) \/ CommandRead(q.drive, cmd)
                               \/ CommandWrite(q.drive, cmd) \/ CommandDma(q.drive, cmd))
  BY <1>10, <1>11 DEF OutsideOfDisk, CommandRead, CommandWrite, CommandDma, DiskCommands
<1> QED
  <2>1. CommandStep(q.drive, cmd)
    BY <1>1 DEF q, cmd
  <2> QED
    BY <2>1, <1>4, <1>5, <1>6, <1>7, <1>8, <1>9, <1>11 DEF CommandStep

-----------------------------------------------------------------------------
(* The steps that move on, with the registers as they are.                 *)

LEMMA QuietPhase ==
  ASSUME NEW p, NEW q, NEW t, NEW k, NEW r, NEW m, NEW a, NEW b, a <=> b, Phase(p, q, t, k, r, m, a)
  PROVE  Phase(p, q, t, k, r, m, b)
  BY DEF Phase, Started, Waiting

LEMMA Moves ==
  ASSUME Regs, DriverInv, pc # "idle", NEW p \in Pcs \ {"idle"}, NEW k \in Nat,
         pc' = p, left' = k, UNCHANGED <<req, taken, drive, selected, prdt, mem, ios>>,
         Phase(p, req, taken, k, drive[req.drive], mem, Quiet),
         BusMasterOff(p, req, drive[req.drive], dma_start', dma_active')
  PROVE  DriverInv'
<1>q. PICK q, t, r : q = req /\ t = taken /\ r = drive[q.drive]
  OBVIOUS
<1>1. /\ q \in Requests /\ selected' = q.drive /\ MultipleSet(q, r) /\ OnlyWanted(q)
      /\ t \in Nat /\ NoneOfEmpty /\ req' = q /\ taken' = t /\ drive'[q.drive] = r /\ prdt' = prdt
      /\ pc' = p /\ left' = k /\ mem' = mem
  BY <1>q, AtWork
<1>2. NoneOfEmpty'
  BY <1>1 DEF NoneOfEmpty
<1>3. OnlyWanted(q)' /\ (Quiet' <=> Quiet)
  BY <1>1, QuietKept
<1>4. Phase(p, q, t, k, r, mem, Quiet')
  BY <1>3, <1>q, QuietPhase
<1>5. BusMasterOff(p, q, r, dma_start', dma_active')
  BY <1>q
<1> QED
  BY <1>1, <1>2, <1>3, <1>4, <1>5, Becomes

LEMMA NotNone ==
  /\ \A n \in Nat : n # None
  /\ "packet" # None /\ "read_dma" # None /\ "write_dma" # None
  BY NoneAssumption, NoCommandIsNone DEF Commands, DmaCommands

LEMMA InterruptedInv ==
  ASSUME Regs, Ios, DriverInv, Interrupted
  PROVE  DriverInv' /\ UNCHANGED <<mem, wrote>>
<1> DEFINE q == req
           t == taken
           r == drive[q.drive]
<1>1. /\ pc = "wait" /\ UNCHANGED <<req, taken, drive, selected, prdt, dma_start, dma_active, mem, wrote, ios>>
      /\ pc' = IF BsySet(r.status) THEN "wait"
               ELSE IF r.status # "drq" THEN IF q.cmd \in BusMaster THEN "stop" ELSE "done"
               ELSE IF r.cmd = "packet" /\ r.data = None THEN "packet"
               ELSE IF q.cmd \in PioReads \cup WriteCommands THEN "transfer" ELSE "wait"
      /\ left' = IF pc' = "transfer" THEN BlockSize(r) ELSE 0
  BY DEF Interrupted, ReadStatus, registers, history
<1>2. /\ q \in Requests /\ t \in Nat /\ NoneOfEmpty
      /\ Waiting(q, t, r, mem, Quiet)
      /\ BusMasterOff("wait", q, r, dma_start, dma_active)
  <2>1. pc # "idle" /\ Phase(pc, req, taken, left, drive[req.drive], mem, Quiet)
    BY <1>1, AtWork
  <2> QED
    BY <1>1, <2>1, AtWork DEF Phase
<1>3. BlockSize(r) = Block(q, t, r)
  BY DEF BlockSize, Block
<1>f. q.start \in Nat /\ q.n \in Nat
  BY <1>2, RequestFacts
<1>p. PICK p, k : p = pc' /\ k = left'
  OBVIOUS
<1> SUFFICES /\ p \in Pcs \ {"idle"} /\ k \in Nat
             /\ Phase(p, q, t, k, r, mem, Quiet)
             /\ BusMasterOff(p, q, r, dma_start, dma_active)
  <2>1. BusMasterOff(p, q, r, dma_start', dma_active')
    BY <1>1
  <2> QED
    BY <1>1, <1>p, <2>1, Moves
<1> HIDE DEF q, t, r
<1> USE NotNone
<1>4. p \in {"wait", "stop"} => BusMasterOff(p, q, r, dma_start, dma_active)
  BY <1>2 DEF BusMasterOff
<1>5. p \in {"transfer", "done"} /\ q.cmd \notin BusMaster => BusMasterOff(p, q, r, dma_start, dma_active)
  BY <1>2 DEF BusMasterOff
<1>6. p = "packet" /\ AskedForPacket(q, r) => BusMasterOff(p, q, r, dma_start, dma_active)
  BY <1>2 DEF BusMasterOff
<1>7. {"wait", "packet", "transfer", "stop", "done"} \subseteq Pcs \ {"idle"}
  BY DEF Pcs
<1>8. CASE Quiet /\ Refused(q, r)
  <2>1. CASE r.status = "fault"
    <3>1. p = "wait" /\ k = 0
      BY <1>1, <1>p, <2>1 DEF BsySet
    <3>2. Phase("wait", q, t, 0, r, mem, Quiet)
      BY <1>8 DEF Phase, Waiting
    <3> QED
      BY <1>4, <1>7, <3>1, <3>2
  <2>2. CASE r.status # "fault"
    <3>1. r.status = "abort" /\ q.drive \in Empty
      BY <1>8, <2>2 DEF Refused
    <3>2. p = (IF q.cmd \in BusMaster THEN "stop" ELSE "done") /\ k = 0
      BY <1>1, <1>p, <3>1 DEF BsySet
    <3>3. Phase(p, q, t, 0, r, mem, Quiet)
      BY <1>8, <3>1, <3>2 DEF Phase
    <3> QED
      BY <1>4, <1>5, <1>7, <3>2, <3>3
  <2> QED
    BY <2>1, <2>2
<1>9. CASE Quiet /\ q.cmd \notin Transfers /\ r.cmd # "packet" /\ ~ Refused(q, r)
  <2>0. q.cmd \notin PioReads /\ q.cmd \notin WriteCommands /\ q.cmd \notin BusMaster
    BY <1>9 DEF Transfers
  <2>1. CASE BsySet(r.status) \/ r.status = "drq"
    <3>1. p = "wait" /\ k = 0
      BY <1>1, <1>p, <1>9, <2>0, <2>1
    <3>2. Phase("wait", q, t, 0, r, mem, Quiet)
      BY <1>9 DEF Phase, Waiting
    <3> QED
      BY <1>4, <1>7, <3>1, <3>2
  <2>2. CASE ~ (BsySet(r.status) \/ r.status = "drq")
    <3>1. p = "done" /\ k = 0
      BY <1>1, <1>p, <1>9, <2>0, <2>2
    <3>2. q.drive \in Empty \/ Complete(q, t, r, mem)
      BY <2>0 DEF Complete, PioReads, BusMaster, DmaCommands, Packets, ReadCommands, WriteCommands
    <3>3. Phase("done", q, t, 0, r, mem, Quiet)
      BY <1>9, <3>2 DEF Phase
    <3> QED
      BY <1>5, <1>7, <2>0, <3>1, <3>3
  <2> QED
    BY <2>1, <2>2
<1>10. CASE ~ Quiet /\ t = 0 /\ Awaits(q, r)
  <2>1. p = "wait" /\ k = 0
    BY <1>1, <1>p, <1>10
       DEF Awaits, BsySet, PioReads, ReadCommands, WriteCommands, Packets
  <2>2. Phase("wait", q, t, 0, r, mem, Quiet)
    BY <1>10 DEF Phase, Waiting
  <2> QED
    BY <1>4, <1>7, <2>1, <2>2
<1>11. CASE Quiet /\ t = 0 /\ AskedForPacket(q, r)
  <2>1. p = "packet" /\ k = 0
    BY <1>1, <1>p, <1>11 DEF AskedForPacket, BsySet
  <2>2. Phase("packet", q, t, 0, r, mem, Quiet)
    BY <1>11 DEF Phase
  <2> QED
    BY <1>6, <1>7, <1>11, <2>1, <2>2
<1>12. CASE Quiet /\ Offers(q, t, r, Block(q, t, r))
  <2>1. /\ r.status = "drq" /\ Block(q, t, r) \in Nat /\ q.cmd \in PioReads \cup WriteCommands
        /\ q.cmd \notin BusMaster
    BY <1>2, <1>12, <1>f
       DEF Offers, PioReads, WriteCommands, BusMaster, DmaCommands, Packets, ReadCommands
  <2>2. r.cmd = "packet" => r.data # None
    BY <1>12, <1>f, Kinds
       DEF Offers, CommandOf, PioReads, WriteCommands, ReadCommands, Packets
  <2>3. p = "transfer" /\ k = Block(q, t, r)
    BY <1>1, <1>3, <1>p, <2>1, <2>2 DEF BsySet
  <2>4. Phase("transfer", q, t, k, r, mem, Quiet)
    BY <1>12, <2>3 DEF Phase
  <2> QED
    BY <1>5, <1>7, <2>1, <2>3, <2>4
<1>13. CASE Quiet /\ PacketReady(q, r)
  <2>1. p = "wait" /\ k = 0
    BY <1>1, <1>p, <1>13, <1>f
       DEF PacketReady, BsySet, PioReads, ReadCommands, WriteCommands
  <2>2. Phase("wait", q, t, 0, r, mem, Quiet)
    BY <1>13 DEF Phase, Waiting
  <2> QED
    BY <1>4, <1>7, <2>1, <2>2
<1>14. CASE Quiet /\ Completed(q, t, r, mem)
  <2>1. p = (IF q.cmd \in BusMaster THEN "stop" ELSE "done") /\ k = 0
    BY <1>1, <1>p, <1>14 DEF BsySet, Completed
  <2>2. Phase(p, q, t, 0, r, mem, Quiet)
    BY <1>14, <2>1 DEF Phase, Completed
  <2> QED
    BY <1>4, <1>5, <1>7, <2>1, <2>2
<1> QED
  BY <1>2, <1>8, <1>9, <1>10, <1>11, <1>12, <1>13, <1>14 DEF Waiting

LEMMA PollInv ==
  ASSUME Regs, Ios, DriverInv, Poll
  PROVE  DriverInv' /\ UNCHANGED <<mem, wrote>>
<1> DEFINE q == req
           t == taken
           r == drive[q.drive]
           k == BlockSize(r)
<1>1. /\ pc = "poll" /\ r.status = "drq" /\ pc' = "transfer" /\ left' = k
      /\ UNCHANGED <<req, taken, drive, selected, prdt, dma_start, dma_active, mem, wrote, ios>>
  BY DEF Poll, vars, registers, history
<1>2. /\ q \in Requests /\ t \in Nat
      /\ Phase("poll", q, t, left, r, mem, Quiet)
      /\ BusMasterOff("poll", q, r, dma_start, dma_active)
  BY <1>1, AtWork
<1>3. k = Block(q, t, r)
  BY DEF BlockSize, Block
<1>4. Offers(q, t, r, k) /\ Quiet
  BY <1>1, <1>2, <1>3 DEF Phase, Refused
<1>5. k \in Nat
  <2>1. q.n \in Nat
    BY <1>2, RequestFacts
  <2> HIDE DEF k
  <2> QED
    BY <1>2, <1>4, <2>1 DEF Offers
<1> HIDE DEF k
<1>6. Phase("transfer", q, t, k, r, mem, Quiet)
  BY <1>4 DEF Phase
<1>7. BusMasterOff("transfer", q, r, dma_start', dma_active') /\ "transfer" \in Pcs \ {"idle"}
  BY <1>1, <1>2 DEF BusMasterOff, Pcs
<1> QED
  BY <1>1, <1>5, <1>6, <1>7, Moves

LEMMA StopInv ==
  ASSUME Regs, Ios, DriverInv, StopDma
  PROVE  DriverInv' /\ UNCHANGED <<mem, wrote>>
<1> DEFINE r == drive[req.drive]
<1>1. /\ pc = "stop" /\ pc' = "done" /\ dma_start' = FALSE /\ dma_active' = FALSE
      /\ UNCHANGED <<req, taken, left, drive, selected, prdt, mem, wrote, ios>>
  BY DEF StopDma, DmaStop, Goto, history
<1>2. left \in Nat /\ Phase("stop", req, taken, left, r, mem, Quiet)
  BY <1>1, AtWork
<1>3. Phase("done", req, taken, left, r, mem, Quiet)
  BY <1>2 DEF Phase
<1>4. BusMasterOff("done", req, r, dma_start', dma_active') /\ "done" \in Pcs \ {"idle"}
  BY <1>1 DEF BusMasterOff, Pcs
<1> QED
  BY <1>1, <1>2, <1>3, <1>4, Moves

LEMMA TimeoutInv ==
  ASSUME Regs, Ios, DriverInv, Timeout
  PROVE  DriverInv' /\ UNCHANGED <<mem, wrote>>
<1> DEFINE q == req
           r == drive[q.drive]
           p == IF dma_start THEN "abort" ELSE "reset"
<1>1. /\ \/ pc \in {"wait", "poll"}
         \/ pc = "start" /\ BsySet(r.status)
      /\ pc' = p
      /\ UNCHANGED <<req, taken, left, drive, selected, prdt, dma_start, dma_active, mem, wrote, ios>>
  BY DEF Timeout, Goto, vars, registers, history
<1>2. /\ left \in Nat /\ Phase(pc, q, taken, left, r, mem, Quiet)
      /\ BusMasterOff(pc, q, r, dma_start, dma_active)
  BY <1>1, AtWork
<1>3. Quiet \/ Awaits(q, r)
  BY <1>1, <1>2 DEF Phase, Started, Waiting
<1>4. Phase(p, q, taken, left, r, mem, Quiet)
  BY <1>3 DEF Phase
<1>5. dma_active => dma_start
  BY <1>1, <1>2 DEF BusMasterOff, DmaReady, BsySet
<1>6. BusMasterOff(p, q, r, dma_start', dma_active')
  BY <1>1, <1>2, <1>5 DEF BusMasterOff
<1>7. p \in Pcs \ {"idle"}
  BY DEF Pcs
<1> HIDE DEF p
<1> QED
  BY <1>1, <1>2, <1>4, <1>6, <1>7, Moves

LEMMA AbortInv ==
  ASSUME Regs, Ios, DriverInv, Abort
  PROVE  DriverInv' /\ UNCHANGED <<mem, wrote>>
<1> DEFINE r == drive[req.drive]
<1>1. /\ pc = "abort" /\ pc' = "reset" /\ dma_start' = FALSE /\ dma_active' = FALSE
      /\ UNCHANGED <<req, taken, left, drive, selected, prdt, mem, wrote, ios>>
  BY DEF Abort, DmaStop, Goto, history
<1>2. left \in Nat /\ Phase("abort", req, taken, left, r, mem, Quiet)
  BY <1>1, AtWork
<1>3. Phase("reset", req, taken, left, r, mem, Quiet)
  BY <1>2 DEF Phase
<1>4. BusMasterOff("reset", req, r, dma_start', dma_active') /\ "reset" \in Pcs \ {"idle"}
  BY <1>1 DEF BusMasterOff, Pcs
<1> QED
  BY <1>1, <1>2, <1>3, <1>4, Moves

\* The steps after which the driver has no request.
LEMMA DoneInv ==
  ASSUME Regs, Ios, DriverInv, Done
  PROVE  DriverInv' /\ UNCHANGED <<mem, wrote>>
<1>1. /\ pc = "done" /\ pc' = "idle" /\ taken' = 0 /\ left' = 0
      /\ UNCHANGED <<drive, dma_start, dma_active, mem, wrote, ios>>
  BY DEF Done, ClearDmaStatus, history
<1>2. /\ Phase("done", req, taken, left, drive[req.drive], mem, Quiet) /\ NoneOfEmpty
      /\ BusMasterOff("done", req, drive[req.drive], dma_start, dma_active)
  BY <1>1, AtWork
<1>3. Quiet' /\ ~ dma_start' /\ ~ dma_active'
  BY <1>1, <1>2, QuietKept DEF Phase, BusMasterOff
<1>4. NoneOfEmpty'
  BY <1>1, <1>2 DEF NoneOfEmpty
<1> QED
  BY <1>1, <1>3, <1>4 DEF DriverInv

LEMMA ResetInv ==
  ASSUME Regs, Ios, DriverInv, ResetChannel
  PROVE  DriverInv' /\ UNCHANGED <<mem, wrote>>
<1>1. /\ pc = "reset" /\ pc' = "idle" /\ taken' = 0 /\ left' = 0
      /\ drive' = [d \in Drives |-> Reset(drive[d], d \in Cds)]
      /\ CancelIo(Drives)
      /\ UNCHANGED <<dma_start, dma_active, mem, wrote>>
  BY DEF ResetChannel, ControlReset, history
<1>2. /\ NoneOfEmpty /\ BusMasterOff("reset", req, drive[req.drive], dma_start, dma_active)
  BY <1>1, AtWork
<1>3. Quiet' /\ ~ dma_start' /\ ~ dma_active'
  BY <1>1, <1>2 DEF CancelIo, Quiet, BusMasterOff
<1>4. NoneOfEmpty'
  <2>1. \A d \in Empty : d \in Drives /\ drive[d] \in DriveState
    BY DriveAssumption DEF Regs
  <2>2. \A d \in Empty : Reset(drive[d], d \in Cds).cmd = drive[d].cmd
    BY <2>1 DEF Reset, DriveState
  <2> QED
    BY <1>1, <1>2, <2>1, <2>2 DEF NoneOfEmpty
<1> QED
  BY <1>1, <1>3, <1>4 DEF DriverInv

-----------------------------------------------------------------------------
(* The steps that move data.                                               *)

\* A step that touches the registers of the drive at work.
LEMMA Touches ==
  ASSUME Regs, DriverInv, pc # "idle", NEW q, q = req, req' = q, q.drive \notin Empty,
         NEW p \in Pcs \ {"idle"}, NEW t \in Nat, NEW k \in Nat, NEW m, NEW a, NEW quiet \in BOOLEAN,
         pc' = p, taken' = t, left' = k, mem' = m, selected' = selected,
         drive' = [drive EXCEPT ![q.drive] = a], MultipleSet(q, a),
         quiet <=> Quiet', OnlyWanted(q)', Phase(p, q, t, k, a, m, quiet),
         BusMasterOff(p, q, a, dma_start', dma_active')
  PROVE  DriverInv'
<1>1. q \in Requests /\ q.drive \in Drives /\ selected = q.drive /\ NoneOfEmpty
  BY AtWork
<1>2. drive'[q.drive] = a /\ NoneOfEmpty'
  BY <1>1, DriveTouched
<1>3. Phase(p, q, t, k, a, m, Quiet')
  BY QuietPhase
<1> QED
  BY <1>1, <1>2, <1>3, Becomes

\* A read of the image, on registers r: its answer is there, or awaited.
LEMMA ReadBegins ==
  ASSUME Regs, Ios, Quiet, NEW q \in Requests, q.drive \notin Empty, NEW r \in DriveState,
         NEW c \in Calls, Wanted(q, prdt, c), Awaits(q, r), MultipleSet(q, r),
         NEW line, ReadBuffer(q.drive, r, c, line), prdt' = prdt
  PROVE  /\ OnlyWanted(q)'
         /\ mem' # mem => /\ q.cmd \in {"read_dma", "packet_dma"}
                          /\ mem' = [start |-> q.start, n |-> q.n]
                          /\ q.cmd = "packet_dma" => dma_active
         /\ dma_active' = dma_active \/ dma_active' = FALSE
         /\ \/ Quiet' /\ \E a : drive' = [drive EXCEPT ![q.drive] = a] /\ Answered(q, a, mem')
            \/ ~ Quiet' /\ drive' = [drive EXCEPT ![q.drive] = r] /\ mem' = mem
<1>0. q.drive \in Drives
  BY RequestFacts
<1>1. CASE Arrive(q.drive, r, c, line, TRUE) /\ UNCHANGED ios
  <2>1. Quiet'
    BY <1>1, QuietKept
  <2>2. OnlyWanted(q)'
    BY <2>1 DEF Quiet, OnlyWanted
  <2> QED
    BY <1>1, <2>1, <2>2, ArrivalAnswers
<1>2. CASE /\ StartCall(q.drive, c)
           /\ drive' = [drive EXCEPT ![q.drive] = r]
           /\ UNCHANGED <<dma_active, mem>>
  BY <1>0, <1>2, StartWanted
<1> QED
  BY <1>1, <1>2 DEF ReadBuffer

LEMMA SendPacketInv ==
  ASSUME Regs, Ios, DriverInv, SendPacket
  PROVE  DriverInv' /\ UNCHANGED <<mem, wrote>>
<1>q. PICK q, d, r : q = req /\ d = q.drive /\ r = drive[d]
  OBVIOUS
<1>1. /\ pc = "packet" /\ UNCHANGED <<req, taken, left>>
      /\ \/ q.cmd = "packet_dma" /\ PacketReadDma(d, q.start, q.n) /\ pc' = "start"
         \/ q.cmd # "packet_dma" /\ PacketRead(d, q.start, q.n) /\ pc' = "wait"
  BY <1>q DEF SendPacket, Goto
<1>2. /\ q \in Requests /\ d \in Drives /\ r \in DriveState /\ MultipleSet(q, r)
      /\ taken = 0 /\ left \in Nat /\ Quiet /\ AskedForPacket(q, r)
      /\ ~ dma_start /\ ~ dma_active
  <2>1. /\ Phase("packet", q, taken, left, r, mem, Quiet)
        /\ BusMasterOff("packet", q, r, dma_start, dma_active)
    BY <1>1, <1>q, AtWork
  <2> QED
    BY <1>1, <1>q, <2>1, AtWork DEF Phase, BusMasterOff
<1>3. /\ q.start \in Nat /\ q.n \in Nat /\ q.n >= 1 /\ q.limit \in Nat /\ WithinDisk(q)
      /\ Sectors \in Nat /\ q.start < Sectors /\ Least(q.n, Sectors - q.start) = q.n
      /\ q.cmd \in Packets /\ d \notin Empty
  <2>1. q.cmd \in Packets /\ d \notin Empty
    BY <1>q, <1>2 DEF AskedForPacket
  <2>2. /\ q.start \in Nat /\ q.n \in Nat /\ q.n >= 1 /\ q.limit \in Nat /\ WithinDisk(q)
        /\ Sectors \in Nat
    BY <1>2, <2>1, RequestFacts, CountAssumption
  <2> QED
    BY <2>1, <2>2 DEF WithinDisk, Least
<1>a. r.lba = q.limit /\ r.cmd = "packet"
  BY <1>2 DEF AskedForPacket
<1>4. CASE q.cmd = "packet_dma" /\ PacketReadDma(d, q.start, q.n) /\ pc' = "start"
  <2> DEFINE b == [[r EXCEPT !.ptr = 0] EXCEPT !.status = "busy"]
             c == Call("atapi_dma", q.start, q.n)
  <2>1. /\ ReadBuffer(d, b, c, irq)
        /\ UNCHANGED <<selected, dma_start, prdt, wrote>>
    BY <1>3, <1>4, <1>q DEF PacketReadDma
  <2>2. b \in DriveState /\ b.status = "busy" /\ b.cmd = "packet" /\ b.multiple = r.multiple
    BY <1>2, <1>a DEF DriveState, Statuses
  <2>3. c \in Calls /\ c.start = q.start /\ c.n = q.n /\ c.op = "atapi_dma"
    <3>1. c \in Calls
      BY <1>3, CallTypes
    <3> QED
      BY <3>1 DEF Call
  <2> HIDE DEF b, c
  <2>4. Wanted(q, prdt, c) /\ Awaits(q, b) /\ MultipleSet(q, b)
    BY <1>2, <1>4, <2>2, <2>3 DEF Wanted, Awaits, MultipleSet, Packets
  <2>5. /\ OnlyWanted(q)' /\ mem' = mem /\ ~ dma_active'
        /\ \/ Quiet' /\ \E a : drive' = [drive EXCEPT ![d] = a] /\ Answered(q, a, mem')
           \/ ~ Quiet' /\ drive' = [drive EXCEPT ![d] = b] /\ mem' = mem
    BY <1>2, <1>3, <1>q, <2>1, <2>2, <2>3, <2>4, ReadBegins DEF Packets
  <2>m. PICK m : m = mem' /\ m = mem
    BY <2>5
  <2>6. CASE Quiet' /\ \E a : drive' = [drive EXCEPT ![d] = a] /\ Answered(q, a, mem')
    <3>1. PICK a : drive' = [drive EXCEPT ![d] = a] /\ Answered(q, a, m)
      BY <2>6, <2>m
    <3>2. Started(q, a, m, TRUE) /\ MultipleSet(q, a)
      BY <1>4, <3>1 DEF Answered, Offers, Started, PioReads, ReadCommands, WriteCommands, BusMaster, Packets
    <3>3. Phase("start", q, 0, left, a, m, TRUE)
      BY <3>2 DEF Phase
    <3>4. BusMasterOff("start", q, a, dma_start', dma_active') /\ "start" \in Pcs \ {"idle"}
      BY <1>2, <2>1, <2>5 DEF BusMasterOff, Pcs
    <3>5. DriverInv'
      BY <1>1, <1>2, <1>3, <1>4, <1>q, <2>1, <2>5, <2>6, <2>m, <3>1, <3>2, <3>3, <3>4, Touches
    <3> QED
      BY <2>1, <2>5, <3>5
  <2>7. CASE ~ Quiet' /\ drive' = [drive EXCEPT ![d] = b] /\ mem' = mem
    <3>2. Started(q, b, m, FALSE)
      BY <1>4, <2>4 DEF Started, BusMaster, Packets
    <3>3. Phase("start", q, 0, left, b, m, FALSE)
      BY <3>2 DEF Phase
    <3>4. BusMasterOff("start", q, b, dma_start', dma_active') /\ "start" \in Pcs \ {"idle"}
      BY <1>2, <2>1, <2>5 DEF BusMasterOff, Pcs
    <3>5. DriverInv'
      BY <1>1, <1>2, <1>3, <1>4, <1>q, <2>1, <2>4, <2>5, <2>7, <2>m, <3>2, <3>3, <3>4, Touches
    <3> QED
      BY <2>1, <2>5, <3>5
  <2> QED
    BY <2>5, <2>6, <2>7
<1>5. CASE q.cmd # "packet_dma" /\ PacketRead(d, q.start, q.n) /\ pc' = "wait"
  <2>0. q.cmd = "packet_read"
    BY <1>3, <1>5 DEF Packets
  <2> DEFINE b == [[r EXCEPT !.ptr = 0, !.len = 0, !.lba = 0] EXCEPT !.status = "busy"]
             l == Least(q.limit, q.n)
             c == [Call("atapi", q.start, q.n) EXCEPT !.limit = l]
  <2>1. /\ ReadBuffer(d, b, c, irq)
        /\ UNCHANGED <<selected, dma_start, prdt, wrote>>
    <3>1. ~ (q.start >= Sectors) /\ ~ (q.start < Sectors /\ q.n = 0)
      BY <1>3
    <3> QED
      BY <1>3, <1>5, <1>a, <1>q, <3>1 DEF PacketRead
  <2>l. l \in Nat
    BY <1>3, LeastNat
  <2>2. b \in DriveState /\ b.status = "busy" /\ b.cmd = "packet" /\ b.multiple = r.multiple
    BY <1>2, <1>a DEF DriveState, Statuses
  <2> HIDE DEF l
  <2>3. c \in Calls /\ c.start = q.start /\ c.n = q.n /\ c.op = "atapi" /\ c.limit = l
    <3>1. c \in Calls
      BY <1>3, <2>l, CallTypes
    <3> QED
      BY <3>1 DEF Call
  <2> HIDE DEF b, c
  <2>4. Wanted(q, prdt, c) /\ Awaits(q, b) /\ MultipleSet(q, b)
    BY <1>2, <2>0, <2>2, <2>3 DEF Wanted, Awaits, MultipleSet, Packets, l
  <2>5. /\ OnlyWanted(q)' /\ mem' = mem /\ ~ dma_active'
        /\ \/ Quiet' /\ \E a : drive' = [drive EXCEPT ![d] = a] /\ Answered(q, a, mem')
           \/ ~ Quiet' /\ drive' = [drive EXCEPT ![d] = b] /\ mem' = mem
    BY <1>2, <1>3, <1>q, <2>1, <2>2, <2>3, <2>4, ReadBegins DEF Packets
  <2>m. PICK m : m = mem' /\ m = mem
    BY <2>5
  <2>6. CASE Quiet' /\ \E a : drive' = [drive EXCEPT ![d] = a] /\ Answered(q, a, mem')
    <3>1. PICK a : drive' = [drive EXCEPT ![d] = a] /\ Answered(q, a, m)
      BY <2>6, <2>m
    <3>2. Waiting(q, 0, a, m, TRUE) /\ MultipleSet(q, a)
      BY <3>1, AnsweredWaits DEF Answered
    <3>3. Phase("wait", q, 0, left, a, m, TRUE)
      BY <3>2 DEF Phase
    <3>4. BusMasterOff("wait", q, a, dma_start', dma_active') /\ "wait" \in Pcs \ {"idle"}
      BY <1>2, <2>1, <2>5 DEF BusMasterOff, Pcs
    <3>5. DriverInv'
      BY <1>1, <1>2, <1>3, <1>5, <1>q, <2>1, <2>5, <2>6, <2>m, <3>1, <3>2, <3>3, <3>4, Touches
    <3> QED
      BY <2>1, <2>5, <3>5
  <2>7. CASE ~ Quiet' /\ drive' = [drive EXCEPT ![d] = b] /\ mem' = mem
    <3>2. Phase("wait", q, 0, left, b, m, FALSE)
      BY <2>4 DEF Phase, Waiting
    <3>4. BusMasterOff("wait", q, b, dma_start', dma_active') /\ "wait" \in Pcs \ {"idle"}
      BY <1>2, <2>1, <2>5 DEF BusMasterOff, Pcs
    <3>5. DriverInv'
      BY <1>1, <1>2, <1>3, <1>5, <1>q, <2>1, <2>4, <2>5, <2>7, <2>m, <3>2, <3>4, Touches
    <3> QED
      BY <2>1, <2>5, <3>5
  <2> QED
    BY <2>5, <2>6, <2>7
<1> QED
  BY <1>1, <1>4, <1>5

\* What the steps that move data write, and where.
MemoryOf(q) ==
    mem' # mem => q.cmd \in {"read_dma", "packet_dma"} /\ mem'.start = q.start /\ mem'.n = q.n
ImageOf(q) == wrote' # wrote => wrote' = [start |-> q.start, n |-> q.n]

\* The bus master is on, and the driver waits.
LEMMA MasterWaits ==
  ASSUME Regs, DriverInv, pc # "idle", NEW q, q = req, req' = q, q.drive \notin Empty,
         taken' = 0, left' = left, selected' = selected, pc' = "wait", dma_start' = TRUE,
         NEW m, mem' = m, NEW a, drive' = [drive EXCEPT ![q.drive] = a], MultipleSet(q, a),
         NEW quiet \in BOOLEAN, quiet <=> Quiet', OnlyWanted(q)', Waiting(q, 0, a, m, quiet),
         q.cmd \in BusMaster, ~ AskedForPacket(q, a)
  PROVE  DriverInv'
<1>1. Phase("wait", q, 0, left, a, m, quiet)
  BY DEF Phase
<1>2. BusMasterOff("wait", q, a, dma_start', dma_active') /\ "wait" \in Pcs \ {"idle"}
  BY DEF BusMasterOff, Pcs
<1>3. left \in Nat /\ left' = left /\ 0 \in Nat
  BY AtWork
<1> QED
  BY <1>1, <1>2, <1>3, Touches

LEMMA StartDmaInv ==
  ASSUME Regs, Ios, DriverInv, StartDma
  PROVE  /\ DriverInv' /\ MemoryOf(req) /\ ImageOf(req)
         /\ wrote' # wrote => req.cmd = "write_dma"
<1>q. PICK q, d, r : q = req /\ d = q.drive /\ r = drive[d]
  OBVIOUS
<1>1. /\ pc = "start" /\ pc' = "wait" /\ UNCHANGED <<req, taken, left>>
      /\ ~ BsySet(r.status) \/ q.cmd = "packet_dma"
      /\ DmaStartRead(d) \/ DmaStartWrite(d) \/ DmaStartPacket(d)
  BY <1>q DEF StartDma, Goto
<1>s. /\ selected' = selected /\ prdt' = prdt /\ dma_start' = TRUE
      /\ r.cmd \in {"read_dma", "write_dma", "packet"}
      /\ r.cmd = "read_dma" => DmaStartRead(d)
      /\ r.cmd = "write_dma" => DmaStartWrite(d)
      /\ r.cmd = "packet" => DmaStartPacket(d)
  BY <1>1, <1>q DEF DmaStartRead, DmaStartWrite, DmaStartPacket, DmaStart
<1>2. /\ q \in Requests /\ d \in Drives /\ r \in DriveState /\ MultipleSet(q, r) /\ OnlyWanted(q)
      /\ taken = 0 /\ left \in Nat /\ NoneOfEmpty
      /\ Started(q, r, mem, Quiet)
  <2>1. Phase("start", q, taken, left, r, mem, Quiet)
    BY <1>1, <1>q, AtWork
  <2> QED
    BY <1>1, <1>q, <2>1, AtWork DEF Phase
<1>3. /\ q.start \in Nat /\ q.n \in 1 .. CountWrap /\ q.n \in Nat /\ q.cmd \in BusMaster
  BY <1>2, RequestFacts DEF Started
<1>t. taken' = 0 /\ left' = left /\ pc # "idle" /\ req' = q
  BY <1>1, <1>2, <1>q
<1> USE NotNone
<1>m. PICK m : m = mem'
  OBVIOUS
<1>4. CASE Quiet /\ q.cmd \in DmaCommands /\ Refused(q, r)
  <2>1. r.status # "fault"
    BY <1>1, <1>4 DEF BsySet, DmaCommands
  <2>2. d \in Empty
    BY <1>4, <1>q, <2>1 DEF Refused
  <2>3. r.cmd = None
    BY <1>2, <1>q, <2>2 DEF NoneOfEmpty
  <2> QED
    BY <1>s, <2>3
<1>5. CASE Quiet /\ DmaReady(q, r) /\ q.cmd = "read_dma"
  <2> DEFINE c == Call("dma", r.lba, NumSectors(r))
  <2>1. /\ r.cmd = "read_dma" /\ r.status = "drq" /\ WithinDisk(q) /\ TaskFile(q, r, 0) /\ d \notin Empty
    BY <1>5, <1>q DEF DmaReady
  <2>2. q.n - 0 = q.n /\ q.start + 0 = q.start
    BY <1>3
  <2>3. r.lba = q.start /\ NumSectors(r) = q.n
    BY <1>2, <1>3, <2>1, <2>2, SectorsAsked DEF TaskFile
  <2>4. /\ wrote' = wrote
        /\ \/ Arrive(d, r, c, irq, TRUE) /\ UNCHANGED ios
           \/ StartCall(d, c) /\ UNCHANGED <<drive, mem>>
    BY <1>q, <1>s, <2>1 DEF DmaStartRead
  <2>5. c \in Calls /\ c.op = "dma" /\ c.start = q.start /\ c.n = q.n /\ c.prdt = prdt
    <3>1. Call("dma", q.start, q.n) \in Calls
      BY <1>3, CallTypes
    <3> QED
      BY <2>3, <3>1 DEF Call
  <2> HIDE DEF c
  <2>6. Wanted(q, prdt, c) /\ Awaits(q, r) /\ ~ AskedForPacket(q, r)
    BY <1>5, <2>1, <2>5 DEF Wanted, Awaits, AskedForPacket
  <2>7. CASE Arrive(d, r, c, irq, TRUE) /\ UNCHANGED ios
    <3>1. /\ \E a : drive' = [drive EXCEPT ![d] = a] /\ Answered(q, a, mem')
          /\ mem' # mem => mem' = [start |-> q.start, n |-> q.n]
      BY <1>2, <1>q, <2>1, <2>5, <2>6, <2>7, ArrivalAnswers
    <3>2. PICK a : drive' = [drive EXCEPT ![d] = a] /\ Answered(q, a, m)
      BY <1>m, <3>1
    <3>3. Waiting(q, 0, a, m, TRUE) /\ MultipleSet(q, a) /\ ~ AskedForPacket(q, a)
      BY <1>5, <3>2, AnsweredWaits DEF Answered, AskedForPacket, Packets
    <3>4. Quiet' /\ OnlyWanted(q)'
      BY <1>2, <1>5, <1>s, <2>7, QuietKept
    <3>5. DriverInv'
      BY <1>1, <1>3, <1>m, <1>q, <1>s, <1>t, <2>1, <3>2, <3>3, <3>4, MasterWaits
    <3> QED
      BY <1>5, <1>q, <2>4, <3>1, <3>5 DEF MemoryOf, ImageOf
  <2>8. CASE StartCall(d, c) /\ UNCHANGED <<drive, mem>>
    <3>1. OnlyWanted(q)' /\ ~ Quiet'
      BY <1>2, <1>5, <1>q, <1>s, <2>1, <2>6, <2>8, StartWanted
    <3>2. drive' = [drive EXCEPT ![d] = r]
      BY <1>2, <1>q, <2>8 DEF Regs
    <3>3. Waiting(q, 0, r, m, FALSE)
      BY <2>6 DEF Waiting
    <3>4. DriverInv'
      BY <1>1, <1>2, <1>3, <1>m, <1>q, <1>s, <1>t, <2>1, <2>6, <3>1, <3>2, <3>3, MasterWaits
    <3> QED
      BY <2>4, <2>8, <3>4 DEF MemoryOf, ImageOf
  <2> QED
    BY <2>4, <2>7, <2>8
<1>6. CASE Quiet /\ DmaReady(q, r) /\ q.cmd = "write_dma"
  <2>1. /\ r.cmd = "write_dma" /\ WithinDisk(q) /\ TaskFile(q, r, 0) /\ d \notin Empty
    BY <1>6, <1>q DEF DmaReady
  <2>2. q.n - 0 = q.n /\ q.start + 0 = q.start
    BY <1>3
  <2>3. r.lba = q.start /\ NumSectors(r) = q.n
    BY <1>2, <1>3, <2>1, <2>2, SectorsAsked DEF TaskFile
  <2> DEFINE a == [Advance(r, q.n) EXCEPT !.status = "ready", !.cmd = None]
  <2>4. /\ wrote' = [start |-> q.start, n |-> q.n] /\ mem' = mem /\ UNCHANGED ios
        /\ drive' = [drive EXCEPT ![d] = a]
    BY <1>q, <1>s, <2>1, <2>3 DEF DmaStartWrite, SetDrive
  <2>5. TaskFile(q, a, q.n) /\ a.multiple = r.multiple /\ a.status = "ready" /\ a.cmd = None
    BY <1>2, <1>6, <2>1, DmaAnswer
  <2> HIDE DEF a
  <2>6. Completed(q, 0, a, m)
    BY <1>6, <1>q, <2>1, <2>5
       DEF Completed, Complete, PioReads, ReadCommands, WriteCommands, Packets
  <2>7. Waiting(q, 0, a, m, TRUE) /\ MultipleSet(q, a) /\ ~ AskedForPacket(q, a)
    BY <1>2, <1>6, <2>5, <2>6 DEF Waiting, MultipleSet, AskedForPacket, Packets
  <2>8. Quiet' /\ OnlyWanted(q)'
    BY <1>2, <1>6, <1>s, <2>4, QuietKept
  <2>9. DriverInv'
    BY <1>1, <1>3, <1>m, <1>q, <1>s, <1>t, <2>1, <2>4, <2>7, <2>8, MasterWaits
  <2> QED
    BY <1>6, <1>q, <2>4, <2>9 DEF MemoryOf, ImageOf
<1>7. CASE q.cmd = "packet_dma" /\ ~ Quiet /\ Awaits(q, r)
  <2>1. r.cmd = "packet" /\ r.status = "busy"
    BY <1>7 DEF Awaits, ReadCommands
  <2>2. UNCHANGED <<drive, mem, wrote, ios>>
    BY <1>q, <1>s, <2>1 DEF DmaStartPacket, DrqSet
  <2>3. d \notin Empty
    BY <1>2, <1>q, <2>1 DEF NoneOfEmpty
  <2>4. drive' = [drive EXCEPT ![d] = r]
    BY <1>2, <1>q, <2>2 DEF Regs
  <2>5. Waiting(q, 0, r, m, FALSE) /\ ~ AskedForPacket(q, r)
    BY <1>7, <2>1 DEF Waiting, AskedForPacket
  <2>6. ~ Quiet' /\ OnlyWanted(q)'
    BY <1>2, <1>7, <1>s, <2>2, QuietKept
  <2>7. DriverInv'
    BY <1>1, <1>2, <1>3, <1>m, <1>q, <1>s, <1>t, <2>3, <2>4, <2>5, <2>6, MasterWaits
  <2> QED
    BY <2>2, <2>7 DEF MemoryOf, ImageOf
<1>8. CASE Quiet /\ PacketReady(q, r)
  <2> DEFINE a == [r EXCEPT !.status = "ready"]
  <2>1. /\ r.cmd = "packet" /\ r.status = "drq" /\ d \notin Empty /\ q.cmd = "packet_dma"
        /\ r.data = q.start /\ r.len = q.n
    BY <1>8, <1>q DEF PacketReady
  <2>2. /\ drive' = [drive EXCEPT ![d] = a] /\ UNCHANGED <<wrote, ios>>
        /\ mem' = [start |-> q.start, n |-> q.n]
    BY <1>q, <1>s, <2>1 DEF DmaStartPacket, DrqSet, SetDrive
  <2>3. a.status = "ready" /\ a.cmd = "packet" /\ a.multiple = r.multiple
    BY <1>2, <2>1 DEF DriveState
  <2> HIDE DEF a
  <2>4. m.start = q.start /\ m.n = q.n
    BY <1>m, <2>2
  <2>5. Completed(q, 0, a, m)
    BY <1>q, <2>1, <2>3, <2>4
       DEF Completed, Complete, PioReads, ReadCommands, WriteCommands, DmaCommands
  <2>6. Waiting(q, 0, a, m, TRUE) /\ MultipleSet(q, a) /\ ~ AskedForPacket(q, a)
    BY <1>2, <2>3, <2>5 DEF Waiting, MultipleSet, AskedForPacket
  <2>7. Quiet' /\ OnlyWanted(q)'
    BY <1>2, <1>8, <1>s, <2>2, QuietKept
  <2>8. DriverInv'
    BY <1>1, <1>3, <1>m, <1>q, <1>s, <1>t, <2>1, <2>2, <2>6, <2>7, MasterWaits
  <2>9. mem'.start = q.start /\ mem'.n = q.n
    BY <2>2
  <2> QED
    BY <1>q, <2>1, <2>2, <2>8, <2>9 DEF MemoryOf, ImageOf
<1>9. CASE Quiet /\ q.cmd = "packet_dma" /\ r.cmd = "packet" /\ Completed(q, 0, r, mem)
  <2>1. r.status = "ready" /\ d \notin Empty
    BY <1>9, <1>q DEF Completed, Complete
  <2>2. UNCHANGED <<drive, mem, wrote, ios>>
    BY <1>q, <1>s, <1>9, <2>1 DEF DmaStartPacket, DrqSet
  <2>4. drive' = [drive EXCEPT ![d] = r]
    BY <1>2, <1>q, <2>2 DEF Regs
  <2>5. Waiting(q, 0, r, m, TRUE) /\ ~ AskedForPacket(q, r)
    BY <1>9, <1>m, <2>1, <2>2 DEF Waiting, AskedForPacket
  <2>6. Quiet' /\ OnlyWanted(q)'
    BY <1>2, <1>9, <1>s, <2>2, QuietKept
  <2>7. DriverInv'
    BY <1>1, <1>2, <1>3, <1>m, <1>q, <1>s, <1>t, <2>1, <2>4, <2>5, <2>6, MasterWaits
  <2> QED
    BY <2>2, <2>7 DEF MemoryOf, ImageOf
<1> QED
  BY <1>2, <1>4, <1>5, <1>6, <1>7, <1>8, <1>9 DEF Started, DmaReady, DmaCommands

-----------------------------------------------------------------------------
(* The data port.                                                          *)

\* A unit inside of a block.
LEMMA UnitTaken ==
  ASSUME NEW q \in Requests, NEW t \in Nat, NEW k \in Nat, NEW r \in DriveState, Offers(q, t, r, k)
  PROVE  LET b == [r EXCEPT !.ptr = @ + 1]
         IN  /\ b.ptr = t + 1 /\ b.len = q.n /\ b.end = r.end /\ b.cmd = r.cmd /\ b.status = "drq"
             /\ b.multiple = r.multiple /\ b.lba = r.lba /\ b.count = r.count /\ b.data = r.data
             /\ b.write_dest = r.write_dest /\ b \in DriveState
             /\ r.end \in Nat /\ t + 1 <= r.end /\ r.end <= t + k /\ t + k <= q.n /\ q.n \in Nat
             /\ k >= 1
             /\ r.end # t + 1 => k - 1 >= 1 /\ Offers(q, t + 1, b, k - 1)
<1> DEFINE b == [r EXCEPT !.ptr = @ + 1]
<1>1. q.n \in Nat
  BY RequestFacts
<1>2. r.ptr = t /\ r.len = q.n /\ r.status = "drq" /\ k \in 1 .. q.n - t
  BY DEF Offers
<1>3. k >= 1 /\ t + k <= q.n
  BY <1>1, <1>2
<1>4. r.end \in Nat /\ t + 1 <= r.end /\ r.end <= t + k
  <2>1. r.end \in t + 1 .. t + k \/ r.end = t + k
    BY DEF Offers
  <2> QED
    BY <1>3, <2>1
<1>5. /\ b.ptr = t + 1 /\ b.len = q.n /\ b.end = r.end /\ b.cmd = r.cmd /\ b.status = "drq"
      /\ b.multiple = r.multiple /\ b.lba = r.lba /\ b.count = r.count /\ b.data = r.data
      /\ b.write_dest = r.write_dest /\ b \in DriveState
  BY <1>2 DEF DriveState
<1> HIDE DEF b
<1>6. ASSUME r.end # t + 1 PROVE k - 1 >= 1 /\ Offers(q, t + 1, b, k - 1)
  <2>1. k - 1 >= 1 /\ k - 1 \in 1 .. q.n - (t + 1) /\ (t + 1) + (k - 1) = t + k
    BY <1>1, <1>3, <1>4, <1>6
  <2>2. r.end \in (t + 1) + 1 .. t + k
    BY <1>1, <1>3, <1>4, <1>6
  <2>3. q.cmd \notin MultipleWrites => r.end = t + k
    BY DEF Offers
  <2>4. \A j : TaskFile(q, r, j) => TaskFile(q, b, j)
    BY <1>5 DEF TaskFile
  <2> QED
    BY <1>5, <2>1, <2>2, <2>3, <2>4 DEF Offers
<1> QED
  BY <1>1, <1>3, <1>4, <1>5, <1>6 DEF b

\* The next sector of a write is asked for.
LEMMA NextSector ==
  ASSUME NEW q \in Requests, NEW t \in Nat, NEW k \in Nat, NEW r \in DriveState, Offers(q, t, r, k),
         MultipleSet(q, r), q.cmd \in WriteCommands, r.end = t + 1, t + 1 < q.n
  PROVE  LET a == [[r EXCEPT !.ptr = @ + 1] EXCEPT !.status = "drq", !.end = @ + 1]
         IN  /\ a.multiple = r.multiple
             /\ k - 1 > 0 => Offers(q, t + 1, a, k - 1)
             /\ k - 1 = 0 => Offers(q, t + 1, a, Block(q, t + 1, a))
<1> DEFINE b == [r EXCEPT !.ptr = @ + 1]
           a == [b EXCEPT !.status = "drq", !.end = @ + 1]
<1>1. /\ b.ptr = t + 1 /\ b.len = q.n /\ b.end = t + 1 /\ b.cmd = r.cmd
      /\ b.multiple = r.multiple /\ b.lba = r.lba /\ b.count = r.count /\ b.data = r.data
      /\ b.write_dest = r.write_dest /\ b \in DriveState
      /\ t + k <= q.n /\ q.n \in Nat /\ k >= 1
  BY UnitTaken
<1> HIDE DEF b
<1>2. /\ a.ptr = t + 1 /\ a.len = q.n /\ a.end = t + 2 /\ a.cmd = r.cmd /\ a.status = "drq"
      /\ a.multiple = r.multiple /\ a.lba = r.lba /\ a.count = r.count
      /\ a.write_dest = r.write_dest
  BY <1>1 DEF DriveState
<1> HIDE DEF a
<1>3. /\ q.cmd \notin PioReads /\ q.cmd # "read" /\ q.cmd # "packet_read"
      /\ q.cmd = "write" \/ q.cmd \in MultipleWrites
      /\ q.cmd \notin Packets /\ q.cmd \notin {"read", "identify"}
      /\ "write" \notin MultipleWrites
  BY DEF PioReads, ReadCommands, WriteCommands, Packets, MultipleWrites
<1>4. q.cmd = "write" => k = 1 /\ WithinDisk(q) /\ TaskFile(q, a, 0)
  <2>1. q.cmd = "write" => r.end = t + k /\ WithinDisk(q) /\ TaskFile(q, r, 0)
    BY <1>3 DEF Offers
  <2> QED
    BY <1>2, <2>1 DEF TaskFile
<1>5. ASSUME NEW j \in Nat, j >= 1, j <= q.n - (t + 1), q.cmd = "write" => j = 1
      PROVE  Offers(q, t + 1, a, j)
  <2>1. j \in 1 .. q.n - (t + 1) /\ a.end \in (t + 1) + 1 .. (t + 1) + j
    BY <1>1, <1>2, <1>5
  <2>2. q.cmd \notin MultipleWrites => a.end = (t + 1) + j
    BY <1>2, <1>3, <1>5
  <2>3. q.drive \notin Empty /\ r.cmd = CommandOf(q) /\ r.write_dest = q.start /\ WithinDisk(q)
    BY <1>3 DEF Offers, WriteCommands
  <2> QED
    BY <1>2, <1>3, <1>4, <2>1, <2>2, <2>3 DEF Offers
<1>6. k - 1 > 0 => Offers(q, t + 1, a, k - 1)
  BY <1>1, <1>4, <1>5
<1>7. Offers(q, t + 1, a, Block(q, t + 1, a))
  <2>1. CASE q.cmd = "write"
    <3>1. Block(q, t + 1, a) = 1
      BY <2>1, <1>3 DEF Block
    <3> QED
      BY <1>1, <1>5, <3>1
  <2>2. CASE q.cmd \in MultipleWrites
    <3>1. a.multiple \in Nat \ {0}
      BY <1>2, <2>2 DEF MultipleSet, MultipleCommands
    <3>2. Block(q, t + 1, a) = Least(a.multiple, q.n - (t + 1))
      BY <1>3, <2>2 DEF Block
    <3>3. /\ Least(a.multiple, q.n - (t + 1)) \in Nat /\ Least(a.multiple, q.n - (t + 1)) >= 1
          /\ Least(a.multiple, q.n - (t + 1)) <= q.n - (t + 1)
      BY <1>1, <3>1 DEF Least
    <3> QED
      BY <1>3, <1>5, <2>2, <3>2, <3>3
  <2> QED
    BY <1>3, <2>1, <2>2
<1> QED
  BY <1>2, <1>6, <1>7 DEF a, b

LEMMA LastSector ==
  ASSUME NEW q \in Requests, NEW t \in Nat, NEW k \in Nat, NEW r \in DriveState, Offers(q, t, r, k),
         q.cmd \in WriteCommands, r.end = t + 1, t + 1 >= q.n
  PROVE  LET b == [r EXCEPT !.ptr = @ + 1]
             a == Advance([b EXCEPT !.status = "ready"], b.len)
         IN  /\ t + 1 = q.n /\ k = 1 /\ a.multiple = r.multiple
             /\ \A m : Completed(q, t + 1, a, m)
<1> DEFINE b == [r EXCEPT !.ptr = @ + 1]
           c == [b EXCEPT !.status = "ready"]
           a == Advance(c, q.n)
<1>1. /\ b.len = q.n /\ b.multiple = r.multiple /\ b.lba = r.lba /\ b.count = r.count
      /\ b \in DriveState /\ t + k <= q.n /\ q.n \in Nat /\ k >= 1
  BY UnitTaken
<1>0. t + 1 = q.n /\ k = 1
  BY <1>1
<1> HIDE DEF b
<1>2. /\ c.status = "ready" /\ c.multiple = r.multiple /\ c.lba = r.lba /\ c.count = r.count
      /\ c \in DriveState
  BY <1>1 DEF DriveState, Statuses
<1> HIDE DEF c
<1>3. a.status = "ready" /\ a.multiple = r.multiple
  BY <1>1, <1>2, AdvanceFields
<1>4. q.cmd = "write" => WithinDisk(q) /\ TaskFile(q, a, q.n)
  <2> SUFFICES ASSUME q.cmd = "write" PROVE WithinDisk(q) /\ TaskFile(q, a, q.n)
    OBVIOUS
  <2>1. WithinDisk(q) /\ TaskFile(q, r, 0)
    BY DEF Offers
  <2>2. TaskFile(q, c, 0)
    BY <1>2, <2>1 DEF TaskFile
  <2>3. 0 \in Nat /\ 0 + q.n <= q.n /\ 0 + q.n = q.n
    BY <1>1
  <2>4. TaskFile(q, Advance(c, q.n), 0 + q.n)
    BY <1>1, <1>2, <2>1, <2>2, <2>3, Advances
  <2> QED
    BY <2>1, <2>3, <2>4
<1> HIDE DEF a
<1>5. \A m : Completed(q, t + 1, a, m)
  BY <1>0, <1>3, <1>4 DEF Completed, Complete, Offers, WriteCommands, DmaCommands
<1> QED
  BY <1>0, <1>1, <1>3, <1>5 DEF a, b, c

\* The end of a block of a packet: the last one is followed by the status alone.
LEMMA NextOfPacket ==
  ASSUME NEW q \in Requests, NEW t \in Nat, NEW k \in Nat, NEW r \in DriveState, Offers(q, t, r, k),
         q.cmd = "packet_read", r.end = t + 1
  PROVE  LET a == PacketReadEnd([r EXCEPT !.ptr = @ + 1])
         IN  /\ a.multiple = r.multiple /\ k = 1
             /\ \/ \A m : Completed(q, t + 1, a, m)
                \/ Offers(q, t + 1, a, Block(q, t + 1, a))
<1> DEFINE b == [r EXCEPT !.ptr = @ + 1]
           a == PacketReadEnd(b)
<1>1. /\ b.ptr = t + 1 /\ b.len = q.n /\ b.end = t + 1 /\ b.cmd = r.cmd
      /\ b.multiple = r.multiple /\ b.lba = r.lba /\ b.data = r.data /\ b.status = "drq"
      /\ b \in DriveState /\ t + k <= q.n /\ q.n \in Nat /\ k >= 1
  BY UnitTaken
<1> HIDE DEF b
<1>2. /\ q.cmd \in Packets /\ q.cmd \notin MultipleWrites /\ q.cmd \notin WriteCommands
      /\ q.cmd # "read" /\ q.cmd # "write" /\ q.cmd \notin DmaCommands
      /\ q.cmd \notin {"read_dma", "packet_dma"}
  BY DEF Packets, MultipleWrites, WriteCommands, DmaCommands
<1>3. k = 1 /\ r.lba > 0 /\ r.lba \in Nat /\ q.drive \notin Empty /\ r.cmd = CommandOf(q) /\ r.data = q.start
      /\ WithinDisk(q)
  BY <1>1, <1>2 DEF Offers, DriveState, PioReads
<1>4. CASE b.end = b.len
  <2>1. a = [b EXCEPT !.status = "ready"]
    BY <1>4 DEF PacketReadEnd
  <2>2. a.status = "ready" /\ a.multiple = r.multiple
    BY <1>1, <2>1 DEF DriveState
  <2>3. \A m : Completed(q, t + 1, a, m)
    BY <1>1, <1>2, <1>3, <1>4, <2>2 DEF Completed, Complete
  <2> QED
    BY <1>3, <2>2, <2>3 DEF b
<1>w. q.n < LbaWrap /\ LbaWrap \in Nat \ {0}
  <2>1. q.start \in Nat /\ q.start + q.n <= Sectors
    BY <1>2, RequestFacts DEF WithinDisk
  <2> QED
    BY <1>1, <2>1, CountAssumption
<1>5. ASSUME a.ptr = t + 1, a.len = q.n, a.status = "drq", a.cmd = r.cmd, a.data = r.data,
             a.lba \in Nat, a.lba > 0, a.end = t + 1 + a.lba, a.end <= q.n
      PROVE  Offers(q, t + 1, a, Block(q, t + 1, a))
  <2>1. Block(q, t + 1, a) = a.lba
    BY <1>2 DEF Block
  <2> HIDE DEF a
  <2>2. a.lba \in 1 .. q.n - (t + 1) /\ a.end = (t + 1) + a.lba
    BY <1>1, <1>5
  <2>3. Offers(q, t + 1, a, a.lba)
    BY <1>2, <1>3, <1>5, <2>2 DEF Offers, PioReads
  <2> QED
    BY <2>1, <2>3
<1>6. CASE b.end # b.len /\ b.end + b.lba > b.len
  <2> DEFINE l == (b.len - b.end) % LbaWrap
  <2>1. a = [b EXCEPT !.status = "drq", !.lba = l, !.end = b.len]
    BY <1>6 DEF PacketReadEnd
  <2>2. l = q.n - (t + 1) /\ l \in Nat /\ l > 0
    <3>1. q.n - (t + 1) \in 0 .. LbaWrap - 1 /\ q.n - (t + 1) > 0
      BY <1>1, <1>3, <1>6, <1>w
    <3>2. b.len - b.end = q.n - (t + 1)
      BY <1>1
    <3> QED
      BY <1>w, <3>1, <3>2, Small
  <2> HIDE DEF l
  <2>3. /\ a.ptr = t + 1 /\ a.len = q.n /\ a.status = "drq" /\ a.cmd = r.cmd /\ a.data = r.data
        /\ a.lba = l /\ a.end = q.n /\ a.multiple = r.multiple
    BY <1>1, <2>1 DEF DriveState
  <2>4. Offers(q, t + 1, a, Block(q, t + 1, a))
    BY <1>1, <1>5, <2>2, <2>3
  <2> QED
    BY <1>3, <2>3, <2>4 DEF b
<1>7. CASE b.end # b.len /\ ~ (b.end + b.lba > b.len)
  <2>1. a = [b EXCEPT !.status = "drq", !.end = @ + b.lba]
    BY <1>7 DEF PacketReadEnd
  <2>3. /\ a.ptr = t + 1 /\ a.len = q.n /\ a.status = "drq" /\ a.cmd = r.cmd /\ a.data = r.data
        /\ a.lba = r.lba /\ a.end = t + 1 + r.lba /\ a.multiple = r.multiple
    BY <1>1, <2>1 DEF DriveState
  <2>4. Offers(q, t + 1, a, Block(q, t + 1, a))
    BY <1>1, <1>3, <1>5, <1>7, <2>3
  <2> QED
    BY <1>3, <2>3, <2>4 DEF b
<1> QED
  BY <1>4, <1>6, <1>7

\* The end of a block of a disk.
LEMMA NextOfDisk ==
  ASSUME NEW q \in Requests, NEW t \in Nat, NEW k \in Nat, NEW r \in DriveState, Offers(q, t, r, k),
         MultipleSet(q, r), q.cmd \in ReadCommands \cup {"identify"}, r.end = t + 1
  PROVE  LET a == AtaReadEnd([r EXCEPT !.ptr = @ + 1])
         IN  /\ a.multiple = r.multiple /\ k = 1
             /\ t + 1 = q.n => \A m : Complete(q, t + 1, a, m)
             /\ t + 1 # q.n => Offers(q, t + 1, a, Block(q, t + 1, a))
<1> DEFINE b == [r EXCEPT !.ptr = @ + 1]
           a == AtaReadEnd(b)
<1>1. /\ b.ptr = t + 1 /\ b.len = q.n /\ b.end = t + 1 /\ b.cmd = r.cmd
      /\ b.multiple = r.multiple /\ b.lba = r.lba /\ b.data = r.data /\ b.status = "drq"
      /\ b.count = r.count
      /\ b \in DriveState /\ t + k <= q.n /\ q.n \in Nat /\ k >= 1
  BY UnitTaken
<1> HIDE DEF b
<1>2. /\ q.cmd \notin Packets /\ q.cmd \notin MultipleWrites /\ q.cmd \notin WriteCommands
      /\ q.cmd # "write" /\ q.cmd \notin DmaCommands /\ q.cmd # "packet_read"
      /\ q.cmd \notin {"read_dma", "packet_dma"} /\ CommandOf(q) = q.cmd
      /\ "read_multiple" \notin {"read", "write", "identify"}
  BY DEF Packets, MultipleWrites, WriteCommands, DmaCommands, ReadCommands, CommandOf
<1>3. /\ k = 1 /\ q.drive \notin Empty /\ r.cmd = q.cmd
      /\ q.cmd # "identify" => r.data = q.start /\ WithinDisk(q)
      /\ q.cmd = "read" => TaskFile(q, r, t + 1)
  BY <1>1, <1>2 DEF Offers, PioReads
<1>r. q.cmd = "read" => TaskFile(q, b, t + 1)
  BY <1>1, <1>3 DEF TaskFile
<1>4. CASE t + 1 = q.n
  <2>1. a = [b EXCEPT !.status = "ready"]
    BY <1>1, <1>4 DEF AtaReadEnd
  <2>2. a.status = "ready" /\ a.multiple = r.multiple /\ a.lba = b.lba /\ a.count = b.count
    BY <1>1, <2>1 DEF DriveState
  <2>3. q.cmd = "read" => TaskFile(q, a, q.n)
    BY <1>4, <1>r, <2>2 DEF TaskFile
  <2>4. \A m : Complete(q, t + 1, a, m)
    BY <1>2, <1>3, <1>4, <2>3 DEF Complete
  <2> QED
    BY <1>3, <1>4, <2>2, <2>4 DEF b
<1>5. CASE t + 1 # q.n
  <2>1. t + 1 < q.n /\ ~ (b.ptr >= b.len)
    BY <1>1, <1>5
  <2>2. q.cmd # "identify"
    BY <1>5, <1>1, RequestFacts
  <2> DEFINE j == NextBlock(b)
  <2>3. /\ j \in Nat /\ j >= 1 /\ j <= q.n - (t + 1)
        /\ q.cmd = "read" => j = 1
        /\ q.cmd = "read_multiple" => r.multiple \in Nat /\ j = Least(r.multiple, q.n - (t + 1))
    <3>1. CASE q.cmd = "read"
      BY <1>1, <1>3, <2>1, <3>1 DEF NextBlock
    <3>2. CASE q.cmd = "read_multiple"
      <4>1. r.multiple \in Nat \ {0} /\ r.multiple # None
        BY <3>2, NotNone DEF MultipleSet, MultipleCommands
      <4>2. j = Least(q.n - (t + 1), r.multiple)
        BY <1>1, <1>3, <3>2, <4>1 DEF NextBlock, MultipleEnd
      <4> HIDE DEF j
      <4> QED
        BY <1>1, <2>1, <3>2, <4>1, <4>2 DEF Least
    <3> QED
      BY <2>2, <3>1, <3>2 DEF ReadCommands
  <2>4. a = [Advance(b, j) EXCEPT !.end = @ + j, !.status = "drq"]
    BY <2>1, <2>3, NotNone DEF AtaReadEnd
  <2> HIDE DEF j
  <2> DEFINE c == Advance(b, j)
  <2>5. /\ c.status = "drq" /\ c.cmd = r.cmd /\ c.multiple = r.multiple /\ c.ptr = t + 1
        /\ c.end = t + 1 /\ c.len = q.n /\ c.data = r.data /\ c \in DriveState
    <3>1. b \in DriveState /\ j \in Nat
      BY <1>1, <2>3
    <3>2. /\ c.status = b.status /\ c.cmd = b.cmd /\ c.multiple = b.multiple /\ c.ptr = b.ptr
          /\ c.end = b.end /\ c.len = b.len /\ c.data = b.data
      BY <3>1, AdvanceFields
    <3>3. c \in DriveState
      BY <3>1, RegisterTypes
    <3> HIDE DEF c
    <3> QED
      BY <1>1, <3>2, <3>3
  <2>6. q.cmd = "read" => TaskFile(q, c, (t + 1) + j)
    BY <1>1, <1>3, <1>r, <2>3, Advances
  <2> HIDE DEF c
  <2>7. /\ a.status = "drq" /\ a.cmd = r.cmd /\ a.multiple = r.multiple /\ a.ptr = t + 1
        /\ a.end = (t + 1) + j /\ a.len = q.n /\ a.data = r.data /\ a.lba = c.lba /\ a.count = c.count
    BY <2>4, <2>5 DEF DriveState, c
  <2> HIDE DEF a
  <2>8. Block(q, t + 1, a) = j
    BY <1>2, <2>2, <2>3, <2>7 DEF Block, ReadCommands
  <2>9. q.cmd = "read" => TaskFile(q, a, a.end)
    BY <2>6, <2>7 DEF TaskFile
  <2>10. j \in 1 .. q.n - (t + 1)
    BY <1>1, <2>3
  <2>11. Offers(q, t + 1, a, j)
    BY <1>2, <1>3, <2>2, <2>7, <2>9, <2>10 DEF Offers, PioReads
  <2> QED
    BY <1>3, <1>5, <2>7, <2>8, <2>11 DEF a, b
<1> QED
  BY <1>4, <1>5

\* After a unit the driver goes on with the block, waits, or is done.
LEMMA PortStep ==
  ASSUME Regs, DriverInv, pc = "transfer", NEW q, q = req, req' = q, NEW t, t = taken, taken' = t + 1,
         NEW k \in Nat, left' = k, NEW p \in {"transfer", "wait", "done"}, pc' = p,
         NEW a, drive' = [drive EXCEPT ![q.drive] = a], a.multiple = drive[q.drive].multiple,
         UNCHANGED <<selected, prdt, dma_start, dma_active, ios, mem>>,
         p = "transfer" => Offers(q, t + 1, a, k),
         p = "wait" => \/ Offers(q, t + 1, a, Block(q, t + 1, a))
                       \/ \A m : Completed(q, t + 1, a, m),
         p = "done" => \A m : Complete(q, t + 1, a, m)
  PROVE  DriverInv'
<1>1. /\ Quiet /\ q.drive \notin Empty /\ t \in Nat /\ ~ dma_start /\ ~ dma_active
      /\ MultipleSet(q, drive[q.drive]) /\ OnlyWanted(q)
  <2>1. /\ Phase("transfer", q, taken, left, drive[q.drive], mem, Quiet)
        /\ BusMasterOff("transfer", q, drive[q.drive], dma_start, dma_active)
    BY AtWork
  <2> QED
    BY <2>1, AtWork DEF Phase, BusMasterOff, Offers
<1>2. Quiet' /\ OnlyWanted(q)'
  BY <1>1, QuietKept
<1>m. PICK m : m = mem'
  OBVIOUS
<1>3. Phase(p, q, t + 1, k, a, m, TRUE)
  BY DEF Phase, Waiting
<1>4. BusMasterOff(p, q, a, dma_start', dma_active') /\ p \in Pcs \ {"idle"} /\ t + 1 \in Nat
  BY <1>1 DEF BusMasterOff, Pcs
<1>5. MultipleSet(q, a)
  BY <1>1 DEF MultipleSet
<1> QED
  BY <1>1, <1>2, <1>3, <1>4, <1>5, <1>m, Touches

LEMMA TransferInv ==
  ASSUME Regs, Ios, DriverInv, Transfer
  PROVE  /\ DriverInv' /\ mem' = mem /\ ImageOf(req)
         /\ wrote' # wrote => taken' = req.n
<1>q. PICK q, d, r, t, k : q = req /\ d = q.drive /\ r = drive[d] /\ t = taken /\ k = left
  OBVIOUS
<1> DEFINE b == [r EXCEPT !.ptr = @ + 1]
<1>1. /\ pc = "transfer" /\ req' = q /\ taken' = t + 1 /\ left' = k - 1
      /\ IF q.cmd \in WriteCommands THEN WriteData ELSE ReadData
      /\ pc' = IF left' > 0 THEN "transfer"
               ELSE IF taken' = q.n /\ q.cmd \in ReadCommands \cup {"identify"} THEN "done" ELSE "wait"
  BY <1>q DEF Transfer
<1>2. /\ q \in Requests /\ d \in Drives /\ r \in DriveState /\ MultipleSet(q, r) /\ selected = d
      /\ t \in Nat /\ k \in Nat /\ Offers(q, t, r, k)
  <2>1. Phase("transfer", q, t, k, r, mem, Quiet)
    BY <1>1, <1>q, AtWork
  <2> QED
    BY <1>1, <1>q, <2>1, AtWork DEF Phase
<1>3. /\ b.ptr = t + 1 /\ b.len = q.n /\ b.end = r.end /\ b.cmd = r.cmd
      /\ b.multiple = r.multiple /\ b.write_dest = r.write_dest
      /\ r.end \in Nat /\ t + 1 <= r.end /\ t + k <= q.n /\ q.n \in Nat /\ k >= 1
      /\ r.end # t + 1 => k - 1 >= 1 /\ Offers(q, t + 1, b, k - 1)
  BY <1>2, UnitTaken
<1> HIDE DEF b
<1>k. k - 1 \in Nat /\ (k - 1 > 0 <=> k # 1)
  BY <1>2, <1>3
<1>4. CASE q.cmd \in WriteCommands
  <2>1. /\ UNCHANGED <<selected, prdt, dma_start, dma_active, ios, mem>>
        /\ \/ /\ b.ptr = b.end /\ AllGiven(b)
              /\ drive' = [drive EXCEPT ![d] = Advance([b EXCEPT !.status = "ready"], b.len)]
              /\ wrote' = [start |-> b.write_dest, n |-> b.len]
           \/ /\ b.ptr = b.end /\ ~ AllGiven(b)
              /\ drive' = [drive EXCEPT ![d] = [b EXCEPT !.status = "drq", !.end = @ + 1]]
              /\ wrote' = wrote
           \/ /\ b.ptr # b.end
              /\ drive' = [drive EXCEPT ![d] = b]
              /\ wrote' = wrote
    <3>1. WriteData
      BY <1>1, <1>4
    <3>3. UNCHANGED <<selected, prdt, dma_start, dma_active, ios, mem>>
      BY <3>1 DEF WriteData
    <3>b. b = [drive[selected] EXCEPT !.ptr = @ + 1]
      BY <1>2, <1>q DEF b
    <3>4. CASE b.ptr = b.end /\ AllGiven(b)
      BY <1>2, <3>1, <3>3, <3>b, <3>4 DEF WriteData, SetDrive
    <3>5. CASE b.ptr = b.end /\ ~ AllGiven(b)
      BY <1>2, <3>1, <3>3, <3>b, <3>5 DEF WriteData, SetDrive
    <3>6. CASE b.ptr # b.end
      BY <1>2, <3>1, <3>3, <3>b, <3>6 DEF WriteData, SetDrive
    <3> QED
      BY <3>4, <3>5, <3>6
  <2>w. q.cmd \notin ReadCommands \cup {"identify"}
    BY <1>4 DEF WriteCommands, ReadCommands
  <2>2. CASE b.ptr = b.end /\ AllGiven(b)
    <3> DEFINE a == Advance([b EXCEPT !.status = "ready"], b.len)
    <3>1. r.end = t + 1 /\ t + 1 >= q.n
      BY <1>3, <2>2 DEF AllGiven
    <3>2. t + 1 = q.n /\ k = 1 /\ a.multiple = r.multiple /\ \A m : Completed(q, t + 1, a, m)
      BY <1>2, <1>4, <3>1, LastSector DEF b
    <3>3. drive' = [drive EXCEPT ![d] = a] /\ wrote' = [start |-> q.start, n |-> q.n]
      <4>1. r.write_dest = q.start
        BY <1>2, <1>4 DEF Offers
      <4> QED
        BY <1>3, <2>1, <2>2, <4>1
    <3> HIDE DEF a
    <3>4. pc' = "wait" /\ left' = 0
      BY <1>1, <2>w, <3>2
    <3>5. DriverInv'
      BY <1>1, <1>q, <2>1, <3>2, <3>3, <3>4, PortStep
    <3> QED
      BY <1>1, <1>q, <2>1, <3>2, <3>3, <3>5 DEF ImageOf
  <2>3. CASE b.ptr = b.end /\ ~ AllGiven(b)
    <3> DEFINE a == [b EXCEPT !.status = "drq", !.end = @ + 1]
    <3>1. r.end = t + 1 /\ t + 1 < q.n
      BY <1>2, <1>3, <2>3 DEF AllGiven
    <3>2. /\ a.multiple = r.multiple
          /\ k - 1 > 0 => Offers(q, t + 1, a, k - 1)
          /\ k - 1 = 0 => Offers(q, t + 1, a, Block(q, t + 1, a))
      BY <1>2, <1>4, <3>1, NextSector DEF b
    <3>3. drive' = [drive EXCEPT ![d] = a] /\ wrote' = wrote
      BY <2>1, <2>3
    <3> HIDE DEF a
    <3>p. PICK p \in {"transfer", "wait", "done"} : pc' = p /\ (p = "transfer" <=> k - 1 > 0) /\ p # "done"
      BY <1>1, <2>w
    <3>o. /\ p = "transfer" => Offers(q, t + 1, a, k - 1)
          /\ p # "transfer" => Offers(q, t + 1, a, Block(q, t + 1, a))
      BY <1>k, <3>2, <3>p
    <3>4. DriverInv'
      BY <1>1, <1>k, <1>q, <2>1, <3>2, <3>3, <3>o, <3>p, PortStep
    <3> QED
      BY <1>q, <2>1, <3>3, <3>4 DEF ImageOf
  <2>4. CASE b.ptr # b.end
    <3>1. k - 1 >= 1 /\ Offers(q, t + 1, b, k - 1)
      BY <1>3, <2>4
    <3>2. pc' = "transfer"
      BY <1>1, <1>k, <3>1
    <3>3. drive' = [drive EXCEPT ![d] = b] /\ wrote' = wrote
      BY <2>1, <2>4
    <3>4. DriverInv'
      BY <1>1, <1>3, <1>k, <1>q, <2>1, <3>1, <3>2, <3>3, PortStep
    <3> QED
      BY <1>q, <2>1, <3>3, <3>4 DEF ImageOf
  <2> QED
    BY <2>2, <2>3, <2>4
<1>5. CASE q.cmd \notin WriteCommands
  <2>1. /\ UNCHANGED <<selected, prdt, dma_start, dma_active, ios, mem, wrote>>
        /\ b.ptr >= b.end => drive' = [drive EXCEPT ![d] = ReadEnd(b)]
        /\ ~ (b.ptr >= b.end) => drive' = [drive EXCEPT ![d] = b]
    <3>1. ReadData
      BY <1>1, <1>5
    <3>b. b = [drive[selected] EXCEPT !.ptr = @ + 1]
      BY <1>2, <1>q DEF b
    <3> QED
      BY <1>2, <3>1, <3>b DEF ReadData, SetDrive, history
  <2>2. /\ q.cmd \in ReadCommands \cup {"packet_read", "identify"}
        /\ q.cmd = "packet_read" <=> r.cmd = "packet"
        /\ q.cmd = "packet_read" => q.cmd \notin ReadCommands \cup {"identify"}
    BY <1>2, <1>5, CommandsOf DEF Offers, PioReads, ReadCommands, Packets
  <2>3. CASE b.ptr >= b.end /\ q.cmd = "packet_read"
    <3> DEFINE a == PacketReadEnd(b)
    <3>1. r.end = t + 1 /\ ReadEnd(b) = a
      BY <1>2, <1>3, <2>2, <2>3 DEF ReadEnd
    <3>2. /\ a.multiple = r.multiple /\ k = 1
          /\ \/ \A m : Completed(q, t + 1, a, m)
             \/ Offers(q, t + 1, a, Block(q, t + 1, a))
      BY <1>2, <2>3, <3>1, NextOfPacket DEF b
    <3>3. drive' = [drive EXCEPT ![d] = a]
      BY <2>1, <2>3, <3>1
    <3> HIDE DEF a
    <3>4. pc' = "wait" /\ left' = 0
      BY <1>1, <2>2, <2>3, <3>2
    <3>5. DriverInv'
      BY <1>1, <1>q, <2>1, <3>2, <3>3, <3>4, PortStep
    <3> QED
      BY <1>q, <2>1, <3>5 DEF ImageOf
  <2>4. CASE b.ptr >= b.end /\ q.cmd # "packet_read"
    <3> DEFINE a == AtaReadEnd(b)
    <3>1. r.end = t + 1 /\ ReadEnd(b) = a
      BY <1>2, <1>3, <2>2, <2>4 DEF ReadEnd
    <3>2. /\ a.multiple = r.multiple /\ k = 1
          /\ t + 1 = q.n => \A m : Complete(q, t + 1, a, m)
          /\ t + 1 # q.n => Offers(q, t + 1, a, Block(q, t + 1, a))
      BY <1>2, <2>2, <2>4, <3>1, NextOfDisk DEF b
    <3>3. drive' = [drive EXCEPT ![d] = a]
      BY <2>1, <2>4, <3>1
    <3> HIDE DEF a
    <3>p. PICK p \in {"transfer", "wait", "done"} : pc' = p /\ p # "transfer" /\ (p = "done" <=> t + 1 = q.n)
      BY <1>1, <2>2, <2>4, <3>2
    <3>4. left' = 0
      BY <1>1, <3>2
    <3>5. DriverInv'
      BY <1>1, <1>q, <2>1, <3>2, <3>3, <3>4, <3>p, PortStep
    <3> QED
      BY <1>q, <2>1, <3>5 DEF ImageOf
  <2>5. CASE ~ (b.ptr >= b.end)
    <3>1. k - 1 >= 1 /\ Offers(q, t + 1, b, k - 1)
      BY <1>2, <1>3, <2>5
    <3>2. pc' = "transfer"
      BY <1>1, <1>k, <3>1
    <3>3. drive' = [drive EXCEPT ![d] = b]
      BY <2>1, <2>5
    <3>4. DriverInv'
      BY <1>1, <1>3, <1>k, <1>q, <2>1, <3>1, <3>2, <3>3, PortStep
    <3> QED
      BY <1>q, <2>1, <3>4 DEF ImageOf
  <2> QED
    BY <2>3, <2>4, <2>5
<1> QED
  BY <1>4, <1>5

-----------------------------------------------------------------------------
(* Answers of the disk image, between any two steps of the driver.         *)

\* Where the driver can be while its read is under way, and that an answer is
\* what it waits for there.
LEMMA AnsweredPhase ==
  ASSUME NEW q \in Requests, NEW p, NEW t, NEW k, NEW r, NEW m,
         Phase(p, q, t, k, r, m, FALSE),
         NEW on, NEW active, BusMasterOff(p, q, r, on, active),
         NEW a, NEW n, Answered(q, a, n), NEW after, after = active \/ after = FALSE
  PROVE  /\ p \in {"start", "wait", "abort", "reset"} /\ Awaits(q, r)
         /\ Phase(p, q, t, k, a, n, TRUE) /\ BusMasterOff(p, q, a, on, after)
<1>1. p \in {"start", "wait", "abort", "reset"}
  BY DEF Phase
<1>2. Awaits(q, r)
  BY <1>1 DEF Phase, Started, Waiting
<1>3. q.start \in Nat /\ q.start # None
  BY RequestFacts, NotNone
<1>4. ~ AskedForPacket(q, a)
  BY <1>3, Kinds DEF Answered, AskedForPacket, Offers, PacketReady, Completed,
                     PioReads, ReadCommands, WriteCommands, Packets
<1>5. CASE p = "start"
  <2>1. q.cmd = "packet_dma" /\ t = 0
    BY <1>5 DEF Phase, Started
  <2>2. PacketReady(q, a) \/ (a.cmd = "packet" /\ Completed(q, 0, a, n))
    BY <2>1 DEF Answered, Offers, PioReads, ReadCommands, WriteCommands
  <2>3. Started(q, a, n, TRUE)
    BY <2>1, <2>2 DEF Started, BusMaster, Packets
  <2>4. Phase(p, q, t, k, a, n, TRUE)
    BY <1>5, <2>1, <2>3 DEF Phase
  <2>5. ~ on /\ ~ active
    BY <1>5, <2>1 DEF BusMasterOff, DmaReady, DmaCommands
  <2>6. BusMasterOff(p, q, a, on, after)
    BY <1>5, <2>5 DEF BusMasterOff
  <2> QED
    BY <1>1, <1>2, <2>4, <2>6
<1>6. CASE p = "wait"
  <2>1. t = 0
    BY <1>6 DEF Phase, Waiting
  <2>2. Waiting(q, 0, a, n, TRUE)
    BY AnsweredWaits
  <2>3. Phase(p, q, t, k, a, n, TRUE)
    BY <1>6, <2>1, <2>2 DEF Phase
  <2>4. BusMasterOff(p, q, a, on, after)
    BY <1>4, <1>6 DEF BusMasterOff
  <2> QED
    BY <1>1, <1>2, <2>3, <2>4
<1>7. CASE p \in {"abort", "reset"}
  <2>1. Phase(p, q, t, k, a, n, TRUE)
    BY <1>7 DEF Phase
  <2>2. BusMasterOff(p, q, a, on, after)
    BY <1>7 DEF BusMasterOff
  <2> QED
    BY <1>1, <1>2, <2>1, <2>2
<1> QED
  BY <1>1, <1>5, <1>6, <1>7

LEMMA AnswerInv ==
  ASSUME Regs, Ios, DriverInv, NEW d \in Drives, NEW id \in Ids, Answer(d, id)
  PROVE  /\ DriverInv' /\ wrote' = wrote
         /\ mem' # mem => pc \in {"start", "wait", "abort", "reset"} /\ MemoryOf(req)
         /\ id \notin cancelled[d] /\ calls[d][id].op = "dma" => calls[d][id].prdt = prdt
<1>1. /\ Callback(d, id) /\ UNCHANGED <<pc, req, taken, left>>
      /\ UNCHANGED <<selected, dma_start, prdt, wrote>>
  BY DEF Answer, Callback, driver
<1>2. id \in cancelled[d] => UNCHANGED <<in_progress, drive, dma_active, mem>>
  BY <1>1 DEF Callback
<1>3. CASE pc = "idle"
  <2>1. Quiet /\ ~ dma_start /\ ~ dma_active /\ NoneOfEmpty /\ taken \in Nat /\ left \in Nat
    BY <1>3 DEF DriverInv
  <2>2. OnlyWanted(0)
    BY <2>1, QuietWanted
  <2>3. id \in cancelled[d]
    BY <1>1, <2>1, <2>2, CallbackWanted
  <2>4. Quiet' /\ NoneOfEmpty'
    BY <1>2, <2>1, <2>3 DEF Quiet, NoneOfEmpty
  <2>5. DriverInv'
    BY <1>1, <1>2, <1>3, <2>1, <2>3, <2>4 DEF DriverInv
  <2> QED
    BY <1>1, <1>2, <2>3, <2>5
<1>4. CASE pc # "idle"
  <2>q. PICK q, r : q = req /\ r = drive[q.drive]
    OBVIOUS
  <2>1. /\ q \in Requests /\ q.drive \in Drives /\ selected = q.drive /\ r \in DriveState
        /\ MultipleSet(q, r) /\ OnlyWanted(q) /\ taken \in Nat /\ left \in Nat /\ NoneOfEmpty
        /\ Phase(pc, q, taken, left, r, mem, Quiet)
        /\ BusMasterOff(pc, q, r, dma_start, dma_active)
        /\ pc \in Pcs \ {"idle"}
    BY <1>4, <2>q, AtWork DEF DriverInv
  <2>2. /\ id \in cancelled[d] => OnlyWanted(q)' /\ (Quiet' <=> Quiet)
        /\ id \notin cancelled[d] => /\ d = q.drive /\ q.drive \notin Empty /\ ~ Quiet /\ Quiet'
                                     /\ Wanted(q, prdt, calls[d][id]) /\ calls[d][id] \in Calls
    BY <1>1, <2>1, CallbackWanted
  <2>m. PICK m : m = mem'
    OBVIOUS
  <2>p. PICK p, t, k : p = pc /\ t = taken /\ k = left
    OBVIOUS
  <2>3. CASE id \in cancelled[d]
    <3>1. m = mem /\ drive'[q.drive] = r /\ NoneOfEmpty' /\ dma_active' = dma_active
      BY <1>2, <2>1, <2>3, <2>m, <2>q DEF NoneOfEmpty
    <3>2. Phase(p, q, t, k, r, m, Quiet')
      BY <2>1, <2>2, <2>3, <2>p, <3>1, QuietPhase
    <3>3. BusMasterOff(p, q, r, dma_start', dma_active')
      BY <1>1, <2>1, <2>p, <3>1
    <3>4. DriverInv'
      BY <1>1, <2>1, <2>2, <2>3, <2>m, <2>p, <2>q, <3>1, <3>2, <3>3, Becomes
    <3> QED
      BY <1>1, <1>2, <2>3, <3>4
  <2>4. CASE id \notin cancelled[d]
    <3> DEFINE c == calls[d][id]
    <3>1. /\ d = q.drive /\ q.drive \notin Empty /\ ~ Quiet /\ Quiet'
          /\ Wanted(q, prdt, c) /\ c \in Calls
      BY <2>2, <2>4
    <3>2. Arrive(q.drive, r, c, irq, FALSE)
      BY <1>1, <2>4, <2>q, <3>1 DEF Callback
    <3> HIDE DEF c
    <3>0. Phase(p, q, t, k, r, mem, Quiet) /\ (Quiet <=> FALSE)
      BY <2>1, <2>p, <3>1
    <3>b. BusMasterOff(p, q, r, dma_start, dma_active)
      BY <2>1, <2>p
    <3>f. Phase(p, q, t, k, r, mem, FALSE)
      BY <3>0 DEF Phase, Started, Waiting
    <3>3. Phase(p, q, t, k, r, mem, FALSE) /\ BusMasterOff(p, q, r, dma_start, dma_active)
      BY <3>b, <3>f
    <3>4. Awaits(q, r) /\ p \in {"start", "wait", "abort", "reset"}
      BY <3>3 DEF Phase, Started, Waiting
    <3>5. /\ \E a : drive' = [drive EXCEPT ![q.drive] = a] /\ Answered(q, a, mem')
          /\ dma_active' = dma_active \/ dma_active' = FALSE
          /\ mem' # mem => /\ q.cmd \in {"read_dma", "packet_dma"} /\ mem' = [start |-> q.start, n |-> q.n]
      BY <2>1, <3>1, <3>2, <3>4, ArrivalAnswers
    <3>6. PICK a : drive' = [drive EXCEPT ![q.drive] = a] /\ Answered(q, a, m)
      BY <2>m, <3>5
    <3>7. PICK on, active, after : on = dma_start /\ active = dma_active /\ after = dma_active'
      OBVIOUS
    <3>8. Phase(p, q, t, k, a, m, TRUE) /\ BusMasterOff(p, q, a, on, after)
      BY <2>1, <3>3, <3>5, <3>6, <3>7, AnsweredPhase
    <3>9. BusMasterOff(p, q, a, dma_start', dma_active')
      BY <1>1, <3>7, <3>8
    <3>10. OnlyWanted(q)'
      BY <3>1 DEF Quiet, OnlyWanted
    <3>11. MultipleSet(q, a)
      BY <3>6 DEF Answered
    <3>12. DriverInv'
      BY <1>1, <1>4, <2>1, <2>m, <2>p, <2>q, <3>1, <3>6, <3>8, <3>9, <3>10, <3>11, Touches
    <3>13. mem' # mem => pc \in {"start", "wait", "abort", "reset"} /\ MemoryOf(req)
      <4>1. [start |-> q.start, n |-> q.n].start = q.start /\ [start |-> q.start, n |-> q.n].n = q.n
        OBVIOUS
      <4> QED
        BY <2>p, <2>q, <3>4, <3>5, <4>1 DEF MemoryOf
    <3>14. c.op = "dma" => c.prdt = prdt
      BY <3>1 DEF Wanted
    <3> QED
      BY <1>1, <3>12, <3>13, <3>14 DEF c
  <2> QED
    BY <2>3, <2>4
<1> QED
  BY <1>3, <1>4

-----------------------------------------------------------------------------
(* Every step.                                                             *)

LEMMA DriverSteps ==
  ASSUME Regs, Ios, DriverInv, DriverNext
  PROVE  /\ DriverInv'
         /\ mem' # mem => pc \in {"start", "wait", "abort", "reset"} /\ MemoryOf(req)
         /\ wrote' # wrote => /\ ImageOf(req)
                              /\ \/ pc = "transfer" /\ taken' = req.n
                                 \/ pc = "start" /\ req.cmd = "write_dma"
<1>1. ASSUME NEW q \in Requests, Begin(q) PROVE DriverInv' /\ UNCHANGED <<mem, wrote>>
  BY <1>1, BeginInv DEF Begin, Select, history
<1>2. CASE EnableInterrupts
  BY <1>2, EnableInv DEF EnableInterrupts, WriteControl, history
<1>3. CASE Program
  BY <1>3, ProgramInv DEF Program, WriteTaskFile, history
<1>4. CASE SetTable
  BY <1>4, SetTableInv DEF SetTable, SetPrdt, history
<1>5. CASE Issue
  BY <1>5, IssueInv
<1>6. CASE Interrupted
  BY <1>6, InterruptedInv
<1>7. CASE SendPacket
  BY <1>7, SendPacketInv
<1>8. CASE StartDma
  <2>1. pc = "start"
    BY <1>8 DEF StartDma
  <2> QED
    BY <1>8, <2>1, StartDmaInv
<1>9. CASE Poll
  BY <1>9, PollInv
<1>10. CASE Transfer
  <2>1. pc = "transfer"
    BY <1>10 DEF Transfer
  <2> QED
    BY <1>10, <2>1, TransferInv
<1>11. CASE StopDma
  BY <1>11, StopInv
<1>12. CASE Done
  BY <1>12, DoneInv
<1>13. CASE Abort
  BY <1>13, AbortInv
<1>14. CASE ResetChannel
  BY <1>14, ResetInv
<1>15. CASE Timeout
  BY <1>15, TimeoutInv
<1>16. ASSUME NEW d \in Drives, NEW id \in Ids, Answer(d, id)
       PROVE  /\ DriverInv' /\ wrote' = wrote
              /\ mem' # mem => pc \in {"start", "wait", "abort", "reset"} /\ MemoryOf(req)
  BY <1>16, AnswerInv
<1> QED
  BY <1>1, <1>2, <1>3, <1>4, <1>5, <1>6, <1>7, <1>8, <1>9, <1>10, <1>11, <1>12, <1>13, <1>14,
     <1>15, <1>16 DEF DriverNext, Drive, Proceed

\* What holds in every state: the types, the bookkeeping of the reads, and where
\* the channel is with the driver's request.
DriverIInv == Regs /\ Ios /\ DriverInv

LEMMA DriverInitInv == DriverInit => DriverIInv
<1> SUFFICES ASSUME DriverInit PROVE DriverIInv
  OBVIOUS
<1>1. Regs /\ Ios
  BY InvariantInit DEF DriverInit, Invariant
<1>2. /\ pc = "idle" /\ taken = 0 /\ left = 0 /\ dma_start = FALSE /\ dma_active = FALSE
      /\ in_progress = [d \in Drives |-> {}]
      /\ drive = [d \in Drives |-> InitialRegisters]
  BY DEF DriverInit, Init
<1>3. NoneOfEmpty
  BY <1>2, DriveAssumption DEF NoneOfEmpty, InitialRegisters
<1>4. Quiet
  BY <1>2 DEF Quiet
<1> QED
  BY <1>1, <1>2, <1>3, <1>4 DEF DriverIInv, DriverInv

LEMMA DriverStepInv == DriverIInv /\ [DriverNext]_allvars => DriverIInv'
<1> SUFFICES ASSUME Regs, Ios, DriverInv, [DriverNext]_allvars PROVE DriverIInv'
  BY DEF DriverIInv
<1>1. CASE Drive \/ Proceed \/ Timeout
  <2>1. Regs' /\ Ios'
    BY <1>1, DriverStepTypes DEF IosKept
  <2>2. DriverInv'
    BY <1>1, DriverSteps DEF DriverNext
  <2> QED
    BY <2>1, <2>2 DEF DriverIInv
<1>2. ASSUME NEW d \in Drives, NEW id \in Ids, Answer(d, id) PROVE DriverIInv'
  <2>1. Regs' /\ Ios'
    BY <1>2, CallbackTypes DEF Answer, Regs, Touched, Kept
  <2>2. DriverInv'
    BY <1>2, AnswerInv
  <2> QED
    BY <2>1, <2>2 DEF DriverIInv
<1>3. CASE UNCHANGED allvars
  <2>1. UNCHANGED <<drive, in_progress, cancelled, calls, selected, nien, irq, dma_start, dma_active,
                    dma_irq, prdt, mem, pc, req, taken, left>>
    BY <1>3 DEF allvars, vars, registers, ios, history, driver
  <2>2. Regs'
    BY <2>1 DEF Regs
  <2>3. Ios'
    BY <2>1 DEF Ios, IoBookkeeping, Outstanding
  <2>4. (Quiet' <=> Quiet) /\ NoneOfEmpty'
    BY <2>1 DEF Quiet, NoneOfEmpty, DriverInv
  <2>5. ASSUME pc = "idle" PROVE DriverInv'
    <3>1. Quiet /\ ~ dma_start /\ ~ dma_active /\ taken \in Nat /\ left \in Nat
      BY <2>5 DEF DriverInv
    <3>2. /\ pc' = "idle" /\ ~ dma_start' /\ ~ dma_active' /\ taken' \in Nat /\ left' \in Nat
      BY <2>1, <2>5, <3>1
    <3>3. Quiet' /\ NoneOfEmpty'
      BY <2>4, <3>1
    <3>4. pc' = "idle" => DriverInv'
      BY <3>2, <3>3 DEF DriverInv
    <3> QED
      BY <3>2, <3>4
  <2>6. ASSUME pc # "idle" PROVE DriverInv'
    <3>p. PICK p, k : p = pc /\ k = left
      OBVIOUS
    <3>1. Phase(p, req, taken, k, drive[req.drive], mem, Quiet) /\ k \in Nat
      BY <2>6, <3>p, AtWork
    <3>2. BusMasterOff(p, req, drive[req.drive], dma_start', dma_active')
      BY <2>1, <2>6, <3>p, AtWork
    <3>3. p \in Pcs \ {"idle"} /\ UNCHANGED ios /\ pc' = p /\ left' = k
      BY <2>1, <2>6, <3>p DEF DriverInv, ios
    <3>4. UNCHANGED <<req, taken, drive, selected, prdt, mem, ios>>
      BY <2>1, <3>3
    <3> QED
      BY <2>6, <3>1, <3>2, <3>3, <3>4, Moves
  <2> QED
    BY <2>2, <2>3, <2>5, <2>6 DEF DriverIInv
<1> QED
  BY <1>1, <1>2, <1>3 DEF DriverNext

LEMMA DriverInvariance == DriverSpec => []DriverIInv
  BY DriverInitInv, DriverStepInv, PTL DEF DriverSpec

-----------------------------------------------------------------------------
(* What the driver can rely on.                                            *)

\* While the driver moves data through the port, the drive offers the units of
\* this request, in order, and not more of them than the driver was told of.
THEOREM PortOffersTheRequest == DriverSpec => []PortShowsRequest
<1>1. DriverIInv => PortShowsRequest
  <2> SUFFICES ASSUME Regs, DriverInv, pc = "transfer" PROVE PortShowsRequest
    BY DEF DriverIInv, PortShowsRequest
  <2>q. PICK q, t, k, r : q = req /\ t = taken /\ k = left /\ r = drive[q.drive]
    OBVIOUS
  <2>1. /\ q \in Requests /\ t \in Nat /\ k \in Nat /\ r \in DriveState
        /\ Phase("transfer", q, t, k, r, mem, Quiet)
    BY <2>q, AtWork
  <2>2. Offers(q, t, r, k)
    BY <2>1 DEF Phase
  <2>3. /\ r.ptr = t /\ r.end \in Nat /\ t + 1 <= r.end /\ r.end <= t + k
    BY <2>1, <2>2, UnitTaken DEF Offers
  <2>4. InBuffer(r) /\ r.end - r.ptr <= k
    BY <2>1, <2>3, NotNone DEF InBuffer
  <2>5. q.cmd \notin MultipleWrites => r.end - r.ptr = k
    <3>1. q.cmd \notin MultipleWrites => r.end = t + k
      BY <2>2 DEF Offers
    <3> QED
      BY <2>1, <2>3, <3>1
  <2>6. /\ r.status = "drq"
        /\ q.cmd \in PioReads \ {"identify"} => r.data = q.start
        /\ q.cmd \in WriteCommands => r.write_dest = q.start
    BY <2>2 DEF Offers
  <2> QED
    BY <2>3, <2>4, <2>5, <2>6, <2>q DEF PortShowsRequest, Current
<1> QED
  BY <1>1, DriverInvariance, PTL

\* A request the driver sees completed has moved everything it asked for, and
\* the task file stands behind its last sector.
THEOREM CompletedIsComplete == DriverSpec => []DoneIsComplete
<1>1. DriverIInv => DoneIsComplete
  <2> SUFFICES ASSUME Regs, DriverInv, pc = "done", req.drive \notin Empty PROVE DoneIsComplete
    BY DEF DriverIInv, DoneIsComplete
  <2>q. PICK q, t, r : q = req /\ t = taken /\ r = drive[q.drive]
    OBVIOUS
  <2>1. q \in Requests /\ Phase("done", q, t, left, r, mem, Quiet)
    BY <2>q, AtWork
  <2>2. Complete(q, t, r, mem)
    BY <2>1, <2>q DEF Phase
  <2>3. ASSUME q.cmd \in {"read", "write"} \cup DmaCommands
        PROVE  r.lba = (q.start + q.n) % LbaWrap /\ r.count = 0
    <3>1. WithinDisk(q) /\ TaskFile(q, r, q.n)
      BY <2>2, <2>3 DEF Complete
    <3>2. q.start \in Nat /\ q.n \in Nat /\ Sectors \in Nat /\ LbaWrap \in Nat \ {0} /\ Sectors < LbaWrap
      BY <2>1, RequestFacts, CountAssumption
    <3>3. q.start + q.n \in 0 .. LbaWrap - 1
      BY <3>1, <3>2 DEF WithinDisk
    <3>4. (q.start + q.n) % LbaWrap = q.start + q.n
      BY <3>2, <3>3, Small
    <3>5. q.n - q.n = 0 /\ CountOf(0) = 0
      BY <3>2, CountAssumption DEF CountOf
    <3> QED
      BY <3>1, <3>4, <3>5 DEF TaskFile
  <2>4. /\ q.cmd \in PioReads \cup WriteCommands => t = q.n
        /\ q.cmd \in {"read_dma", "packet_dma"} => mem.start = q.start /\ mem.n = q.n
    BY <2>2 DEF Complete
  <2> QED
    BY <2>3, <2>4, <2>q DEF DoneIsComplete, Current
<1> QED
  BY <1>1, DriverInvariance, PTL

\* The bus master writes memory only for the request that has started it.
THEOREM MemoryOnlyForTheRequest == DriverSpec => MemoryIsRequested
<1> DEFINE Requested == mem' # mem => /\ pc \in {"start", "wait", "abort", "reset"}
                                      /\ req.cmd \in {"read_dma", "packet_dma"}
                                      /\ mem'.start = req.start /\ mem'.n = req.n
<1>1. DriverIInv /\ [DriverNext]_allvars => [Requested]_allvars
  BY DriverSteps DEF DriverIInv, MemoryOf
<1> QED
  BY <1>1, DriverInvariance, PTL DEF DriverSpec, MemoryIsRequested

\* A bus master read ends with the table it started with, as
\* do_ata_read_sectors_dma asserts, for a guest whose state is not restored.
THEOREM TableIsKept == DriverSpec => TableKept
<1> DEFINE Kept1 ==
      \A d \in Drives, id \in Ids :
          /\ calls[d][id] # None /\ calls'[d][id] = None
          /\ id \notin cancelled[d] /\ calls[d][id].op = "dma"
          => calls[d][id].prdt = prdt
<1>1. ASSUME Regs, Ios, DriverInv, DriverNext PROVE Kept1
  <2>1. CASE Drive \/ Proceed \/ Timeout
    BY <1>1, <2>1, DriverStepTypes DEF IosKept
  <2>2. ASSUME NEW e \in Drives, NEW i \in Ids, Answer(e, i) PROVE Kept1
    <3> SUFFICES ASSUME NEW d \in Drives, NEW id \in Ids, calls[d][id] # None, calls'[d][id] = None,
                        id \notin cancelled[d], calls[d][id].op = "dma"
                 PROVE  calls[d][id].prdt = prdt
      OBVIOUS
    <3>1. e = d /\ i = id
      BY <1>1, <2>2 DEF Answer, Callback, Ios
    <3> QED
      BY <1>1, <2>2, <3>1, AnswerInv
  <2> QED
    BY <1>1, <2>1, <2>2 DEF DriverNext
<1>2. DriverIInv /\ [DriverNext]_allvars => [Kept1]_allvars
  BY <1>1 DEF DriverIInv
<1> QED
  BY <1>2, DriverInvariance, PTL DEF DriverSpec, TableKept


\* The driver's own variables, and that it has not been saved.
Bounds ==
    /\ pc \in Pcs /\ req \in Requests \cup {None}
    /\ taken \in 0 .. Sectors /\ left \in 0 .. Sectors
    /\ saved = None

LEMMA TransferBounds ==
  DriverIInv /\ pc = "transfer" =>
    taken + left <= Sectors /\ left >= 1 /\ taken \in Nat /\ left \in Nat
<1> SUFFICES ASSUME DriverIInv, pc = "transfer"
             PROVE  taken + left <= Sectors /\ left >= 1 /\ taken \in Nat /\ left \in Nat
  OBVIOUS
<1>0. Sectors \in Nat
  BY CountAssumption
<1>q. PICK q, t, k, r : q = req /\ t = taken /\ k = left /\ r = drive[q.drive]
  OBVIOUS
<1>1. /\ q \in Requests /\ t \in Nat /\ k \in Nat /\ r \in DriveState /\ Offers(q, t, r, k)
  BY <1>q, AtWork DEF DriverIInv, Phase
<1>2. t + k <= q.n /\ k >= 1 /\ q.n \in Nat
  BY <1>1, UnitTaken
<1>3. q.n <= Sectors
  <2>1. q.cmd = "identify" => q.n = 1
    BY <1>1, RequestFacts
  <2>2. q.cmd # "identify" => q.start + q.n <= Sectors /\ q.start \in Nat
    BY <1>1, RequestFacts DEF Offers, WithinDisk
  <2>3. Sectors >= 1
    BY CountAssumption
  <2> QED
    BY <1>0, <1>2, <2>1, <2>2, <2>3
<1> QED
  BY <1>0, <1>1, <1>2, <1>3, <1>q

LEMMA DriverBounds ==
  ASSUME DriverIInv, DriverIInv', Bounds, [DriverNext]_allvars
  PROVE  Bounds'
<1>0. Sectors \in Nat /\ 0 \in 0 .. Sectors /\ taken \in 0 .. Sectors /\ left \in 0 .. Sectors
  BY CountAssumption DEF Bounds
<1>1. pc' \in Pcs
  BY DEF DriverIInv, DriverInv, Pcs
<1>2. saved' = saved
  <2>1. CASE Drive \/ Proceed \/ Timeout
    BY <2>1, DriverStepTypes DEF DriverIInv
  <2>2. CASE (\E d \in Drives, id \in Ids : Answer(d, id)) \/ UNCHANGED allvars
    BY <2>2 DEF Answer, Callback, allvars, vars
  <2> QED
    BY <2>1, <2>2 DEF DriverNext
<1>3. req' \in Requests \cup {None}
  <2>1. pc' # "idle" => req' \in Requests
    BY DEF DriverIInv, DriverInv, Driving
  <2>2. pc' = "idle" => req' \in {req, None}
    BY DEF DriverNext, Drive, Begin, EnableInterrupts, Proceed, Program, SetTable, Issue, Interrupted,
           SendPacket, StartDma, Poll, Transfer, StopDma, Done, Abort, ResetChannel, Timeout, Answer,
           Goto, driver, allvars
  <2> QED
    BY <2>1, <2>2 DEF Bounds
<1>4. \/ taken' \in {0, taken}
      \/ pc = "transfer" /\ taken' = taken + 1
  BY DEF DriverNext, Drive, Begin, EnableInterrupts, Proceed, Program, SetTable, Issue, Interrupted,
         SendPacket, StartDma, Poll, Transfer, StopDma, Done, Abort, ResetChannel, Timeout, Answer,
         Goto, driver, allvars
<1>5. \/ left' \in {0, left}
      \/ pc' = "transfer"
      \/ left' = left - 1 /\ pc = "transfer"
  BY DEF DriverNext, Drive, Begin, EnableInterrupts, Proceed, Program, SetTable, Issue, Interrupted,
         SendPacket, StartDma, Poll, Transfer, StopDma, Done, Abort, ResetChannel, Timeout, Answer,
         Goto, driver, allvars
<1>6. DriverIInv /\ pc = "transfer" =>
        taken + left <= Sectors /\ left >= 1 /\ taken \in Nat /\ left \in Nat
  BY TransferBounds
<1>7. (DriverIInv /\ pc = "transfer" => taken + left <= Sectors /\ left >= 1 /\ taken \in Nat /\ left \in Nat)'
  BY TransferBounds, PTL
<1>8. taken' \in 0 .. Sectors
  BY <1>0, <1>4, <1>6
<1>9. left' \in 0 .. Sectors
  <2>1. CASE pc' = "transfer"
    BY <1>0, <1>7, <2>1
  <2>2. CASE left' \in {0, left}
    BY <1>0, <2>2
  <2>3. CASE left' = left - 1 /\ pc = "transfer"
    BY <1>0, <1>6, <2>3
  <2> QED
    BY <1>5, <2>1, <2>2, <2>3
<1> QED
  BY <1>1, <1>2, <1>3, <1>8, <1>9 DEF Bounds

\* The registers and the driver keep their ranges: no more units go through the
\* data port than the disk has.
THEOREM DriverTypes == DriverSpec => []DriverTypeOK
<1>1. DriverInit => Bounds
  BY CountAssumption DEF DriverInit, Init, Bounds, Pcs
<1>2. DriverIInv /\ DriverIInv' /\ Bounds /\ [DriverNext]_allvars => Bounds'
  BY DriverBounds
<1>3. DriverIInv /\ Bounds => DriverTypeOK
  BY DEF DriverIInv, Regs, Ios, Bounds, DriverTypeOK, TypeOK, SavedOK
<1> QED
  BY <1>1, <1>2, <1>3, DriverInvariance, PTL DEF DriverSpec

-----------------------------------------------------------------------------
(* The service of module DriveService.  First what each step that touches  *)
(* the drive moves: a bus master request has moved when its drive becomes  *)
(* ready, and memory or the image changes in the same step.                *)

MasterKinds == {"read_dma", "packet_dma"}

ExtentOf(q) == [start |-> q.start, n |-> q.n]

\* A drive with an image, and a request within it.
Servable(q) == q.drive \notin Empty /\ (q.cmd # "identify" => WithinDisk(q))

\* The bus master moves the data of q, and its drive becomes ready.
MovesToMemory(q) ==
    /\ q.cmd \in MasterKinds /\ Servable(q)
    /\ drive[q.drive].status # "ready" /\ drive'[q.drive].status = "ready"
    /\ mem' = ExtentOf(q)

MovesToImage(q) ==
    /\ q.cmd = "write_dma" /\ Servable(q)
    /\ drive[q.drive].status # "ready" /\ drive'[q.drive].status = "ready"
    /\ wrote' = ExtentOf(q)

\* The registers may change, but what the bus master has done has not.
KeepsReady(q) ==
    q.cmd \in BusMaster => (drive'[q.drive].status = "ready" <=> drive[q.drive].status = "ready")

LEMMA ArrivalMoves ==
  ASSUME Regs, NEW d \in Drives, NEW r \in DriveState, NEW c \in Calls, NEW line, NEW once,
         Arrive(d, r, c, line, once)
  PROVE  /\ c.op \in {"pio", "atapi"} => mem' = mem
         /\ c.op = "dma" => drive'[d].status = "ready" /\ mem' = ExtentOf(c)
         /\ c.op = "atapi_dma" => \/ drive'[d].status = "ready" /\ mem' = ExtentOf(c) /\ dma_active
                                  \/ drive'[d].status = "drq" /\ mem' = mem
<1>0. drive \in [Drives -> DriveState]
  BY DEF Regs
<1>1. CASE c.op = "dma"
  <2>1. /\ drive' = [drive EXCEPT ![d] = [Advance(r, c.n) EXCEPT !.status = "ready", !.cmd = None]]
        /\ mem' = [start |-> c.start, n |-> c.n]
    BY <1>1 DEF Arrive
  <2>2. [Advance(r, c.n) EXCEPT !.status = "ready", !.cmd = None].status = "ready"
    BY DEF Advance, DriveState
  <2> QED
    BY <1>0, <1>1, <2>1, <2>2 DEF ExtentOf
<1>2. CASE c.op = "atapi_dma"
  <2>1. \E s \in {"ready", "drq"} :
           /\ drive' = [drive EXCEPT ![d] = [DataAllocate(r, c.n) EXCEPT !.status = s, !.data = c.start]]
           /\ s = "ready" => dma_active /\ mem' = [start |-> c.start, n |-> c.n]
           /\ s = "drq" => mem' = mem
    BY <1>2 DEF Arrive
  <2>2. PICK s \in {"ready", "drq"} :
           /\ drive' = [drive EXCEPT ![d] = [DataAllocate(r, c.n) EXCEPT !.status = s, !.data = c.start]]
           /\ s = "ready" => dma_active /\ mem' = [start |-> c.start, n |-> c.n]
           /\ s = "drq" => mem' = mem
    BY <2>1
  <2>3. [DataAllocate(r, c.n) EXCEPT !.status = s, !.data = c.start].status = s
    BY DEF DataAllocate, DriveState
  <2>4. drive'[d].status = s
    BY <1>0, <2>2, <2>3
  <2> QED
    BY <1>2, <2>2, <2>4 DEF ExtentOf
<1>3. CASE c.op \in {"pio", "atapi"}
  BY <1>3 DEF Arrive
<1> QED
  BY <1>1, <1>2, <1>3 DEF Calls

LEMMA IssueMoves ==
  ASSUME Regs, Ios, DriverInv, Issue
  PROVE  /\ pc = "command" /\ pc' \in {"start", "poll", "wait"}
         /\ UNCHANGED <<req, taken, mem, wrote>>
         /\ req.cmd \in BusMaster => drive'[req.drive].status # "ready"
<1>1. /\ pc = "command" /\ pc' \in {"start", "poll", "wait"} /\ UNCHANGED <<req, taken>>
      /\ CommandStep(req.drive, CommandOf(req))
  BY DEF Issue, Goto
<1>2. UNCHANGED <<mem, wrote>>
  BY IssueInv
<1>q. PICK q, d : q = req /\ d = q.drive
  OBVIOUS
<1>3. q \in Requests /\ d \in Drives /\ drive \in [Drives -> DriveState] /\ drive[d] \in DriveState
  BY <1>1, <1>q, AtWork DEF Regs
<1>4. ASSUME q.cmd \in BusMaster PROVE drive'[d].status # "ready"
  <2>1. /\ CommandOf(q) \in {"packet"} \cup DmaCommands
        /\ CommandOf(q) = "packet" => d \in Cds
    <3>1. q.cmd \in Packets \/ q.cmd \in DmaCommands
      BY <1>4 DEF BusMaster, Packets
    <3>2. /\ CommandOf(q) = "packet" <=> q.cmd \in Packets
          /\ CommandOf(q) # "packet" => CommandOf(q) = q.cmd
      BY <1>3, CommandsOf
    <3>3. q.cmd \in Packets => d \in Cds
      BY <1>3, <1>q, RequestFacts
    <3> QED
      BY <3>1, <3>2, <3>3
  <2> DEFINE cmd == CommandOf(q)
  <2>2. cmd \notin ReadCommands \cup WriteCommands
        /\ cmd \notin {"reset", "nondata", "unsupported", "set_multiple", "identify"}
    BY <2>1 DEF DmaCommands, ReadCommands, WriteCommands
  <2> HIDE DEF cmd
  <2>3. CommandStep(d, cmd)
    BY <1>1, <1>q DEF cmd
  <2>4. \/ CommandAborted(d)
        \/ cmd = "packet" /\ CommandPacket(d)
        \/ OutsideOfDisk(d, cmd) \/ CommandDma(d, cmd)
    BY <2>2, <2>3 DEF CommandStep, CommandRead, CommandWrite
  <2>5. Issued(d, cmd) = [drive[d] EXCEPT !.cmd = cmd]
    BY DEF Issued
  <2>6. CASE CommandAborted(d)
    BY <1>3, <2>6 DEF CommandAborted, SetDrive, DriveState
  <2>7. CASE cmd = "packet" /\ CommandPacket(d)
    <3>1. d \in Cds
      BY <2>1, <2>7 DEF cmd
    <3>2. SetDrive(d, [DataAllocate(Issued(d, "packet"), 1) EXCEPT !.status = "drq", !.end = 1, !.data = None])
      BY <2>7, <3>1 DEF CommandPacket
    <3> QED
      BY <1>3, <3>2 DEF SetDrive, DataAllocate, Issued, DriveState
  <2>8. CASE OutsideOfDisk(d, cmd)
    BY <1>3, <2>5, <2>8 DEF OutsideOfDisk, SetDrive, DriveState
  <2>9. CASE CommandDma(d, cmd)
    BY <1>3, <2>5, <2>9 DEF CommandDma, SetDrive, DriveState
  <2> QED
    BY <2>4, <2>6, <2>7, <2>8, <2>9
<1> QED
  BY <1>1, <1>2, <1>4, <1>q

LEMMA PacketMoves ==
  ASSUME Regs, Ios, DriverInv, SendPacket
  PROVE  /\ pc = "packet" /\ pc' \in {"start", "wait"}
         /\ UNCHANGED <<req, taken, mem, wrote>> /\ KeepsReady(req)
<1>q. PICK q, d, r : q = req /\ d = q.drive /\ r = drive[d]
  OBVIOUS
<1>1. /\ pc = "packet" /\ pc' \in {"start", "wait"} /\ UNCHANGED <<req, taken>>
      /\ q.cmd = "packet_dma" => PacketReadDma(d, q.start, q.n)
  BY <1>q DEF SendPacket, Goto
<1>2. UNCHANGED <<mem, wrote>>
  BY SendPacketInv
<1>3. /\ q \in Requests /\ d \in Drives /\ r \in DriveState /\ drive \in [Drives -> DriveState]
      /\ AskedForPacket(q, r) /\ ~ dma_active
  <2>1. /\ Phase("packet", q, taken, left, r, mem, Quiet)
        /\ BusMasterOff("packet", q, r, dma_start, dma_active)
    BY <1>1, <1>q, AtWork
  <2> QED
    BY <1>1, <1>q, <2>1, AtWork DEF Phase, BusMasterOff, Regs
<1>4. ASSUME q.cmd \in BusMaster PROVE r.status # "ready" /\ drive'[d].status # "ready"
  <2>1. q.cmd = "packet_dma" /\ r.status = "drq"
    BY <1>3, <1>4 DEF AskedForPacket, BusMaster, Packets, DmaCommands
  <2>2. q.start \in Nat /\ q.n \in Nat
    BY <1>3, RequestFacts
  <2> DEFINE b == [[r EXCEPT !.ptr = 0] EXCEPT !.status = "busy"]
             f == [[r EXCEPT !.ptr = 0] EXCEPT !.status = "fault"]
             c == Call("atapi_dma", q.start, q.n)
  <2>3. c \in Calls /\ c.op = "atapi_dma"
    <3>1. c \in Calls
      BY <2>2, CallTypes
    <3> QED
      BY <3>1 DEF Call
  <2>4. b \in DriveState /\ b.status = "busy" /\ f.status = "fault"
    BY <1>3 DEF DriveState, Statuses
  <2>5. SetDrive(d, f) \/ ReadBuffer(d, b, c, irq)
    BY <1>1, <1>q, <2>1 DEF PacketReadDma
  <2> HIDE DEF b, f, c
  <2>6. CASE SetDrive(d, f)
    BY <1>3, <2>1, <2>4, <2>6 DEF SetDrive
  <2>7. CASE ReadBuffer(d, b, c, irq)
    <3>1. CASE Arrive(d, b, c, irq, TRUE)
      BY <1>3, <2>1, <2>3, <2>4, <3>1, ArrivalMoves
    <3>2. CASE drive' = [drive EXCEPT ![d] = b]
      BY <1>3, <2>1, <2>4, <3>2
    <3> QED
      BY <2>7, <3>1, <3>2 DEF ReadBuffer
  <2> QED
    BY <2>5, <2>6, <2>7
<1> QED
  BY <1>1, <1>2, <1>4, <1>q DEF KeepsReady

LEMMA StartMoves ==
  ASSUME Regs, Ios, DriverInv, StartDma
  PROVE  /\ pc = "start" /\ pc' = "wait" /\ UNCHANGED <<req, taken>> /\ req.cmd \in BusMaster
         /\ \/ KeepsReady(req) /\ UNCHANGED <<mem, wrote>>
            \/ MovesToMemory(req) /\ wrote' = wrote
            \/ MovesToImage(req) /\ mem' = mem
<1>q. PICK q, d, r : q = req /\ d = q.drive /\ r = drive[d]
  OBVIOUS
<1>1. /\ pc = "start" /\ pc' = "wait" /\ UNCHANGED <<req, taken>>
      /\ ~ BsySet(r.status) \/ q.cmd = "packet_dma"
      /\ DmaStartRead(d) \/ DmaStartWrite(d) \/ DmaStartPacket(d)
  BY <1>q DEF StartDma, Goto
<1>s. /\ r.cmd \in {"read_dma", "write_dma", "packet"}
      /\ r.cmd = "read_dma" => DmaStartRead(d)
      /\ r.cmd = "write_dma" => DmaStartWrite(d)
      /\ r.cmd = "packet" => DmaStartPacket(d)
  BY <1>1, <1>q DEF DmaStartRead, DmaStartWrite, DmaStartPacket, DmaStart
<1>2. /\ q \in Requests /\ d \in Drives /\ r \in DriveState /\ drive \in [Drives -> DriveState]
      /\ NoneOfEmpty /\ Started(q, r, mem, Quiet)
  <2>1. Phase("start", q, taken, left, r, mem, Quiet)
    BY <1>1, <1>q, AtWork
  <2> QED
    BY <1>1, <1>q, <2>1, AtWork DEF Phase, Regs
<1>3. /\ q.start \in Nat /\ q.n \in 1 .. CountWrap /\ q.n \in Nat /\ q.cmd \in BusMaster
      /\ q.n - 0 = q.n /\ q.start + 0 = q.start
  BY <1>2, RequestFacts DEF Started
<1> DEFINE Kept2 == drive' = drive /\ UNCHANGED <<mem, wrote>>
           ToMemory == MovesToMemory(q) /\ wrote' = wrote
           ToImage == MovesToImage(q) /\ mem' = mem
<1> SUFFICES Kept2 \/ ToMemory \/ ToImage
  <2>1. Kept2 => KeepsReady(q)
    BY DEF KeepsReady
  <2> QED
    BY <1>1, <1>3, <1>q, <2>1
<1>4. CASE q.cmd \in DmaCommands /\ Refused(q, r)
  <2>1. d \in Empty
    BY <1>1, <1>4, <1>q DEF Refused, BsySet, DmaCommands
  <2>2. r.cmd = None
    BY <1>2, <1>q, <2>1 DEF NoneOfEmpty
  <2> QED
    BY <1>s, <2>2, NotNone
<1>5. CASE DmaReady(q, r) /\ q.cmd = "read_dma"
  <2> DEFINE c == Call("dma", r.lba, NumSectors(r))
  <2>1. /\ r.cmd = "read_dma" /\ r.status = "drq" /\ WithinDisk(q) /\ TaskFile(q, r, 0) /\ d \notin Empty
    BY <1>5, <1>q DEF DmaReady
  <2>2. r.lba = q.start /\ NumSectors(r) = q.n
    BY <1>2, <1>3, <2>1, SectorsAsked DEF TaskFile
  <2>3. /\ wrote' = wrote
        /\ \/ Arrive(d, r, c, irq, TRUE)
           \/ UNCHANGED <<drive, mem>>
    BY <1>q, <1>s, <2>1 DEF DmaStartRead
  <2>4. c \in Calls /\ c.op = "dma" /\ ExtentOf(c) = ExtentOf(q)
    <3>1. Call("dma", q.start, q.n) \in Calls
      BY <1>3, CallTypes
    <3> QED
      BY <2>2, <3>1 DEF Call, ExtentOf
  <2> HIDE DEF c
  <2>5. CASE Arrive(d, r, c, irq, TRUE)
    <3>1. drive'[d].status = "ready" /\ mem' = ExtentOf(q)
      BY <1>2, <2>4, <2>5, ArrivalMoves
    <3> QED
      BY <1>5, <1>q, <2>1, <2>3, <3>1 DEF MovesToMemory, MasterKinds, Servable
  <2>6. CASE UNCHANGED <<drive, mem>>
    BY <2>3, <2>6
  <2> QED
    BY <2>3, <2>5, <2>6
<1>6. CASE DmaReady(q, r) /\ q.cmd = "write_dma"
  <2>1. /\ r.cmd = "write_dma" /\ r.status = "drq" /\ WithinDisk(q) /\ TaskFile(q, r, 0) /\ d \notin Empty
    BY <1>6, <1>q DEF DmaReady
  <2>2. r.lba = q.start /\ NumSectors(r) = q.n
    BY <1>2, <1>3, <2>1, SectorsAsked DEF TaskFile
  <2> DEFINE a == [Advance(r, q.n) EXCEPT !.status = "ready", !.cmd = None]
  <2>3. /\ wrote' = ExtentOf(q) /\ mem' = mem
        /\ drive' = [drive EXCEPT ![d] = a]
    BY <1>q, <1>s, <2>1, <2>2 DEF DmaStartWrite, SetDrive, ExtentOf
  <2>4. a.status = "ready"
    BY <1>2 DEF Advance, DriveState
  <2> HIDE DEF a
  <2>5. drive'[d].status = "ready"
    BY <1>2, <2>3, <2>4
  <2> QED
    BY <1>6, <1>q, <2>1, <2>3, <2>5 DEF MovesToImage, Servable
<1>7. CASE q.cmd = "packet_dma" /\ Awaits(q, r)
  <2>1. r.cmd = "packet" /\ r.status = "busy"
    BY <1>7 DEF Awaits, ReadCommands
  <2> QED
    BY <1>q, <1>s, <2>1 DEF DmaStartPacket, DrqSet
<1>8. CASE PacketReady(q, r)
  <2> DEFINE a == [r EXCEPT !.status = "ready"]
  <2>1. /\ r.cmd = "packet" /\ r.status = "drq" /\ d \notin Empty /\ q.cmd = "packet_dma"
        /\ r.data = q.start /\ r.len = q.n
    BY <1>8, <1>q DEF PacketReady
  <2>2. /\ drive' = [drive EXCEPT ![d] = a] /\ wrote' = wrote
        /\ mem' = ExtentOf(q)
    BY <1>q, <1>s, <2>1 DEF DmaStartPacket, DrqSet, SetDrive, ExtentOf
  <2>3. drive'[d].status = "ready"
    BY <1>2, <2>2 DEF DriveState
  <2>4. WithinDisk(q)
    BY <1>2, <2>1, RequestFacts DEF Packets
  <2> QED
    BY <1>q, <2>1, <2>2, <2>3, <2>4 DEF MovesToMemory, MasterKinds, Servable
<1>9. CASE q.cmd = "packet_dma" /\ r.cmd = "packet" /\ Completed(q, 0, r, mem)
  <2>1. r.status = "ready"
    BY <1>9 DEF Completed
  <2> QED
    BY <1>q, <1>s, <1>9, <2>1 DEF DmaStartPacket, DrqSet
<1> QED
  BY <1>2, <1>4, <1>5, <1>6, <1>7, <1>8, <1>9 DEF Started, DmaReady, DmaCommands

LEMMA UnitMoves ==
  ASSUME Regs, Ios, DriverInv, Transfer
  PROVE  /\ pc = "transfer" /\ pc' \in {"transfer", "wait", "done"}
         /\ UNCHANGED <<req, mem>> /\ taken' = taken + 1
         /\ req.cmd \in PioReads \cup WriteCommands /\ Servable(req)
         /\ taken < req.n
         /\ wrote' = IF req.cmd \in WriteCommands /\ taken' = req.n THEN ExtentOf(req) ELSE wrote
<1>q. PICK q, d, r, t, k : q = req /\ d = q.drive /\ r = drive[d] /\ t = taken /\ k = left
  OBVIOUS
<1> DEFINE b == [r EXCEPT !.ptr = @ + 1]
<1>1. /\ pc = "transfer" /\ req' = q /\ taken' = t + 1
      /\ pc' \in {"transfer", "wait", "done"}
      /\ IF q.cmd \in WriteCommands THEN WriteData ELSE ReadData
  BY <1>q DEF Transfer
<1>2. /\ q \in Requests /\ d \in Drives /\ r \in DriveState /\ selected = d /\ t \in Nat /\ k \in Nat
      /\ Offers(q, t, r, k)
  <2>1. Phase("transfer", q, t, k, r, mem, Quiet)
    BY <1>1, <1>q, AtWork
  <2> QED
    BY <1>1, <1>q, <2>1, AtWork DEF Phase
<1>3. /\ b.ptr = t + 1 /\ b.len = q.n /\ b.end = r.end /\ b.write_dest = r.write_dest
      /\ r.end \in Nat /\ t + 1 <= r.end /\ t + k <= q.n /\ q.n \in Nat /\ k >= 1
      /\ r.end # t + 1 => k - 1 >= 1 /\ Offers(q, t + 1, b, k - 1)
  BY <1>2, UnitTaken
<1>b. b = [drive[selected] EXCEPT !.ptr = @ + 1]
  BY <1>2, <1>q
<1>4. /\ q.cmd \in PioReads \cup WriteCommands /\ Servable(q)
      /\ q.cmd \in WriteCommands => r.write_dest = q.start
  BY <1>2, <1>q DEF Offers, Servable
<1>e. r.end <= t + k
  BY <1>2 DEF Offers
<1>5. t < q.n
  BY <1>2, <1>3
<1> HIDE DEF b
<1> SUFFICES mem' = mem /\ wrote' = IF q.cmd \in WriteCommands /\ t + 1 = q.n THEN ExtentOf(q) ELSE wrote
  BY <1>1, <1>4, <1>5, <1>q
<1>6. CASE q.cmd \in WriteCommands
  <2>1. WriteData
    BY <1>1, <1>6
  <2>2. mem' = mem
    BY <2>1 DEF WriteData
  <2>3. CASE t + 1 = q.n
    <3>1. b.ptr = b.end /\ AllGiven(b)
      BY <1>2, <1>3, <1>e, <2>3 DEF AllGiven
    <3>2. wrote' = [start |-> b.write_dest, n |-> b.len]
      BY <1>b, <2>1, <3>1 DEF WriteData
    <3> QED
      BY <1>3, <1>4, <1>6, <2>2, <2>3, <3>2 DEF ExtentOf
  <2>4. CASE t + 1 # q.n
    <3>1. ~ AllGiven(b)
      BY <1>2, <1>3, <1>5, <2>4 DEF AllGiven
    <3>2. wrote' = wrote
      BY <1>b, <2>1, <3>1 DEF WriteData
    <3> QED
      BY <2>2, <2>4, <3>2
  <2> QED
    BY <2>3, <2>4
<1>7. CASE q.cmd \notin WriteCommands
  BY <1>1, <1>7 DEF ReadData, history
<1> QED
  BY <1>6, <1>7

LEMMA AnswerMoves ==
  ASSUME Regs, Ios, DriverInv, NEW d \in Drives, NEW id \in Ids, Answer(d, id)
  PROVE  /\ UNCHANGED <<pc, req, taken, wrote>>
         /\ \/ mem' = mem /\ (pc # "idle" => KeepsReady(req))
            \/ pc \in {"start", "wait", "abort", "reset"} /\ MovesToMemory(req)
<1>1. /\ Callback(d, id) /\ UNCHANGED <<pc, req, taken, wrote>>
  BY DEF Answer, Callback, driver
<1>2. CASE pc = "idle"
  <2>1. Quiet
    BY <1>2 DEF DriverInv
  <2>2. OnlyWanted(0)
    BY <2>1, QuietWanted
  <2>3. id \in cancelled[d]
    BY <1>1, <2>1, <2>2, CallbackWanted
  <2> QED
    BY <1>1, <1>2, <2>3 DEF Callback
<1>3. CASE pc # "idle"
  <2>q. PICK q, r, p : q = req /\ r = drive[q.drive] /\ p = pc
    OBVIOUS
  <2>1. /\ q \in Requests /\ q.drive \in Drives /\ r \in DriveState /\ drive \in [Drives -> DriveState]
        /\ OnlyWanted(q) /\ Phase(p, q, taken, left, r, mem, Quiet)
    BY <1>3, <2>q, AtWork DEF Regs
  <2>2. id \notin cancelled[d] => /\ d = q.drive /\ q.drive \notin Empty /\ ~ Quiet
                                  /\ Wanted(q, prdt, calls[d][id]) /\ calls[d][id] \in Calls
    BY <1>1, <2>1, CallbackWanted
  <2>3. CASE id \in cancelled[d]
    BY <1>1, <2>3 DEF Callback, KeepsReady
  <2>4. CASE id \notin cancelled[d]
    <3> DEFINE c == calls[d][id]
    <3>1. d = q.drive /\ q.drive \notin Empty /\ ~ Quiet /\ Wanted(q, prdt, c) /\ c \in Calls
      BY <2>2, <2>4
    <3>2. Arrive(q.drive, r, c, irq, FALSE)
      BY <1>1, <2>4, <2>q, <3>1 DEF Callback
    <3> HIDE DEF c
    <3>3. p \in {"start", "wait", "abort", "reset"} /\ Awaits(q, r)
      <4>1. p \in {"start", "wait", "abort", "reset"}
        BY <2>1, <3>1 DEF Phase
      <4> QED
        BY <2>1, <3>1, <4>1 DEF Phase, Started, Waiting
    <3>4. r.status # "ready" /\ ExtentOf(c) = ExtentOf(q)
      BY <3>1, <3>3 DEF Awaits, Wanted, ExtentOf
    <3>5. CASE c.op \in {"pio", "atapi"}
      <4>1. q.cmd \notin BusMaster
        BY <3>1, <3>5 DEF Wanted, BusMaster, ReadCommands, DmaCommands
      <4> QED
        BY <1>1, <2>1, <2>q, <3>1, <3>2, <3>5, <4>1, ArrivalMoves DEF KeepsReady
    <3>6. CASE c.op \in {"dma", "atapi_dma"}
      <4>1. q.cmd \in MasterKinds
        BY <3>1, <3>6 DEF Wanted, MasterKinds
      <4>2. Servable(q)
        <5>1. q.cmd = "read_dma" => WithinDisk(q)
          BY <3>3 DEF Awaits, ReadCommands, Packets
        <5>2. q.cmd = "packet_dma" => WithinDisk(q)
          BY <2>1, RequestFacts DEF Packets
        <5> QED
          BY <3>1, <4>1, <5>1, <5>2 DEF Servable, MasterKinds
      <4>3. \/ drive'[q.drive].status = "ready" /\ mem' = ExtentOf(q)
            \/ drive'[q.drive].status = "drq" /\ mem' = mem
        BY <2>1, <3>1, <3>2, <3>4, <3>6, ArrivalMoves
      <4>4. CASE drive'[q.drive].status = "ready" /\ mem' = ExtentOf(q)
        BY <1>1, <2>q, <3>3, <3>4, <4>1, <4>2, <4>4 DEF MovesToMemory
      <4>5. CASE drive'[q.drive].status = "drq" /\ mem' = mem
        BY <1>1, <2>q, <3>4, <4>5 DEF KeepsReady
      <4> QED
        BY <4>3, <4>4, <4>5
    <3> QED
      BY <3>1, <3>5, <3>6 DEF Wanted
  <2> QED
    BY <2>3, <2>4
<1> QED
  BY <1>2, <1>3

\* A request by bus master that the driver takes for completed has left the
\* drive ready.
Finished ==
    pc \in {"stop", "done"} /\ req.cmd \in BusMaster /\ req.drive \notin Empty
        => Current.status = "ready"

LEMMA FinishedStep ==
  ASSUME Regs, Ios, DriverInv, Finished, [DriverNext]_allvars
  PROVE  Finished'
<1> SUFFICES ASSUME pc' \in {"stop", "done"}, req'.cmd \in BusMaster, req'.drive \notin Empty
             PROVE  drive'[req'.drive].status = "ready"
  BY DEF Finished, Current
<1>1. CASE Drive \/ Timeout \/ Program \/ SetTable \/ Poll \/ Done \/ Abort \/ ResetChannel
  BY <1>1 DEF Drive, Begin, EnableInterrupts, driver, Timeout, Program, SetTable, Poll, Done, Abort,
              ResetChannel, Goto, DriverInv
<1>2. CASE Issue \/ SendPacket \/ StartDma
  BY <1>2, IssueMoves, PacketMoves, StartMoves
<1>3. CASE Transfer
  <2>1. req'.cmd \in PioReads \cup WriteCommands
    BY <1>3, UnitMoves
  <2> QED
    BY <2>1 DEF PioReads, ReadCommands, WriteCommands, BusMaster, DmaCommands, Packets
<1>4. CASE Interrupted
  <2>q. PICK q, r, t : q = req /\ r = drive[q.drive] /\ t = taken
    OBVIOUS
  <2>1. /\ pc = "wait" /\ drive' = drive /\ req' = q
        /\ ~ BsySet(r.status) /\ r.status # "drq"
    BY <1>4, <2>q DEF Interrupted, ReadStatus, registers
  <2>2. Waiting(q, t, r, mem, Quiet) /\ q.cmd \in BusMaster /\ q.drive \notin Empty
    <3>1. Phase("wait", q, t, left, r, mem, Quiet)
      BY <2>1, <2>q, AtWork
    <3> QED
      BY <2>1, <3>1 DEF Phase
  <2>3. r.status = "ready"
    BY <2>1, <2>2 DEF Waiting, Refused, Transfers, Awaits, AskedForPacket, Offers, PacketReady,
                      Completed, BsySet
  <2> QED
    BY <2>1, <2>3, <2>q
<1>5. CASE StopDma
  BY <1>5 DEF StopDma, DmaStop, Goto, Finished, Current
<1>6. ASSUME NEW d \in Drives, NEW id \in Ids, Answer(d, id)
      PROVE  drive'[req'.drive].status = "ready"
  <2>1. /\ UNCHANGED <<pc, req>>
        /\ KeepsReady(req) \/ pc \in {"start", "wait", "abort", "reset"}
    BY <1>6, AnswerMoves
  <2> QED
    BY <2>1 DEF Finished, Current, KeepsReady
<1>7. CASE UNCHANGED allvars
  BY <1>7 DEF allvars, vars, registers, driver, Finished, Current
<1> QED
  BY <1>1, <1>2, <1>3, <1>4, <1>5, <1>6, <1>7 DEF DriverNext, Proceed

LEMMA FinishedInvariance == DriverSpec => []Finished
<1>1. DriverInit => Finished
  BY DEF DriverInit, Finished
<1>2. DriverIInv /\ Finished /\ [DriverNext]_allvars => Finished'
  BY FinishedStep DEF DriverIInv
<1> QED
  BY <1>1, <1>2, DriverInvariance, PTL DEF DriverSpec

-----------------------------------------------------------------------------
(* The refinement.                                                         *)

Early == {"program", "table", "command"}

\* Stage and Moved, at point p of the driver, for a request q of which t units
\* have gone through the data port, on a drive with status s.
StageOf(p) == IF p = "idle" THEN "idle" ELSE IF p \in {"abort", "reset"} THEN "given_up" ELSE "serving"

MovedOf(p, q, t, s) ==
    IF p = "idle" THEN 0
    ELSE IF q.cmd \notin BusMaster THEN t
    ELSE IF p \notin Early /\ s = "ready" THEN q.n ELSE 0

LEMMA Mapping ==
  /\ Stage = StageOf(pc) /\ Stage' = StageOf(pc')
  /\ Moved = MovedOf(pc, req, taken, drive[req.drive].status)
  /\ Moved' = MovedOf(pc', req', taken', drive'[req'.drive].status)
  BY DEF Stage, StageOf, Moved, MovedOf, Current, Early

\* The two modules sort the commands alike.
LEMMA ServiceKinds ==
  /\ DS!PortReads = PioReads /\ DS!PortWrites = WriteCommands
  /\ DS!MemoryReads = MasterKinds /\ DS!MemoryWrites = {"write_dma"}
  /\ BusMaster = MasterKinds \cup {"write_dma"}
  /\ DS!HasData = PioReads \cup WriteCommands \cup BusMaster
  /\ BusMaster \cap (PioReads \cup WriteCommands) = {}
  /\ DS!Served <=> Servable(req)
  /\ DS!Extent = ExtentOf(req)
<1>1. DS!PortReads = PioReads
  BY DEF DS!PortReads, PioReads, ReadCommands
<1>2. DS!PortWrites = WriteCommands
  BY DEF DS!PortWrites, WriteCommands
<1>3. BusMaster = MasterKinds \cup {"write_dma"}
  BY DEF BusMaster, DmaCommands, MasterKinds
<1>4. DS!MemoryReads = MasterKinds /\ DS!MemoryWrites = {"write_dma"}
  BY DEF DS!MemoryReads, DS!MemoryWrites, MasterKinds
<1>5. DS!HasData = PioReads \cup WriteCommands \cup BusMaster
  BY <1>1, <1>2, <1>3, <1>4 DEF DS!HasData
<1>6. BusMaster \cap (PioReads \cup WriteCommands) = {}
  BY DEF BusMaster, DmaCommands, PioReads, ReadCommands, WriteCommands
<1>7. DS!Served <=> Servable(req)
  BY DEF DS!Served, Servable, WithinDisk
<1>8. DS!Extent = ExtentOf(req)
  BY DEF DS!Extent, ExtentOf
<1> QED
  BY <1>1, <1>2, <1>3, <1>4, <1>5, <1>6, <1>7, <1>8

\* Steps the service does not show.
LEMMA Silent ==
  ASSUME StageOf(pc') = StageOf(pc), UNCHANGED <<req, taken, mem, wrote>>,
         pc' = "idle" <=> pc = "idle",
         pc # "idle" /\ req.cmd \in BusMaster =>
             \/ pc \in Early /\ (pc' \in Early \/ drive'[req.drive].status # "ready")
             \/ pc \notin Early /\ pc' \notin Early /\ KeepsReady(req)
  PROVE  UNCHANGED DS!vars
<1>1. Stage' = Stage
  BY Mapping
<1>2. Moved' = Moved
  BY Mapping DEF MovedOf, KeepsReady
<1> QED
  BY <1>1, <1>2 DEF DS!vars

LEMMA ServiceStep ==
  ASSUME Regs, Ios, DriverInv, Finished, [DriverNext]_allvars
  PROVE  [DS!Next]_DS!vars
<1>1. ASSUME NEW q \in Requests, Begin(q) PROVE DS!Next
  <2>1. /\ pc = "idle" /\ pc' = "program" /\ req' = q /\ taken' = 0 /\ UNCHANGED <<mem, wrote>>
    BY <1>1 DEF Begin, Select, history
  <2>2. Stage = "idle" /\ Stage' = "serving" /\ Moved' = 0
    BY <2>1, Mapping DEF StageOf, MovedOf, Early
  <2> QED
    BY <2>1, <2>2 DEF DS!Next, DS!Submit
<1>2. CASE EnableInterrupts
  <2>1. pc = "idle" /\ UNCHANGED <<pc, req, taken, mem, wrote>>
    BY <1>2 DEF EnableInterrupts, WriteControl, driver, history
  <2> QED
    BY <2>1, Silent
<1>3. CASE Program \/ SetTable
  <2>1. pc \in Early /\ pc' \in Early /\ UNCHANGED <<req, taken, mem, wrote>>
    BY <1>3 DEF Program, SetTable, Goto, WriteTaskFile, SetPrdt, history, Early
  <2> QED
    BY <2>1, Silent DEF StageOf, Early
<1>4. CASE Issue
  <2>1. /\ pc \in Early /\ pc' \in {"start", "poll", "wait"} /\ UNCHANGED <<req, taken, mem, wrote>>
        /\ req.cmd \in BusMaster => drive'[req.drive].status # "ready"
    BY <1>4, IssueMoves DEF Early
  <2> QED
    BY <2>1, Silent DEF StageOf, Early
<1>5. CASE Interrupted \/ Poll \/ StopDma \/ Abort
  <2>1. /\ UNCHANGED <<req, taken, drive, mem, wrote>>
        /\ \/ pc \in {"wait", "poll", "stop"} /\ pc' \in {"wait", "stop", "done", "packet", "transfer"}
           \/ pc = "abort" /\ pc' = "reset"
    BY <1>5 DEF Interrupted, ReadStatus, Poll, StopDma, Abort, DmaStop, Goto, vars, registers, history
  <2> QED
    BY <2>1, Silent DEF StageOf, Early, KeepsReady
<1>6. CASE SendPacket
  <2>1. /\ pc = "packet" /\ pc' \in {"start", "wait"}
        /\ UNCHANGED <<req, taken, mem, wrote>> /\ KeepsReady(req)
    BY <1>6, PacketMoves
  <2> QED
    BY <2>1, Silent DEF StageOf, Early
<1>m. ASSUME pc \in {"start", "wait", "abort", "reset"}, pc' \in {"start", "wait", "abort", "reset"},
             StageOf(pc') = StageOf(pc), UNCHANGED <<req, wrote>>, MovesToMemory(req)
      PROVE  DS!Next
  <2>1. /\ Stage' = Stage /\ Stage \in {"serving", "given_up"}
        /\ req.cmd \in BusMaster /\ req.cmd \in DS!MemoryReads /\ DS!Served
        /\ Moved = 0 /\ Moved' = req.n /\ mem' = DS!Extent
    BY <1>m, Mapping, ServiceKinds DEF StageOf, MovedOf, Early, MovesToMemory
  <2> QED
    BY <1>m, <2>1 DEF DS!Next, DS!MoveToMemory
<1>7. CASE StartDma
  <2>1. /\ pc = "start" /\ pc' = "wait" /\ UNCHANGED <<req, taken>> /\ req.cmd \in BusMaster
        /\ \/ KeepsReady(req) /\ UNCHANGED <<mem, wrote>>
           \/ MovesToMemory(req) /\ wrote' = wrote
           \/ MovesToImage(req) /\ mem' = mem
    BY <1>7, StartMoves
  <2>2. CASE KeepsReady(req) /\ UNCHANGED <<mem, wrote>>
    BY <2>1, <2>2, Silent DEF StageOf, Early
  <2>3. CASE MovesToMemory(req) /\ wrote' = wrote
    BY <1>m, <2>1, <2>3 DEF StageOf
  <2>4. CASE MovesToImage(req) /\ mem' = mem
    <3>1. /\ Stage' = Stage /\ Stage = "serving"
          /\ req.cmd \in DS!MemoryWrites /\ DS!Served
          /\ Moved = 0 /\ Moved' = req.n /\ wrote' = DS!Extent
      BY <2>1, <2>4, Mapping, ServiceKinds DEF StageOf, MovedOf, Early, MovesToImage
    <3> QED
      BY <2>1, <2>4, <3>1 DEF DS!Next, DS!MoveToImage
  <2> QED
    BY <2>1, <2>2, <2>3, <2>4
<1>8. CASE Transfer
  <2>1. /\ pc = "transfer" /\ pc' \in {"transfer", "wait", "done"}
        /\ UNCHANGED <<req, mem>> /\ taken' = taken + 1
        /\ req.cmd \in PioReads \cup WriteCommands /\ Servable(req)
        /\ taken < req.n
        /\ wrote' = IF req.cmd \in WriteCommands /\ taken' = req.n THEN ExtentOf(req) ELSE wrote
    BY <1>8, UnitMoves
  <2>2. req.cmd \notin BusMaster
    BY <2>1, ServiceKinds
  <2>3. Stage' = Stage /\ Stage = "serving" /\ Moved = taken /\ Moved' = taken'
    BY <2>1, <2>2, Mapping DEF StageOf, MovedOf
  <2>4. DS!MoveUnit
    BY <2>1, <2>3, ServiceKinds DEF DS!MoveUnit
  <2> QED
    BY <2>4 DEF DS!Next
<1>9. CASE Done
  <2>1. /\ pc = "done" /\ pc' = "idle" /\ req' = None /\ UNCHANGED <<mem, wrote>>
    BY <1>9 DEF Done, ClearDmaStatus, history
  <2>2. Stage = "serving" /\ Stage' = "idle" /\ Moved' = 0
    BY <2>1, Mapping DEF StageOf, MovedOf
  <2>3. ASSUME req.drive \notin Empty, req.cmd \in DS!HasData PROVE Moved = req.n
    <3>1. CASE req.cmd \in BusMaster
      <4>1. drive[req.drive].status = "ready"
        BY <2>1, <2>3, <3>1 DEF Finished, Current
      <4> QED
        BY <2>1, <3>1, <4>1, Mapping DEF MovedOf, Early
    <3>2. CASE req.cmd \notin BusMaster
      <4>1. req.cmd \in PioReads \cup WriteCommands
        BY <2>3, <3>2, ServiceKinds
      <4>2. Phase("done", req, taken, left, drive[req.drive], mem, Quiet)
        BY <2>1, AtWork
      <4>3. taken = req.n
        BY <2>3, <4>1, <4>2 DEF Phase, Complete
      <4> QED
        BY <2>1, <3>2, <4>3, Mapping DEF MovedOf
    <3> QED
      BY <3>1, <3>2
  <2> QED
    BY <2>1, <2>2, <2>3 DEF DS!Next, DS!Finish, DS!Leave
<1>10. CASE Timeout
  <2>1. /\ pc \in {"wait", "poll", "start"} /\ pc' \in {"abort", "reset"}
        /\ UNCHANGED <<req, taken, drive, mem, wrote>>
    BY <1>10 DEF Timeout, Goto, vars, registers, history
  <2>2. Stage = "serving" /\ Stage' = "given_up" /\ Moved' = Moved
    BY <2>1, Mapping DEF StageOf, MovedOf, Early
  <2> QED
    BY <2>1, <2>2 DEF DS!Next, DS!GiveUp
<1>11. CASE ResetChannel
  <2>1. /\ pc = "reset" /\ pc' = "idle" /\ req' = None /\ UNCHANGED <<mem, wrote>>
    BY <1>11 DEF ResetChannel, ControlReset, history
  <2>2. Stage = "given_up" /\ Stage' = "idle" /\ Moved' = 0
    BY <2>1, Mapping DEF StageOf, MovedOf
  <2> QED
    BY <2>1, <2>2 DEF DS!Next, DS!Reset, DS!Leave
<1>12. ASSUME NEW d \in Drives, NEW id \in Ids, Answer(d, id) PROVE [DS!Next]_DS!vars
  <2>1. /\ UNCHANGED <<pc, req, taken, wrote>>
        /\ \/ mem' = mem /\ (pc # "idle" => KeepsReady(req))
           \/ pc \in {"start", "wait", "abort", "reset"} /\ MovesToMemory(req)
    BY <1>12, AnswerMoves
  <2>2. CASE mem' = mem /\ (pc # "idle" => KeepsReady(req))
    BY <2>1, <2>2, Silent
  <2>3. CASE pc \in {"start", "wait", "abort", "reset"} /\ MovesToMemory(req)
    BY <1>m, <2>1, <2>3
  <2> QED
    BY <2>1, <2>2, <2>3
<1>13. CASE UNCHANGED allvars
  <2>1. UNCHANGED <<pc, req, taken, drive, mem, wrote>>
    BY <1>13 DEF allvars, vars, registers, history, driver
  <2> QED
    BY <2>1, Silent DEF KeepsReady
<1> QED
  BY <1>1, <1>2, <1>3, <1>4, <1>5, <1>6, <1>7, <1>8, <1>9, <1>10, <1>11, <1>12, <1>13
     DEF DriverNext, Drive, Proceed

\* The channel, its drives and the image give the driver the service of module
\* DriveService, whatever it asks for and gives up, and however late the answers
\* of the image come.
THEOREM ImplementsDriveService == DriverSpec => ServesRequests
<1>1. DriverInit => DS!Init
  <2>1. DriverInit => Stage = "idle" /\ Moved = 0
    BY DEF DriverInit, Stage, Moved
  <2> QED
    BY <2>1 DEF DriverInit, Init, DS!Init
<1>2. DriverIInv /\ Finished /\ [DriverNext]_allvars => [DS!Next]_DS!vars
  BY ServiceStep DEF DriverIInv
<1> QED
  BY <1>1, <1>2, DriverInvariance, FinishedInvariance, PTL DEF DriverSpec, ServesRequests, DS!Spec
=============================================================================
