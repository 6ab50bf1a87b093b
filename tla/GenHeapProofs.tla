--------------------------- MODULE GenHeapProofs ----------------------------
(***************************************************************************)
(* Proofs about GenHeap, for any spaces, any number of objects and slots   *)
(* and any promotion age: the moves of a minor collection and the steps of *)
(* a major one preserve the invariant, and what follows from it.           *)
(***************************************************************************)
EXTENDS GenHeap, TLAPS

(* Objects that are allocated and whose slots are kept up; during a minor  *)
(* collection the husks of moved objects are among them.                   *)
Kept == alive \ lost

(* Born old, and neither a root of the running collection nor found by it. *)
Unseen == freshOld \ (remembered \union scanned)

SetsOK ==
  /\ lost \subseteq alive
  /\ freshOld \subseteq alive
  /\ remembered \subseteq Kept
  /\ scanned \subseteq Kept \ From
  /\ \A a \in Addr, s \in Slots \ Fields : heap[a][s] = Null
  /\ ~copying => freshOld = {}
  /\ phase \in {"premark", "mark"} => freshOld = {}
  /\ phase # "minor" => alive \intersect ((SpaceA \union SpaceB) \ haven) = {}
  /\ phase # "minor" => gray = {} /\ scanned = {}
  /\ phase = "minor" => copying

(* Only an object of the From spaces is forwarded, to a copy of itself. *)
ForwardOK ==
  \A a \in Addr : forwarded[a] # Null =>
     /\ phase = "minor"
     /\ a \in alive \intersect From
     /\ forwarded[a] \in scanned \intersect (haven \union Elder)
     /\ id[forwarded[a]] = id[a]

(* A trusted slot refers to a kept object. *)
RefsOK ==
  \A a \in Live \union {Root}, s \in Slots :
     heap[a][s] # Null => heap[a][s] \in Kept

(* Between collections: the remembered set holds every old object that     *)
(* refers to one the next minor collection moves or scans.                 *)
BarrierOK ==
  phase # "minor" /\ copying =>
    \A a \in (Live \intersect Old) \ freshOld, s \in Slots :
       heap[a][s] \in Young \union freshOld => a \in remembered

(* During one: what has been visited refers to nothing that still moves or *)
(* is unseen, and an old object that is not visited to nothing young.      *)
MinorOK ==
  phase = "minor" =>
    /\ gray \subseteq ({Root} \union remembered \union scanned) \X Slots
    /\ \A a \in (Live \ (From \union Unseen)) \union {Root}, s \in Slots :
          <<a, s>> \in gray \/ heap[a][s] \notin From \union Unseen
    /\ \A a \in (Live \intersect Old) \ (freshOld \union remembered \union scanned),
          s \in Slots : heap[a][s] \notin Young

(* The To space holds copies only, and the list names the wrappers that    *)
(* were young before the collection.                                       *)
WrappersOK ==
  /\ phase = "minor" =>
       /\ finalizables = {a \in alive \intersect From : id[a] \in Wrappers}
       /\ \A n \in alive \intersect haven :
             \E w \in alive \intersect From : forwarded[w] = n
  /\ phase # "minor" =>
       finalizables = {a \in alive \intersect Young : id[a] \in Wrappers}

(* Marking: the roots and what a marked object refers to are marked or on  *)
(* the stack, and these are reachable.                                     *)
MarkOK ==
  /\ phase # "mark" => marked = {} /\ markStack = {}
  /\ phase = "mark" =>
       /\ marked \union markStack \subseteq Kept
       /\ \A a \in marked \union {Root}, s \in Slots :
             heap[a][s] \in marked \union markStack \union {Null}
       /\ \A S \in SUBSET (alive \union {Root}) :
             Closed(S) => marked \union markStack \subseteq S

IInv == /\ TypeOK /\ SetsOK /\ ForwardOK /\ RefsOK /\ BarrierOK
        /\ MinorOK /\ WrappersOK /\ MarkOK

-----------------------------------------------------------------------------
(* How the spaces lie to each other: all a proof needs of HeapConstants. *)
LEMMA Spaces ==
  /\ Addr = Young \union Old /\ Young \intersect Old = {}
  /\ Elder \subseteq Old /\ Birth \subseteq Young
  /\ SpaceA \subseteq Young /\ SpaceB \subseteq Young
  /\ Birth \intersect (SpaceA \union SpaceB) = {} /\ SpaceA \intersect SpaceB = {}
  /\ Null \notin Addr /\ Root \notin Addr /\ Root # Null
  /\ Null \notin Ids /\ Wrappers \subseteq Ids /\ Fields \subseteq Slots
BY Zenon, HeapConstants DEF Addr, Young, Old

(* An empty heap satisfies the invariant. *)
LEMMA InitIInv == Init => IInv
<1> SUFFICES ASSUME Init PROVE IInv
  BY Zenon
<1> USE Spaces DEF Init
<1>1. TypeOK
  BY Zenon DEF TypeOK, Blank
<1>2. SetsOK /\ ForwardOK
  BY Zenon DEF SetsOK, ForwardOK, Kept, From, Blank
<1>3. RefsOK /\ BarrierOK /\ MinorOK
  BY Zenon DEF RefsOK, BarrierOK, MinorOK, Live, Blank
<1>4. WrappersOK /\ MarkOK
  BY Zenon DEF WrappersOK, MarkOK
<1> QED
  BY Zenon, <1>1, <1>2, <1>3, <1>4 DEF IInv

(* What the invariant says of a slot of the roots while the program runs. *)
LEMMA RootSlot ==
  ASSUME IInv, phase = "run", NEW s \in Slots, heap[Root][s] # Null
  PROVE  /\ heap[Root][s] \in Kept \intersect Live /\ heap[Root][s] \in Addr
         /\ heap[Root][s] # Root
BY Spaces DEF IInv, RefsOK, TypeOK, ForwardOK, Kept, Live

(* One lemma per action of the program. *)
LEMMA StepDrop ==
  ASSUME IInv, NEW s \in Slots, Drop(s) PROVE IInv'
<1> USE Spaces, RootSlot DEF Drop, minorVars, markVars
<1>1. TypeOK'
  BY Zenon DEF IInv, TypeOK
<1>2. SetsOK'
  BY DEF IInv, TypeOK, SetsOK, Kept, From
<1>3. ForwardOK'
  BY Zenon DEF IInv, ForwardOK, From
<1>4. RefsOK'
  BY DEF IInv, TypeOK, RefsOK, Live, Kept
<1>5. BarrierOK' /\ MinorOK'
  BY DEF IInv, TypeOK, BarrierOK, MinorOK, Live
<1>6. WrappersOK' /\ MarkOK'
  BY Zenon DEF IInv, WrappersOK, MarkOK
<1> QED
  BY Zenon, <1>1, <1>2, <1>3, <1>4, <1>5, <1>6 DEF IInv

LEMMA StepLoad ==
  ASSUME IInv, NEW s \in Slots, NEW f \in Fields, NEW t \in Slots, Load(s, f, t) PROVE IInv'
<1> USE Spaces, RootSlot DEF Load, minorVars, markVars
<1>1. TypeOK'
  BY DEF IInv, TypeOK
<1>2. SetsOK'
  BY DEF IInv, TypeOK, SetsOK, Kept, From
<1>3. ForwardOK'
  BY Zenon DEF IInv, ForwardOK, From
<1>4. RefsOK'
  BY DEF IInv, TypeOK, RefsOK, Live, Kept
<1>5. BarrierOK' /\ MinorOK'
  BY DEF IInv, TypeOK, BarrierOK, MinorOK, Live
<1>6. WrappersOK' /\ MarkOK'
  BY Zenon DEF IInv, WrappersOK, MarkOK
<1> QED
  BY Zenon, <1>1, <1>2, <1>3, <1>4, <1>5, <1>6 DEF IInv

LEMMA StepFill ==
  ASSUME IInv, NEW s \in Slots, NEW f \in Fields, NEW t \in Slots, Fill(s, f, t) PROVE IInv'
<1> USE Spaces, RootSlot DEF Fill, minorVars, markVars
<1>1. TypeOK'
  BY Zenon DEF IInv, TypeOK
<1>2. SetsOK'
  BY DEF IInv, TypeOK, SetsOK, Kept, From
<1>3. ForwardOK'
  BY Zenon DEF IInv, ForwardOK, From
<1>4. RefsOK'
  BY DEF IInv, TypeOK, RefsOK, Live, Kept
<1>5. BarrierOK' /\ MinorOK'
  BY DEF IInv, TypeOK, BarrierOK, MinorOK, Live
<1>6. WrappersOK' /\ MarkOK'
  BY DEF IInv, WrappersOK, MarkOK
<1> QED
  BY Zenon, <1>1, <1>2, <1>3, <1>4, <1>5, <1>6 DEF IInv

LEMMA StepStore ==
  ASSUME IInv, NEW s \in Slots, NEW f \in Fields, NEW t \in Slots, Store(s, f, t) PROVE IInv'
<1> DEFINE o == heap[Root][s]
           v == heap[Root][t]
<1>0. /\ phase = "run" /\ phase' = "run" /\ o # Null /\ heap' = [heap EXCEPT ![o][f] = v]
      /\ remembered' = IF Remembers(o, v) THEN remembered \union {o} ELSE remembered
      /\ UNCHANGED <<copying, alive, id, lost, haven, age, forwarded, finalizables, freshOld,
                     gray, scanned, marked, markStack>>
  BY Zenon DEF Store, markVars
<1>1. /\ o \in Kept /\ o \in Live /\ o \in Addr /\ f \in Slots
      /\ v # Null => v \in Kept
      /\ v \in Addr \union {Null}
      /\ heap \in [Addr \union {Root} -> [Slots -> Addr \union {Null}]]
  BY Zenon, <1>0, RootSlot, Spaces DEF IInv, TypeOK
<1>2. \A b \in Addr \union {Root}, q \in Slots :
         heap'[b][q] = IF b = o /\ q = f THEN v ELSE heap[b][q]
  BY Zenon, <1>0, <1>1
<1>3. Live' = Live /\ Kept' = Kept /\ Live \subseteq Addr
  BY Zenon, <1>0 DEF Live, Kept, IInv, TypeOK
<1> HIDE DEF o, v
<1>4. TypeOK'
  <2>1. heap' \in [Addr \union {Root} -> [Slots -> Addr \union {Null}]]
    BY Zenon, <1>0, <1>1
  <2>2. remembered' \subseteq Old
    BY Zenon, <1>0, <1>1, Spaces DEF Remembers, IInv, TypeOK
  <2> QED
    BY Zenon, <2>1, <2>2, <1>0 DEF IInv, TypeOK
<1>5. SetsOK'
  <2>1. \A b \in Addr, q \in Slots \ Fields : heap[b][q] = Null
    BY Zenon DEF IInv, SetsOK
  <2>2. \A b \in Addr, q \in Slots \ Fields : heap'[b][q] = Null
    BY Zenon, <2>1, <1>2
  <2>3. remembered' \subseteq Kept'
    BY Zenon, <1>0, <1>1, <1>3 DEF IInv, SetsOK
  <2> QED
    BY Zenon, <2>2, <2>3, <1>0, <1>3 DEF IInv, SetsOK
<1>6. ForwardOK'
  BY Zenon, <1>0 DEF IInv, ForwardOK, From
<1>7. RefsOK'
  BY ZenonT(40), <1>1, <1>2, <1>3 DEF IInv, RefsOK
<1>8. BarrierOK'
  <2> SUFFICES ASSUME copying, NEW b \in (Live \intersect Old) \ freshOld, NEW q \in Slots,
                      heap'[b][q] \in Young \union freshOld
               PROVE  b \in remembered'
    BY Zenon, <1>0, <1>3 DEF BarrierOK
  <2>1. CASE b = o /\ q = f
    <3>1. v \in Young \union freshOld /\ o \notin Young
      BY Zenon, <2>1, <1>1, <1>2, Spaces
    <3> QED
      BY Zenon, <2>1, <3>1, <1>0 DEF Remembers
  <2>2. CASE ~(b = o /\ q = f)
    <3>1. heap[b][q] \in Young \union freshOld
      BY Zenon, <2>2, <1>2, <1>3
    <3> QED
      BY Zenon, <3>1, <1>0 DEF IInv, BarrierOK
  <2> QED
    BY Zenon, <2>1, <2>2
<1>9. MinorOK' /\ WrappersOK' /\ MarkOK'
  BY Zenon, <1>0 DEF IInv, MinorOK, WrappersOK, MarkOK
<1> QED
  BY Zenon, <1>4, <1>5, <1>6, <1>7, <1>8, <1>9 DEF IInv

(* What a new object is to the invariant: a kept address with empty slots. *)
LEMMA BornSlots ==
  ASSUME IInv, NEW a \in Addr, NEW s \in Slots, Born(a, s), UNCHANGED <<phase, lost, forwarded>>
  PROVE  /\ a \notin alive /\ alive' = alive \union {a}
         /\ \A b \in Addr, q \in Slots : heap'[b][q] = IF b = a THEN Null ELSE heap[b][q]
         /\ \A q \in Slots : heap'[Root][q] = IF q = s THEN a ELSE heap[Root][q]
         /\ heap' \in [Addr \union {Root} -> [Slots -> Addr \union {Null}]]
         /\ id' \in [Addr -> Ids \union {Null}]
         /\ \A b \in Addr \ {a} : id'[b] = id[b]
         /\ Live' = Live \union {a} /\ Kept' = Kept \union {a}
         /\ RefsOK'
<1>1. /\ a \notin alive /\ alive' = alive \union {a}
      /\ heap' = [heap EXCEPT ![a] = Blank, ![Root][s] = a]
      /\ heap \in [Addr \union {Root} -> [Slots -> Addr \union {Null}]]
      /\ id \in [Addr -> Ids \union {Null}]
      /\ lost \subseteq alive
  BY Zenon DEF Born, IInv, TypeOK, SetsOK
<1>2. PICK i \in Ids : id' = [id EXCEPT ![a] = i]
  BY Zenon DEF Born
<1>3. Root \notin Addr /\ Null \notin Addr
  BY Zenon, Spaces
<1>4. \A b \in Addr, q \in Slots : heap'[b][q] = IF b = a THEN Null ELSE heap[b][q]
  BY Zenon, <1>1, <1>3 DEF Blank
<1>5. \A q \in Slots : heap'[Root][q] = IF q = s THEN a ELSE heap[Root][q]
  BY Zenon, <1>1, <1>3
<1>6. heap' \in [Addr \union {Root} -> [Slots -> Addr \union {Null}]]
  <2>1. Blank \in [Slots -> Addr \union {Null}]
    BY Zenon DEF Blank
  <2>2. [heap EXCEPT ![a] = Blank] \in [Addr \union {Root} -> [Slots -> Addr \union {Null}]]
    BY Zenon, <1>1, <2>1
  <2> QED
    BY Zenon, <1>1, <2>2
<1>7. id' \in [Addr -> Ids \union {Null}] /\ \A b \in Addr \ {a} : id'[b] = id[b]
  BY Zenon, <1>1, <1>2
<1>8. forwarded[a] = Null
  BY Zenon, <1>1 DEF IInv, ForwardOK
<1>9. Live' = Live \union {a} /\ Kept' = Kept \union {a}
  BY Zenon, <1>1, <1>8 DEF Live, Kept
<1>10. RefsOK'
  <2> SUFFICES ASSUME NEW b \in Live' \union {Root}, NEW q \in Slots, heap'[b][q] # Null
               PROVE  heap'[b][q] \in Kept'
    BY Zenon DEF RefsOK
  <2>1. CASE b = Root
    BY Zenon, <2>1, <1>5, <1>9 DEF IInv, RefsOK
  <2>2. CASE b = a
    BY Zenon, <2>2, <1>4
  <2>3. CASE b \in Live /\ b # a
    <3>1. b \in Addr
      BY Zenon, <2>3 DEF Live, IInv, TypeOK
    <3> QED
      BY Zenon, <2>3, <3>1, <1>4, <1>9 DEF IInv, RefsOK
  <2> QED
    BY Zenon, <2>1, <2>2, <2>3, <1>9
<1> QED
  BY Zenon, <1>1, <1>4, <1>5, <1>6, <1>7, <1>9, <1>10

LEMMA StepAllocYoung ==
  ASSUME IInv, NEW s \in Slots, AllocYoung(s) PROVE IInv'
<1>0. PICK a \in Birth :
        /\ Born(a, s) /\ age' = [age EXCEPT ![a] = 0]
        /\ finalizables' = IF id'[a] \in Wrappers THEN finalizables \union {a} ELSE finalizables
  BY Zenon DEF AllocYoung
<1>1. /\ phase = "run" /\ phase' = "run" /\ copying
      /\ UNCHANGED <<copying, lost, haven, forwarded, remembered, freshOld, gray, scanned,
                     marked, markStack>>
  BY Zenon DEF AllocYoung, markVars
<1>2. a \in Addr /\ a \in Young /\ a \notin Old /\ a \notin SpaceA \union SpaceB
  BY Zenon, Spaces
<1>3. /\ a \notin alive /\ alive' = alive \union {a}
      /\ \A b \in Addr, q \in Slots : heap'[b][q] = IF b = a THEN Null ELSE heap[b][q]
      /\ heap' \in [Addr \union {Root} -> [Slots -> Addr \union {Null}]]
      /\ id' \in [Addr -> Ids \union {Null}]
      /\ \A b \in Addr \ {a} : id'[b] = id[b]
      /\ Live' = Live \union {a} /\ Kept' = Kept \union {a}
      /\ RefsOK'
  BY Zenon, <1>0, <1>1, <1>2, BornSlots
<1>4. TypeOK'
  <2>1. age' \in [Addr -> Nat]
    BY <1>0, <1>2 DEF IInv, TypeOK
  <2> QED
    BY Zenon, <2>1, <1>0, <1>1, <1>2, <1>3 DEF IInv, TypeOK
<1>5. SetsOK'
  <2>0. \A b \in Addr, q \in Slots \ Fields : heap[b][q] = Null
    BY Zenon DEF IInv, SetsOK
  <2>1. \A b \in Addr, q \in Slots \ Fields : heap'[b][q] = Null
    BY ZenonT(40), <1>3, <2>0
  <2>2. alive' \intersect ((SpaceA \union SpaceB) \ haven) = {}
    BY Zenon, <1>1, <1>2, <1>3 DEF IInv, SetsOK
  <2>3. /\ lost' \subseteq alive' /\ freshOld' \subseteq alive' /\ remembered' \subseteq Kept'
        /\ gray' = {} /\ scanned' = {} /\ (~copying => freshOld' = {})
    BY Zenon, <1>1, <1>3 DEF IInv, SetsOK
  <2> QED
    BY Zenon, <2>1, <2>2, <2>3, <1>1 DEF SetsOK
<1>6. ForwardOK'
  BY Zenon, <1>1 DEF IInv, ForwardOK
<1>7. BarrierOK'
  <2> SUFFICES ASSUME NEW b \in (Live' \intersect Old) \ freshOld', NEW q \in Slots,
                      heap'[b][q] \in Young \union freshOld'
               PROVE  b \in remembered'
    BY Zenon DEF BarrierOK
  <2>1. b # a /\ b \in Live /\ b \in Addr
    BY Zenon, <1>2, <1>3 DEF Live, IInv, TypeOK
  <2>2. heap[b][q] \in Young \union freshOld
    BY Zenon, <2>1, <1>1, <1>3
  <2> QED
    BY Zenon, <2>1, <2>2, <1>1 DEF IInv, BarrierOK
<1>8. WrappersOK'
  <2>1. finalizables = {b \in alive \intersect Young : id[b] \in Wrappers} /\ alive \subseteq Addr
    BY Zenon, <1>1 DEF IInv, WrappersOK, TypeOK
  <2>2. finalizables' = {b \in alive' \intersect Young : id'[b] \in Wrappers}
    BY Zenon, <2>1, <1>0, <1>2, <1>3
  <2> QED
    BY Zenon, <2>2, <1>1 DEF WrappersOK
<1>9. MinorOK' /\ MarkOK'
  BY Zenon, <1>1 DEF IInv, MinorOK, MarkOK
<1> QED
  BY Zenon, <1>3, <1>4, <1>5, <1>6, <1>7, <1>8, <1>9 DEF IInv

LEMMA StepAllocOld ==
  ASSUME IInv, NEW s \in Slots, AllocOld(s) PROVE IInv'
<1>0. PICK a \in Old :
        Born(a, s) /\ freshOld' = IF copying THEN freshOld \union {a} ELSE freshOld
  BY Zenon DEF AllocOld
<1>1. /\ phase = "run" /\ phase' = "run"
      /\ UNCHANGED <<copying, lost, haven, age, forwarded, finalizables, remembered, gray,
                     scanned, marked, markStack>>
  BY Zenon DEF AllocOld, markVars
<1>2. a \in Addr /\ a \notin Young /\ a \notin SpaceA \union SpaceB /\ a # Null
  BY Zenon, Spaces
<1>3. /\ a \notin alive /\ alive' = alive \union {a}
      /\ \A b \in Addr, q \in Slots : heap'[b][q] = IF b = a THEN Null ELSE heap[b][q]
      /\ heap' \in [Addr \union {Root} -> [Slots -> Addr \union {Null}]]
      /\ id' \in [Addr -> Ids \union {Null}]
      /\ \A b \in Addr \ {a} : id'[b] = id[b]
      /\ Live' = Live \union {a} /\ Kept' = Kept \union {a}
      /\ RefsOK'
  BY Zenon, <1>0, <1>1, <1>2, BornSlots
<1>4. TypeOK'
  BY Zenon, <1>0, <1>1, <1>2, <1>3 DEF IInv, TypeOK
<1>5. SetsOK'
  <2>0. \A b \in Addr, q \in Slots \ Fields : heap[b][q] = Null
    BY Zenon DEF IInv, SetsOK
  <2>1. \A b \in Addr, q \in Slots \ Fields : heap'[b][q] = Null
    BY ZenonT(40), <1>3, <2>0
  <2>2. alive' \intersect ((SpaceA \union SpaceB) \ haven) = {}
    BY Zenon, <1>1, <1>2, <1>3 DEF IInv, SetsOK
  <2>3. /\ lost' \subseteq alive' /\ freshOld' \subseteq alive' /\ remembered' \subseteq Kept'
        /\ gray' = {} /\ scanned' = {} /\ (~copying => freshOld' = {})
    BY Zenon, <1>0, <1>1, <1>3 DEF IInv, SetsOK
  <2> QED
    BY Zenon, <2>1, <2>2, <2>3, <1>1 DEF SetsOK
<1>6. ForwardOK'
  <2>1. \A b \in Addr : forwarded[b] = Null
    BY Zenon, <1>1 DEF IInv, ForwardOK
  <2> QED
    BY Zenon, <2>1, <1>1 DEF ForwardOK
<1>7. BarrierOK'
  <2> SUFFICES ASSUME copying, NEW b \in (Live' \intersect Old) \ freshOld', NEW q \in Slots,
                      heap'[b][q] \in Young \union freshOld'
               PROVE  b \in remembered'
    BY Zenon, <1>1 DEF BarrierOK
  <2>1. b # a /\ b \in Live /\ b \in Addr /\ b \in Old \ freshOld
    BY Zenon, <1>0, <1>3 DEF Live, IInv, TypeOK
  <2>2. heap'[b][q] = heap[b][q]
    BY Zenon, <2>1, <1>3
  <2>3. heap[b][q] # a
    <3>1. a \notin Kept /\ a # Null
      BY Zenon, <1>2, <1>3 DEF Kept
    <3> QED
      BY Zenon, <2>1, <3>1 DEF IInv, RefsOK
  <2>4. heap[b][q] \in Young \union freshOld
    BY Zenon, <2>2, <2>3, <1>0
  <2> QED
    BY Zenon, <2>1, <2>4, <1>1 DEF IInv, BarrierOK
<1>8. WrappersOK'
  <2>1. finalizables = {b \in alive \intersect Young : id[b] \in Wrappers} /\ alive \subseteq Addr
    BY Zenon, <1>1 DEF IInv, WrappersOK, TypeOK
  <2>2. finalizables' = {b \in alive' \intersect Young : id'[b] \in Wrappers}
    BY Zenon, <2>1, <1>1, <1>2, <1>3
  <2> QED
    BY Zenon, <2>2, <1>1 DEF WrappersOK
<1>9. MinorOK' /\ MarkOK'
  BY Zenon, <1>1 DEF IInv, MinorOK, MarkOK
<1> QED
  BY Zenon, <1>3, <1>4, <1>5, <1>6, <1>7, <1>8, <1>9 DEF IInv

LEMMA StepSkipMinor ==
  ASSUME IInv, SkipMinor PROVE IInv'
<1> USE Spaces DEF SkipMinor, minorVars, markVars
<1>1. TypeOK'
  BY Zenon DEF IInv, TypeOK
<1>2. SetsOK'
  BY Zenon DEF IInv, TypeOK, SetsOK, Kept, From
<1>3. ForwardOK'
  BY Zenon DEF IInv, TypeOK, SetsOK, ForwardOK, From
<1>4. RefsOK'
  BY Zenon DEF IInv, TypeOK, SetsOK, RefsOK, Live, Kept
<1>5. BarrierOK' /\ MinorOK'
  BY Zenon DEF IInv, TypeOK, SetsOK, RefsOK, BarrierOK, MinorOK, Live, Kept, From, Unseen
<1>6. WrappersOK' /\ MarkOK'
  BY DEF IInv, TypeOK, WrappersOK, MarkOK, From
<1> QED
  BY Zenon, <1>1, <1>2, <1>3, <1>4, <1>5, <1>6 DEF IInv

LEMMA StepBeginMinor ==
  ASSUME IInv, BeginMinor PROVE IInv'
<1> USE Spaces DEF BeginMinor, markVars
<1>1. TypeOK'
  BY DEF IInv, TypeOK
<1>2. SetsOK'
  BY Zenon DEF IInv, TypeOK, SetsOK, Kept, From
<1>3. ForwardOK'
  BY Zenon DEF IInv, TypeOK, SetsOK, ForwardOK, From
<1>4. RefsOK'
  BY Zenon DEF IInv, TypeOK, SetsOK, RefsOK, Live, Kept
<1>5. BarrierOK'
  BY Zenon DEF BarrierOK
<1>6. MinorOK'
  <2>1. /\ Live' = Live /\ Live \subseteq Addr /\ Unseen' = freshOld \ remembered
        /\ From' \subseteq Young /\ Fields \subseteq Slots
    BY Zenon DEF Live, Unseen, From, IInv, TypeOK
  <2>2. ASSUME NEW a \in (Live \ (From' \union Unseen')) \union {Root}, NEW s \in Slots,
               <<a, s>> \notin gray'
        PROVE  heap[a][s] \notin From' \union Unseen'
    <3>1. a # Root
      BY Zenon, <2>2
    <3>2. a \in Live \intersect Old \/ a \in Young
      BY Zenon, <3>1, <2>1
    <3>3. CASE a \in remembered
      <4>1. s \notin Fields
        BY Zenon, <3>3, <2>2
      <4> QED
        BY <4>1, <3>1, <2>1, <2>2 DEF IInv, SetsOK, TypeOK, Unseen
    <3>4. CASE a \in Young
      BY Zenon, <3>1, <3>4, <2>1, <2>2 DEF IInv, SetsOK, TypeOK, From, Kept, Live
    <3>5. CASE a \in Old \ remembered
      BY Zenon, <3>1, <3>5, <2>1, <2>2 DEF IInv, BarrierOK
    <3> QED
      BY Zenon, <3>2, <3>3, <3>4, <3>5
  <2>3. ASSUME NEW a \in (Live \intersect Old) \ (freshOld \union remembered), NEW s \in Slots
        PROVE  heap[a][s] \notin Young
    BY Zenon DEF IInv, BarrierOK
  <2> QED
    BY Zenon, <2>1, <2>2, <2>3 DEF MinorOK
<1>7. WrappersOK' /\ MarkOK'
  BY DEF IInv, TypeOK, SetsOK, WrappersOK, MarkOK, From
<1> QED
  BY Zenon, <1>1, <1>2, <1>3, <1>4, <1>5, <1>6, <1>7 DEF IInv

(* A slot the minor collection visits belongs to the roots or to an object *)
(* whose slots are kept up and that does not move.                         *)
LEMMA Visiting ==
  ASSUME IInv, NEW a \in Addr \union {Root}, NEW s \in Slots, Visit(a, s)
  PROVE  /\ a \in (Live \ From) \union {Root}
         /\ a # Root => a \in remembered \union scanned
         /\ heap[a][s] # Null => heap[a][s] \in Kept /\ heap[a][s] \in Addr
BY Spaces DEF IInv, TypeOK, SetsOK, ForwardOK, RefsOK, MinorOK, Visit, Live, Kept, From

LEMMA StepKeepRef ==
  ASSUME IInv, NEW a \in Addr \union {Root}, NEW s \in Slots, KeepRef(a, s) PROVE IInv'
<1>0. /\ phase = "minor" /\ heap[a][s] \in {Null} \union haven \union (Old \ freshOld)
      /\ gray' = gray \ {<<a, s>>}
      /\ UNCHANGED <<copying, phase, alive, heap, id, lost, haven, age, forwarded, finalizables,
                     remembered, freshOld, scanned, marked, markStack>>
  BY Zenon DEF KeepRef, Visit, Visited, markVars
<1>1. Live' = Live /\ Kept' = Kept /\ From' = From /\ Unseen' = Unseen
  BY Zenon, <1>0 DEF Live, Kept, From, Unseen
<1>2. TypeOK'
  BY Zenon, <1>0 DEF IInv, TypeOK
<1>3. SetsOK' /\ ForwardOK' /\ RefsOK'
  BY Zenon, <1>0, <1>1 DEF IInv, SetsOK, ForwardOK, RefsOK
<1>4. BarrierOK'
  BY Zenon, <1>0 DEF BarrierOK
<1>5. MinorOK'
  <2>1. heap[a][s] \notin From \union Unseen
    BY <1>0, Spaces DEF IInv, TypeOK, SetsOK, From, Unseen
  <2> QED
    BY Zenon, <1>0, <1>1, <2>1 DEF IInv, MinorOK
<1>6. WrappersOK' /\ MarkOK'
  BY Zenon, <1>0, <1>1 DEF IInv, WrappersOK, MarkOK
<1> QED
  BY Zenon, <1>2, <1>3, <1>4, <1>5, <1>6 DEF IInv

(* Scanning a fresh object puts its slots in the place of the one visited. *)
LEMMA ScanStep ==
  ASSUME IInv, NEW a \in Addr \union {Root}, NEW s \in Slots, Visit(a, s),
         heap[a][s] \in freshOld, scanned' = scanned \union {heap[a][s]},
         freshOld' \in {freshOld, freshOld \ {heap[a][s]}},
         Visited(a, s, {heap[a][s]} \X Fields),
         UNCHANGED <<copying, phase, alive, heap, id, lost, haven, age, forwarded, finalizables,
                     remembered, marked, markStack>>
  PROVE  IInv'
<1> DEFINE x == heap[a][s]
<1>1. /\ Live' = Live /\ Kept' = Kept /\ From' = From /\ Unseen' = Unseen \ {x}
      /\ x \in Kept
  <2>1. Live' = Live /\ Kept' = Kept /\ From' = From /\ Unseen' = Unseen \ {x}
    BY Zenon DEF Live, Kept, From, Unseen
  <2>2. x # Null
    BY Zenon, Spaces DEF IInv, TypeOK
  <2> QED
    BY Zenon, <2>1, <2>2, Visiting
<1>2. /\ x \in Addr /\ x \notin From /\ Null \notin From \union Unseen
      /\ freshOld' \union scanned' = freshOld \union scanned \union {x}
      /\ x # Null /\ freshOld' \subseteq freshOld
      /\ gray' = (gray \ {<<a, s>>}) \union ({x} \X Fields) /\ phase = "minor"
  BY Spaces DEF IInv, TypeOK, From, Unseen, Visited, Visit
<1>3. \A q \in Slots \ Fields : heap[x][q] = Null
  BY Zenon, <1>2 DEF IInv, SetsOK
<1> HIDE DEF x
<1>4. gray' \subseteq ({Root} \union remembered' \union scanned') \X Slots
  BY <1>2, Spaces DEF IInv, MinorOK, x
<1>5. ASSUME NEW b \in (Live \ (From \union (Unseen \ {x}))) \union {Root}, NEW q \in Slots,
             <<b, q>> \notin gray'
      PROVE  heap[b][q] \notin From \union (Unseen \ {x})
  <2>1. CASE b = a /\ q = s
    BY Zenon, <2>1, <1>2 DEF x
  <2>2. CASE b = x
    <3>1. q \notin Fields
      BY Zenon, <2>2, <1>5, <1>2
    <3> QED
      BY Zenon, <3>1, <2>2, <1>2, <1>3
  <2>3. CASE b # x /\ ~(b = a /\ q = s)
    <3>1. <<b, q>> \notin gray
      BY Zenon, <2>3, <1>5, <1>2
    <3> QED
      BY Zenon, <3>1, <2>3, <1>2 DEF IInv, MinorOK
  <2> QED
    BY Zenon, <2>1, <2>2, <2>3
<1>6. ASSUME NEW b \in (Live \intersect Old) \ (freshOld' \union remembered \union scanned'),
             NEW q \in Slots
      PROVE  heap[b][q] \notin Young
  BY Zenon, <1>2 DEF IInv, MinorOK
<1>7. MinorOK'
  BY Zenon, <1>1, <1>4, <1>5, <1>6 DEF MinorOK
<1>8. TypeOK'
  <2>1. gray' \subseteq (Addr \union {Root}) \X Slots /\ freshOld' \subseteq Old
    BY <1>2, Spaces DEF IInv, TypeOK
  <2> QED
    BY Zenon, <1>2, <2>1 DEF IInv, TypeOK, x
<1>9. SetsOK'
  BY Zenon, <1>1, <1>2 DEF IInv, SetsOK, x
<1>10. ForwardOK'
  BY Zenon, <1>1, <1>2 DEF IInv, ForwardOK
<1>11. RefsOK' /\ BarrierOK'
  BY Zenon, <1>1, <1>2 DEF IInv, RefsOK, BarrierOK
<1>12. WrappersOK' /\ MarkOK'
  BY <1>1, <1>2 DEF IInv, WrappersOK, MarkOK
<1> QED
  BY Zenon, <1>7, <1>8, <1>9, <1>10, <1>11, <1>12 DEF IInv

LEMMA StepScanFresh ==
  ASSUME IInv, NEW a \in Addr \union {Root}, NEW s \in Slots, ScanFresh(a, s) PROVE IInv'
BY Zenon, ScanStep DEF ScanFresh, markVars

LEMMA StepScanUntyped ==
  ASSUME IInv, NEW a \in Addr \union {Root}, NEW s \in Slots, ScanUntyped(a, s) PROVE IInv'
BY Zenon, ScanStep DEF ScanUntyped, markVars

LEMMA StepFollowForward ==
  ASSUME IInv, NEW a \in Addr \union {Root}, NEW s \in Slots, FollowForward(a, s)
  PROVE  IInv'
<1> DEFINE n == forwarded[heap[a][s]]
<1>0. /\ phase = "minor" /\ <<a, s>> \in gray /\ heap[a][s] \in From
      /\ heap[a][s] \in Addr /\ n # Null
      /\ gray' = gray \ {<<a, s>>}
      /\ heap' = [heap EXCEPT ![a][s] = n]
      /\ UNCHANGED <<copying, phase, alive, id, lost, haven, age, forwarded,
                     finalizables, remembered, freshOld, scanned, marked, markStack>>
  BY Zenon, Spaces DEF FollowForward, Visit, Visited, markVars, From
<1>1. n \in scanned \intersect (haven \union Elder) /\ n \in Kept \ From
  BY Zenon, <1>0 DEF IInv, ForwardOK, SetsOK
<1>2. \A b \in Addr \union {Root}, q \in Slots :
         heap'[b][q] = IF b = a /\ q = s THEN n ELSE heap[b][q]
  BY Zenon, <1>0 DEF IInv, TypeOK
<1>3. /\ a \in (Live \ From) \union {Root}
      /\ a # Root => a \in remembered \union scanned
  BY Zenon, <1>0, Visiting DEF FollowForward
<1> HIDE DEF n
<1>4. TypeOK'
  BY <1>0, <1>1, Spaces DEF IInv, TypeOK, Kept
<1>5. SetsOK'
  <2>1. \A b \in Addr, q \in Slots \ Fields : heap'[b][q] = Null
    BY <1>0, <1>2, Spaces DEF IInv, SetsOK
  <2> QED
    BY Zenon, <2>1, <1>0 DEF IInv, SetsOK, Kept, From
<1>6. ForwardOK'
  BY Zenon, <1>0 DEF IInv, ForwardOK, From
<1>7. RefsOK'
  BY <1>0, <1>1, <1>2 DEF IInv, RefsOK, Live, Kept
<1>8. BarrierOK' /\ MinorOK'
  <2>0. BarrierOK' /\ Live' = Live /\ From' = From /\ Unseen' = Unseen /\ Live \subseteq Addr
    BY Zenon, <1>0 DEF BarrierOK, Live, From, Unseen, IInv, TypeOK
  <2>1. gray' \subseteq ({Root} \union remembered' \union scanned') \X Slots
    BY Zenon, <1>0 DEF IInv, MinorOK
  <2>2. ASSUME NEW b \in (Live \ (From \union Unseen)) \union {Root}, NEW q \in Slots,
               <<b, q>> \notin gray'
        PROVE  heap'[b][q] \notin From \union Unseen
    <3>1. CASE b = a /\ q = s
      <4>1. heap'[b][q] = n /\ n \notin From /\ n \in scanned
        BY Zenon, <3>1, <1>1, <1>2
      <4> QED
        BY Zenon, <4>1 DEF Unseen
    <3>2. CASE ~(b = a /\ q = s)
      <4>1. <<b, q>> \notin gray /\ b \in Addr \union {Root}
        BY Zenon, <3>2, <2>0, <2>2, <1>0
      <4>2. heap'[b][q] = heap[b][q]
        BY Zenon, <3>2, <4>1, <1>2
      <4> QED
        BY Zenon, <4>1, <4>2, <1>0 DEF IInv, MinorOK
    <3> QED
      BY Zenon, <3>1, <3>2
  <2>3. ASSUME NEW b \in (Live \intersect Old) \ (freshOld \union remembered \union scanned),
               NEW q \in Slots
        PROVE  heap'[b][q] \notin Young
    <3>1. b # a /\ b \in Addr
      BY Zenon, <1>3, <2>0, Spaces
    <3>2. heap'[b][q] = heap[b][q]
      BY Zenon, <3>1, <1>2
    <3> QED
      BY Zenon, <3>2, <1>0 DEF IInv, MinorOK
  <2> QED
    BY Zenon, <2>0, <2>1, <2>2, <2>3, <1>0 DEF MinorOK
<1>9. WrappersOK' /\ MarkOK'
  BY Zenon, <1>0 DEF IInv, WrappersOK, MarkOK, From
<1> QED
  BY Zenon, <1>4, <1>5, <1>6, <1>7, <1>8, <1>9 DEF IInv

-----------------------------------------------------------------------------
(* forward: a copy that the collection has not scanned takes the place of  *)
(* an object, in the To space or in the elder space.                       *)
LEMMA StepMove ==
  ASSUME IInv, NEW a \in Addr \union {Root}, NEW s \in Slots,
         NEW n \in haven \union Elder, MoveTo(a, s, n), age' \in [Addr -> Nat],
         UNCHANGED <<copying, phase, lost, haven, finalizables, remembered, freshOld, markVars>>
  PROVE  IInv'
<1> DEFINE r == heap[a][s]
<1>0. /\ phase = "minor" /\ <<a, s>> \in gray
      /\ r \in From /\ forwarded[r] = Null /\ n \notin alive
      /\ alive' = alive \union {n}
      /\ heap' = [heap EXCEPT ![n] = heap[r], ![a][s] = n]
      /\ id' = [id EXCEPT ![n] = id[r]]
      /\ forwarded' = [forwarded EXCEPT ![r] = n]
      /\ scanned' = scanned \union {n}
      /\ gray' = (gray \ {<<a, s>>}) \union ({n} \X Fields)
      /\ UNCHANGED <<copying, phase, lost, haven, finalizables, remembered, freshOld,
                     marked, markStack>>
  BY Zenon DEF MoveTo, Visit, Visited, markVars
<1>1. /\ a \in (Live \ From) \union {Root}
      /\ a # Root => a \in remembered \union scanned
      /\ r \in Kept /\ r \in Addr /\ r \in Live
  <2>1. Visit(a, s)
    BY Zenon DEF MoveTo
  <2>2. /\ a \in (Live \ From) \union {Root}
        /\ a # Root => a \in remembered \union scanned
        /\ r # Null => r \in Kept /\ r \in Addr
    BY Zenon, <2>1, Visiting
  <2>3. r \in Addr /\ r # Null
    BY Zenon, <1>0, Spaces DEF From
  <2> QED
    BY Zenon, <2>2, <2>3, <1>0 DEF Live, Kept
<1>2. /\ n \in Addr /\ n # Root /\ n # a /\ n # r /\ n \notin From
      /\ n \notin lost /\ a # r
      /\ n \notin freshOld /\ n \notin remembered
  <2>1. n \in Addr /\ n # Root /\ n \notin From
    BY ZenonT(40), Spaces DEF IInv, TypeOK, From
  <2>2. n \notin lost /\ n \notin freshOld /\ n \notin remembered
    BY Zenon, <1>0 DEF IInv, SetsOK, Kept
  <2>3. n # a /\ n # r /\ a # r
    BY Zenon, <2>1, <1>0, <1>1, Spaces DEF Live, Kept
  <2> QED
    BY Zenon, <2>1, <2>2, <2>3
<1>3. \A b \in Addr \union {Root}, q \in Slots :
         heap'[b][q] = IF b = a /\ q = s THEN n
                       ELSE IF b = n THEN heap[r][q] ELSE heap[b][q]
  BY Zenon, <1>0, <1>1, <1>2 DEF IInv, TypeOK
<1>4. /\ \A b \in Addr : forwarded'[b] = IF b = r THEN n ELSE forwarded[b]
      /\ \A b \in Addr : id'[b] = IF b = n THEN id[r] ELSE id[b]
      /\ forwarded[n] = Null /\ From' = From /\ n # Null
  <2>1. /\ \A b \in Addr : forwarded'[b] = IF b = r THEN n ELSE forwarded[b]
        /\ \A b \in Addr : id'[b] = IF b = n THEN id[r] ELSE id[b]
    BY Zenon, <1>0, <1>1, <1>2 DEF IInv, TypeOK
  <2>2. forwarded[n] = Null
    BY Zenon, <1>0, <1>2 DEF IInv, ForwardOK
  <2>3. From' = From /\ n # Null
    BY Zenon, <1>0, <1>2, Spaces DEF From
  <2> QED
    BY Zenon, <2>1, <2>2, <2>3
<1>5. Live' = (Live \ {r}) \union {n} /\ Kept' = Kept \union {n} /\ Unseen' = Unseen
  <2>1. Kept' = Kept \union {n}
    BY Zenon, <1>0, <1>2 DEF Kept
  <2>2. Unseen' = Unseen
    BY Zenon, <1>0, <1>2 DEF Unseen
  <2>3. ASSUME NEW b PROVE b \in Live' <=> b \in (Live \ {r}) \union {n}
    <3>1. alive \subseteq Addr
      BY Zenon DEF IInv, TypeOK
    <3>2. CASE b = n
      BY Zenon, <3>2, <1>0, <1>2, <1>4 DEF Live
    <3>3. CASE b # n
      BY Zenon, <3>1, <3>3, <1>0, <1>2, <1>4 DEF Live
    <3> QED
      BY Zenon, <3>2, <3>3
  <2> QED
    BY Zenon, <2>1, <2>2, <2>3
<1> HIDE DEF r
<1>6. TypeOK'
  <2>1. heap' \in [Addr \union {Root} -> [Slots -> Addr \union {Null}]]
    <3>1. heap[r] \in [Slots -> Addr \union {Null}]
      BY Zenon, <1>1 DEF IInv, TypeOK
    <3>2. [heap EXCEPT ![n] = heap[r]] \in [Addr \union {Root} -> [Slots -> Addr \union {Null}]]
      BY Zenon, <3>1 DEF IInv, TypeOK
    <3> QED
      BY Zenon, <3>2, <1>0, <1>2
  <2>2. id' \in [Addr -> Ids \union {Null}] /\ forwarded' \in [Addr -> Addr \union {Null}]
    BY Zenon, <1>0, <1>1, <1>2 DEF IInv, TypeOK
  <2>3. gray' \subseteq (Addr \union {Root}) \X Slots
    BY ZenonT(40), <1>0, <1>2, Spaces DEF IInv, TypeOK
  <2> QED
    BY Zenon, <2>1, <2>2, <2>3, <1>0, <1>2 DEF IInv, TypeOK
<1>7. SetsOK'
  <2>1. \A b \in Addr, q \in Slots \ Fields : heap'[b][q] = Null
    <3>1. \A b \in Addr, q \in Slots \ Fields : heap[b][q] = Null
      BY Zenon DEF IInv, SetsOK
    <3>2. a # Root => s \in Fields
      BY <1>1, <3>1, Spaces DEF IInv, TypeOK, Live, r
    <3> QED
      BY <1>1, <1>3, <3>1, <3>2, Spaces
  <2>2. /\ lost' \subseteq alive' /\ freshOld' \subseteq alive'
        /\ remembered' \subseteq Kept' /\ scanned' \subseteq Kept' \ From'
    BY Zenon, <1>0, <1>2, <1>4, <1>5 DEF IInv, SetsOK
  <2>3. copying' /\ phase' = "minor"
    BY <1>0 DEF IInv, SetsOK
  <2> QED
    BY Zenon, <2>1, <2>2, <2>3 DEF SetsOK
<1>8. ForwardOK'
  BY <1>0, <1>1, <1>2, <1>4 DEF IInv, SetsOK, ForwardOK, Kept
<1>9. RefsOK'
  <2> SUFFICES ASSUME NEW b \in Live' \union {Root}, NEW q \in Slots, heap'[b][q] # Null
               PROVE  heap'[b][q] \in Kept'
    BY Zenon DEF RefsOK
  <2>1. CASE b = a /\ q = s
    BY Zenon, <2>1, <1>1, <1>2, <1>3, <1>5 DEF Live
  <2>2. CASE b = n /\ ~ (b = a /\ q = s)
    BY ZenonT(40), <2>2, <1>1, <1>2, <1>3, <1>5 DEF IInv, RefsOK
  <2>3. CASE b # n /\ ~ (b = a /\ q = s)
    <3>1. b \in Live \union {Root} /\ b \in Addr \union {Root}
      BY Zenon, <2>3, <1>5 DEF IInv, TypeOK, Live
    <3> QED
      BY Zenon, <2>3, <3>1, <1>3, <1>5 DEF IInv, RefsOK
  <2> QED
    BY Zenon, <2>1, <2>2, <2>3
<1>10. BarrierOK'
  BY Zenon, <1>0 DEF BarrierOK
<1>11. MinorOK'
  <2>1. gray' \subseteq ({Root} \union remembered' \union scanned') \X Slots
    BY Zenon, <1>0, Spaces DEF IInv, MinorOK
  <2>2. ASSUME NEW b \in (Live' \ (From' \union Unseen')) \union {Root}, NEW q \in Slots,
               <<b, q>> \notin gray'
        PROVE  heap'[b][q] \notin From' \union Unseen'
    <3>1. CASE b = n
      <4>1. q \notin Fields
        BY Zenon, <3>1, <2>2, <1>0
      <4>2. heap'[b][q] = Null
        BY Zenon, <3>1, <4>1, <1>2, <1>7 DEF SetsOK
      <4>3. Null \notin From' \union Unseen'
        BY Zenon, <1>0, <1>4, <1>5, Spaces DEF Unseen, From, IInv, TypeOK
      <4> QED
        BY Zenon, <4>2, <4>3
    <3>2. CASE b = a /\ q = s
      <4>1. heap'[b][q] = n /\ n \notin From
        BY Zenon, <3>2, <1>2, <1>3
      <4>2. n \notin Unseen
        BY Zenon, <1>2 DEF Unseen
      <4> QED
        BY Zenon, <4>1, <4>2, <1>4, <1>5
    <3>3. CASE b # n /\ ~(b = a /\ q = s)
      <4>1. <<b, q>> \notin gray
        BY Zenon, <3>3, <2>2, <1>0
      <4>2. b \in (Live \ (From \union Unseen)) \union {Root}
        BY Zenon, <3>3, <2>2, <1>4, <1>5
      <4>3. b \in Addr \union {Root} /\ heap[b][q] \notin From \union Unseen
        BY Zenon, <4>1, <4>2, <1>0 DEF IInv, MinorOK, Live, TypeOK
      <4> QED
        BY Zenon, <4>3, <3>3, <1>3, <1>4, <1>5
    <3> QED
      BY Zenon, <3>1, <3>2, <3>3
  <2>3. ASSUME NEW b \in (Live' \intersect Old) \ (freshOld' \union remembered' \union scanned'),
               NEW q \in Slots
        PROVE  heap'[b][q] \notin Young
    <3>1. b # n /\ b # a /\ b \in Live /\ b \in Addr
      BY Zenon, <2>3, <1>0, <1>1, <1>5, Spaces
    <3> QED
      <4>1. heap'[b][q] = heap[b][q]
        BY Zenon, <3>1, <1>3
      <4>2. b \in (Live \intersect Old) \ (freshOld \union remembered \union scanned)
        BY Zenon, <3>1, <2>3, <1>0
      <4> QED
        BY Zenon, <4>1, <4>2, <1>0 DEF IInv, MinorOK
  <2> QED
    BY Zenon, <2>1, <2>2, <2>3 DEF MinorOK
<1>12. WrappersOK'
  <2>0. finalizables = {b \in alive \intersect From : id[b] \in Wrappers} /\ alive \subseteq Addr
    BY Zenon, <1>0 DEF IInv, TypeOK, WrappersOK
  <2>1. finalizables' = {b \in alive' \intersect From' : id'[b] \in Wrappers}
    BY Zenon, <2>0, <1>0, <1>2, <1>4
  <2>2. ASSUME NEW m \in alive' \intersect haven'
        PROVE  \E w \in alive' \intersect From' : forwarded'[w] = m
    <3>1. CASE m = n
      BY Zenon, <3>1, <1>0, <1>1, <1>4 DEF Kept
    <3>2. CASE m # n
      <4>1. PICK w \in alive \intersect From : forwarded[w] = m
        BY Zenon, <3>2, <2>2, <1>0 DEF IInv, WrappersOK
      <4>2. w \in Addr /\ m # Null /\ w # r
        BY Zenon, <4>1, <2>2, <1>0, Spaces DEF IInv, TypeOK
      <4> QED
        BY Zenon, <4>1, <4>2, <1>0, <1>4
    <3> QED
      BY Zenon, <3>1, <3>2
  <2> QED
    BY Zenon, <2>1, <2>2, <1>0 DEF WrappersOK
<1>13. MarkOK'
  BY Zenon, <1>0 DEF IInv, MarkOK
<1> QED
  BY Zenon, <1>6, <1>7, <1>8, <1>9, <1>10, <1>11, <1>12, <1>13 DEF IInv

LEMMA StepCopyToHaven ==
  ASSUME IInv, NEW a \in Addr \union {Root}, NEW s \in Slots, CopyToHaven(a, s)
  PROVE  IInv'
<1>1. PICK n \in haven : /\ MoveTo(a, s, n)
                         /\ age' = [age EXCEPT ![n] = age[heap[a][s]] + 1]
  BY Zenon DEF CopyToHaven
<1>2. heap[a][s] \in Addr
  BY Zenon, <1>1, Spaces DEF MoveTo, From
<1>3. age' \in [Addr -> Nat]
  <2>1. age[heap[a][s]] + 1 \in Nat /\ age \in [Addr -> Nat]
    BY <1>2 DEF IInv, TypeOK
  <2> QED
    BY Zenon, <1>1, <2>1
<1> QED
  BY Zenon, <1>1, <1>3, StepMove DEF CopyToHaven

LEMMA StepPromote ==
  ASSUME IInv, NEW a \in Addr \union {Root}, NEW s \in Slots, Promote(a, s)
  PROVE  IInv'
BY Zenon, StepMove DEF Promote, IInv, TypeOK

(* The end of a minor collection: what is left refers to what is left, and *)
(* the remembered set holds every old object that refers to a young one.   *)
LEMMA StepFinishMinor ==
  ASSUME IInv, FinishMinor PROVE IInv'
<1>0. /\ phase = "minor" /\ gray = {} /\ freshOld' = {}
      /\ remembered' = StillRemembered /\ finalizables' = StillFinalizable
      /\ alive' = alive \ From
      /\ lost' = (lost \ From) \union Unseen
      /\ scanned' = {} /\ phase' \in {"run", "premark"}
      /\ UNCHANGED <<copying, haven, gray, marked, markStack>>
  BY Zenon DEF FinishMinor, Freed, AfterMinor, markVars, Unseen
<1>1. /\ TypeOK'
      /\ heap'[Root] = heap[Root]
      /\ \A b \in Addr : heap'[b] = IF b \in alive \intersect From THEN Blank ELSE heap[b]
      /\ \A b \in Addr : id'[b] = IF b \in alive \intersect From THEN Null ELSE id[b]
      /\ \A b \in Addr : forwarded'[b] = IF b \in alive \intersect From THEN Null ELSE forwarded[b]
  <2>1. /\ heap' \in [Addr \union {Root} -> [Slots -> Addr \union {Null}]]
        /\ id' \in [Addr -> Ids \union {Null}] /\ age' \in [Addr -> Nat]
        /\ forwarded' \in [Addr -> Addr \union {Null}]
    BY Zenon DEF FinishMinor, Freed, IInv, TypeOK, Blank
  <2>2. remembered' \subseteq Old /\ finalizables' \subseteq Addr
    BY Zenon, <1>0, Spaces DEF StillRemembered, StillFinalizable, IInv, TypeOK
  <2>3. TypeOK'
    BY Zenon, <1>0, <2>1, <2>2, Spaces DEF IInv, TypeOK, Unseen
  <2>4. Root \notin alive
    BY Zenon, Spaces DEF IInv, TypeOK
  <2> QED
    BY Zenon, <2>3, <2>4 DEF FinishMinor, Freed
<1>2. \A b \in Addr : forwarded'[b] = Null
  BY Zenon, <1>1 DEF IInv, ForwardOK
<1>3. /\ Live' = Kept'
      /\ Kept' \subseteq Live \ (From \union Unseen)
  <2>1. Live' = Kept'
    BY Zenon, <1>1, <1>2 DEF Live, Kept, TypeOK
  <2>2. ASSUME NEW b \in Kept' PROVE b \in Live \ (From \union Unseen)
    BY Zenon, <2>2, <1>0 DEF IInv, TypeOK, ForwardOK, Live, Kept
  <2> QED
    BY Zenon, <2>1, <2>2
<1>4. \A b \in Kept' \union {Root}, q \in Slots :
         heap'[b][q] = heap[b][q] /\ heap[b][q] \notin From \union Unseen
  BY ZenonT(40), <1>0, <1>1, <1>3 DEF IInv, TypeOK, MinorOK, Live
<1>5. remembered' = {o \in remembered \union (scanned \intersect Old) : HasYoungRefs(o)}
  BY Zenon, <1>0 DEF StillRemembered
<1>6. SetsOK'
  <2>0. /\ lost \subseteq alive /\ freshOld \subseteq alive
        /\ remembered \subseteq alive \ lost /\ scanned \subseteq alive \ (lost \union From)
        /\ remembered \subseteq Old /\ freshOld \subseteq Old /\ Old \intersect From = {}
    BY Spaces DEF IInv, TypeOK, SetsOK, Kept, From
  <2>1. lost' \subseteq alive'
    BY Zenon, <1>0, <2>0 DEF Unseen
  <2>2. remembered' \subseteq Kept'
    BY Zenon, <1>0, <1>5, <2>0 DEF Kept, Unseen
  <2>3. \A b \in Addr, q \in Slots \ Fields : heap'[b][q] = Null
    BY <1>1 DEF IInv, SetsOK, Blank
  <2>4. alive' \intersect ((SpaceA \union SpaceB) \ haven') = {}
    BY Zenon, <1>0, Spaces DEF From
  <2> QED
    BY Zenon, <2>1, <2>2, <2>3, <2>4, <1>0 DEF SetsOK
<1>7. ForwardOK'
  BY Zenon, <1>2 DEF ForwardOK
<1>8. RefsOK'
  <2> SUFFICES ASSUME NEW b \in Kept' \union {Root}, NEW q \in Slots, heap'[b][q] # Null
               PROVE  heap'[b][q] \in Kept'
    BY Zenon, <1>3 DEF RefsOK
  <2>1. heap[b][q] \in Kept /\ heap[b][q] \notin From \union Unseen
    BY Zenon, <1>3, <1>4 DEF IInv, RefsOK
  <2> QED
    BY ZenonT(40), <2>1, <1>0, <1>4 DEF Kept
<1>9. BarrierOK' /\ MinorOK'
  <2> SUFFICES ASSUME NEW b \in (Live' \intersect Old), NEW q \in Slots, heap'[b][q] \in Young
               PROVE  b \in remembered'
    BY Zenon, <1>0 DEF BarrierOK, MinorOK
  <2>1. b \in Kept' /\ b \in Live \ (From \union Unseen) /\ heap[b][q] \in Young
    BY Zenon, <1>3, <1>4
  <2>2. b \in remembered \union scanned
    BY Zenon, <2>1, <1>0 DEF IInv, MinorOK, Unseen
  <2> QED
    BY Zenon, <2>1, <2>2, <1>5 DEF HasYoungRefs
<1>10. WrappersOK'
  <2>1. finalizables = {b \in alive \intersect From : id[b] \in Wrappers}
    BY Zenon, <1>0 DEF IInv, WrappersOK
  <2>2. finalizables' = {forwarded[w] : w \in {x \in finalizables : forwarded[x] # Null}}
                          \intersect Young
    BY Zenon, <1>0 DEF StillFinalizable
  <2>3. ASSUME NEW w \in finalizables, forwarded[w] # Null, forwarded[w] \in Young
        PROVE  forwarded[w] \in alive' \intersect Young /\ id'[forwarded[w]] \in Wrappers
    <3>1. /\ forwarded[w] \in scanned /\ id[forwarded[w]] = id[w] /\ id[w] \in Wrappers
      BY Zenon, <2>1, <2>3 DEF IInv, TypeOK, ForwardOK
    <3>2. forwarded[w] \in alive \ From /\ forwarded[w] \in Addr
      BY Zenon, <3>1 DEF IInv, TypeOK, SetsOK, Kept
    <3> QED
      BY Zenon, <3>1, <3>2, <2>3, <1>0, <1>1
  <2>4. ASSUME NEW n \in alive' \intersect Young, id'[n] \in Wrappers
        PROVE  \E w \in finalizables : forwarded[w] = n
    <3>1. n \in alive \intersect haven /\ n \in Addr /\ id'[n] = id[n]
      BY Zenon, <2>4, <1>0, <1>1, Spaces DEF From
    <3>2. PICK w \in alive \intersect From : forwarded[w] = n
      BY Zenon, <3>1, <1>0 DEF IInv, WrappersOK
    <3>3. w \in Addr /\ n # Null
      BY Zenon, <3>1, Spaces DEF IInv, TypeOK
    <3>4. id[w] = id[n]
      BY Zenon, <3>2, <3>3 DEF IInv, ForwardOK
    <3> QED
      BY Zenon, <3>1, <3>2, <3>4, <2>1, <2>4
  <2>5. \A n \in alive' \intersect Young : n # Null
    BY Zenon, Spaces
  <2>6. finalizables' = {n \in alive' \intersect Young : id'[n] \in Wrappers}
    BY <2>2, <2>3, <2>4, <2>5
  <2> QED
    BY Zenon, <2>6, <1>0 DEF WrappersOK
<1>11. MarkOK'
  BY Zenon, <1>0 DEF IInv, MarkOK
<1> QED
  BY Zenon, <1>1, <1>6, <1>7, <1>8, <1>9, <1>10, <1>11 DEF IInv

LEMMA StepStartMark ==
  ASSUME IInv, StartMark PROVE IInv'
<1> USE Spaces DEF StartMark, minorVars
<1>1. TypeOK'
  BY DEF IInv, TypeOK
<1>2. SetsOK' /\ ForwardOK' /\ RefsOK'
  BY Zenon DEF IInv, SetsOK, ForwardOK, RefsOK, Live, Kept, From
<1>3. BarrierOK' /\ MinorOK' /\ WrappersOK'
  BY Zenon DEF IInv, BarrierOK, MinorOK, WrappersOK, Live
<1> HIDE DEF StartMark
<1>4. MarkOK'
  <2>1. /\ phase' = "mark" /\ marked = {} /\ marked' = {} /\ heap' = heap /\ Kept' = Kept
        /\ alive' = alive
    BY Zenon DEF StartMark, IInv, MarkOK, Kept
  <2>2. \A x : x \in markStack' <=> x # Null /\ \E s \in Slots : x = heap[Root][s]
    BY Zenon DEF StartMark
  <2>3. markStack' \subseteq Kept
    BY <2>2 DEF IInv, RefsOK
  <2>4. \A s \in Slots : heap[Root][s] \in markStack' \union {Null}
    BY Zenon, <2>2
  <2>5. ASSUME NEW S \in SUBSET (alive \union {Root}), Closed(S)'
        PROVE  markStack' \subseteq S
    <3>1. Root \in S /\ \A s \in Slots : heap[Root][s] \in S \union {Null}
      BY Zenon, <2>1, <2>5 DEF Closed
    <3> QED
      BY <2>2, <3>1
  <2> QED
    BY Zenon, <2>1, <2>3, <2>4, <2>5 DEF MarkOK
<1> QED
  BY Zenon, <1>1, <1>2, <1>3, <1>4 DEF IInv

LEMMA StepMarkObject ==
  ASSUME IInv, NEW a \in Addr, MarkObject(a) PROVE IInv'
<1> USE Spaces DEF MarkObject, minorVars
<1>0. a \in Live
  BY Zenon DEF IInv, ForwardOK, MarkOK, Live, Kept
<1>1. TypeOK'
  BY DEF IInv, TypeOK
<1>2. SetsOK' /\ ForwardOK' /\ RefsOK'
  BY Zenon DEF IInv, SetsOK, ForwardOK, RefsOK, Live, Kept, From
<1>3. BarrierOK' /\ MinorOK' /\ WrappersOK'
  BY Zenon DEF IInv, BarrierOK, MinorOK, WrappersOK, Live
<1>4. MarkOK'
  <2>0. Kept' = Kept
    BY Zenon DEF Kept
  <2>1. marked' \union markStack' \subseteq Kept'
    <3>1. marked \union markStack \subseteq Kept /\ a \in Kept
      BY Zenon DEF IInv, MarkOK
    <3>2. \A s \in Slots : heap[a][s] # Null => heap[a][s] \in Kept
      BY Zenon, <1>0 DEF IInv, RefsOK
    <3> QED
      BY <2>0, <3>1, <3>2
  <2>2. \A b \in marked' \union {Root}, s \in Slots :
           heap'[b][s] \in marked' \union markStack' \union {Null}
    BY DEF IInv, MarkOK
  <2>3. ASSUME NEW S \in SUBSET (alive' \union {Root}), Closed(S)'
        PROVE  marked' \union markStack' \subseteq S
    BY <2>3 DEF IInv, MarkOK, Closed
  <2> QED
    BY Zenon, <2>1, <2>2, <2>3 DEF MarkOK
<1> QED
  BY Zenon, <1>1, <1>2, <1>3, <1>4 DEF IInv

(* Sweep takes the unmarked old objects away: the kept objects are marked, *)
(* and what a marked object refers to is marked.                           *)
LEMMA StepSweep ==
  ASSUME IInv, Sweep PROVE IInv'
<1>0. /\ phase = "mark" /\ markStack = {} /\ freshOld = {} /\ gray = {} /\ scanned = {}
      /\ alive' = alive \ Unmarked /\ remembered' = remembered \ Unmarked
      /\ lost' = (lost \union (alive \ marked)) \ Unmarked
      /\ marked' = {} /\ phase' = "run"
      /\ UNCHANGED <<copying, haven, finalizables, freshOld, gray, scanned, markStack>>
      /\ Unmarked \subseteq Old /\ Unmarked \intersect marked = {}
  BY Zenon DEF Sweep, Freed, Unmarked, IInv, SetsOK
<1>1. Root \notin Unmarked
  BY Zenon, <1>0, Spaces
<1>2. /\ heap' \in [Addr \union {Root} -> [Slots -> Addr \union {Null}]]
      /\ id' \in [Addr -> Ids \union {Null}] /\ age' \in [Addr -> Nat]
      /\ forwarded' \in [Addr -> Addr \union {Null}]
  BY Zenon DEF Sweep, Freed, IInv, TypeOK, Blank
<1>3. /\ heap'[Root] = heap[Root]
      /\ \A b \in Addr : heap'[b] = IF b \in Unmarked THEN Blank ELSE heap[b]
      /\ \A b \in Addr : id'[b] = IF b \in Unmarked THEN Null ELSE id[b]
      /\ \A b \in Addr : forwarded'[b] = Null
  BY Zenon, <1>0, <1>1 DEF Sweep, Freed, IInv, ForwardOK
<1>4. TypeOK'
  BY Zenon, <1>0, <1>2 DEF IInv, TypeOK
<1>5. Live' = Kept' /\ Kept' \subseteq marked /\ marked \subseteq Kept'
  <2>1. marked \subseteq alive \ lost
    BY Zenon, <1>0 DEF IInv, MarkOK, Kept
  <2>2. Live' = Kept'
    BY Zenon, <1>3, <1>4 DEF Live, Kept, TypeOK
  <2> QED
    BY Zenon, <1>0, <2>1, <2>2 DEF Kept
<1>6. SetsOK'
  <2>1. \A b \in Addr, q \in Slots \ Fields : heap'[b][q] = Null
    BY <1>3 DEF IInv, SetsOK, Blank
  <2>2. remembered' \subseteq Kept' /\ lost' \subseteq alive'
    <3>1. remembered \subseteq alive \ lost /\ remembered \subseteq Old /\ lost \subseteq alive
      BY Zenon DEF IInv, TypeOK, SetsOK, Kept
    <3> QED
      BY Zenon, <1>0, <3>1 DEF Kept, Unmarked
  <2> QED
    BY Zenon, <1>0, <2>1, <2>2 DEF IInv, SetsOK
<1>7. ForwardOK' /\ MinorOK'
  BY Zenon, <1>0, <1>3 DEF ForwardOK, MinorOK
<1>8. \A b \in marked \union {Root}, q \in Slots :
         heap'[b][q] = heap[b][q] /\ heap[b][q] \in marked \union {Null}
  BY Zenon, <1>0, <1>3 DEF IInv, TypeOK, MarkOK
<1>9. RefsOK'
  BY <1>5, <1>8 DEF RefsOK
<1>10. BarrierOK'
  <2> SUFFICES ASSUME copying, NEW b \in marked \intersect Old, NEW q \in Slots,
                      heap[b][q] \in Young
               PROVE  b \in remembered'
    BY <1>0, <1>5, <1>8 DEF BarrierOK
  <2>1. b \in Live
    BY Zenon, <1>0 DEF IInv, MarkOK, ForwardOK, TypeOK, Live, Kept
  <2>2. b \in remembered
    BY Zenon, <2>1, <1>0 DEF IInv, BarrierOK
  <2> QED
    BY Zenon, <2>2, <1>0
<1>11. WrappersOK'
  <2>1. alive' \intersect Young = alive \intersect Young
    BY Zenon, <1>0, Spaces
  <2>2. \A b \in alive \intersect Young : id'[b] = id[b]
    BY Zenon, <1>0, <1>3, Spaces
  <2> QED
    BY Zenon, <2>1, <2>2, <1>0 DEF IInv, WrappersOK
<1>12. MarkOK'
  BY Zenon, <1>0 DEF IInv, MarkOK
<1> QED
  BY Zenon, <1>4, <1>6, <1>7, <1>9, <1>10, <1>11, <1>12 DEF IInv

-----------------------------------------------------------------------------
(* Every step of the program and of the collector preserves the invariant. *)
LEMMA StepIInv == IInv /\ [Next]_vars => IInv'
<1> SUFFICES ASSUME IInv, [Next]_vars PROVE IInv'
  BY Zenon
<1>1. CASE CollectorStep
  BY Zenon, <1>1, StepFinishMinor, StepStartMark, StepSweep, StepKeepRef, StepScanFresh,
     StepFollowForward, StepCopyToHaven, StepPromote, StepScanUntyped, StepMarkObject
     DEF CollectorStep
<1>2. CASE ProgramStep
  BY Zenon, <1>2, StepAllocYoung, StepAllocOld, StepDrop, StepFill, StepStore, StepLoad,
     StepBeginMinor, StepSkipMinor DEF ProgramStep
<1>3. CASE UNCHANGED vars
  <2>0. UNCHANGED <<copying, phase, alive, heap, id, lost, haven, age, forwarded, finalizables,
                    remembered, freshOld, gray, scanned, marked, markStack>>
    BY Zenon, <1>3 DEF vars, minorVars, markVars
  <2>1. UNCHANGED <<Live, Kept, From, Unseen>>
    BY Zenon, <2>0 DEF Live, Kept, From, Unseen
  <2>2. TypeOK'
    BY Zenon, <2>0 DEF IInv, TypeOK
  <2>3. SetsOK'
    BY Zenon, <2>0, <2>1 DEF IInv, SetsOK
  <2>4. ForwardOK' /\ RefsOK' /\ BarrierOK'
    BY Zenon, <2>0, <2>1 DEF IInv, ForwardOK, RefsOK, BarrierOK
  <2>5. MinorOK'
    BY Zenon, <2>0, <2>1 DEF IInv, MinorOK
  <2>6. WrappersOK' /\ MarkOK'
    BY ZenonT(40), <2>0, <2>1 DEF IInv, WrappersOK, MarkOK, Closed
  <2> QED
    BY Zenon, <2>2, <2>3, <2>4, <2>5, <2>6 DEF IInv
<1> QED
  BY Zenon, <1>1, <1>2, <1>3 DEF Next

(* The invariant holds in every reachable state, for any heap. *)
THEOREM HeapInvariant == Spec => []IInv
<1>1. Init => IInv
  BY Zenon, InitIInv
<1>2. IInv /\ [Next]_vars => IInv'
  BY Zenon, StepIInv
<1> QED
  BY <1>1, <1>2, PTL DEF Spec

(* The variables of the heap keep their types: only old objects are ever   *)
(* remembered or fresh, and a slot holds an address or null.               *)
THEOREM HeapTypeCorrect == Spec => []TypeOK
<1>1. IInv => TypeOK
  BY Zenon DEF IInv
<1> QED
  BY <1>1, HeapInvariant, PTL

(* What the program can reach has slots that are kept up. *)
LEMMA ReachableKept ==
  ASSUME IInv, phase = "run"
  PROVE  /\ Reachable \subseteq Live
         /\ \A a \in Reachable \union {Root}, s \in Slots :
               heap[a][s] # Null => heap[a][s] \in Live
<1>1. Live = Kept
  BY Zenon DEF IInv, TypeOK, ForwardOK, Live, Kept
<1>2. Live \union {Root} \in SUBSET (alive \union {Root}) /\ Closed(Live \union {Root})
  BY Zenon, <1>1 DEF IInv, RefsOK, Closed, Live
<1>3. Root \notin alive
  BY Zenon, Spaces DEF IInv, TypeOK
<1>4. Reachable \subseteq Live
  BY Zenon, <1>2, <1>3 DEF Reachable
<1> QED
  BY Zenon, <1>1, <1>4 DEF IInv, RefsOK

(* The write barrier, the remembered set and the scan of the objects born  *)
(* old are together enough: no collection, minor or major, leaves the      *)
(* program a reference to an address that was freed or moved from.         *)
THEOREM HeapNoDangling == Spec => []NoDangling
<1>1. IInv => NoDangling
  BY Zenon, ReachableKept DEF NoDangling, Live
<1> QED
  BY <1>1, HeapInvariant, PTL

(* Every old object the program can reach that refers to a young or fresh  *)
(* one is in the remembered set.                                           *)
THEOREM HeapRememberedComplete == Spec => []RememberedComplete
<1>1. IInv => RememberedComplete
  BY Zenon, ReachableKept DEF RememberedComplete, IInv, BarrierOK
<1> QED
  BY <1>1, HeapInvariant, PTL

(* The list of young finalizables is exact between collections, whatever   *)
(* was copied, promoted or dropped.                                        *)
THEOREM HeapWrappersListed == Spec => []WrappersListed
<1>1. IInv => WrappersListed
  BY Zenon DEF IInv, WrappersOK, WrappersListed
<1> QED
  BY <1>1, HeapInvariant, PTL

(* Only the sweep takes a major collection to its end. *)
LEMMA MarkEndsInSweep ==
  ASSUME [Next]_vars, phase = "mark", phase' = "run" PROVE Sweep
<1>1. ~ProgramStep
  BY Zenon DEF ProgramStep, AllocYoung, AllocOld, Drop, Fill, Store, Load, BeginMinor, SkipMinor
<1>2. \A a \in Addr \union {Root}, s \in Slots : ~Visit(a, s)
  BY Zenon DEF Visit
<1>3. CollectorStep
  BY Zenon, <1>1 DEF Next, vars
<1>4. ~FinishMinor /\ ~StartMark /\ \A a \in Addr : ~MarkObject(a)
  BY Zenon DEF FinishMinor, StartMark, MarkObject
<1>5. \A a \in Addr \union {Root}, s \in Slots :
         ~KeepRef(a, s) /\ ~ScanFresh(a, s) /\ ~ScanUntyped(a, s) /\ ~FollowForward(a, s)
  BY <1>2, Zenon DEF KeepRef, ScanFresh, ScanUntyped, FollowForward
<1>6. \A a \in Addr \union {Root}, s \in Slots : ~CopyToHaven(a, s) /\ ~Promote(a, s)
  BY <1>2, Zenon DEF CopyToHaven, Promote, MoveTo
<1> QED
  BY Zenon, <1>3, <1>4, <1>5, <1>6 DEF CollectorStep

(* No garbage survives a major collection in the old spaces: an object     *)
(* that keeps its mark is in every closed set of the heap the sweep leaves. *)
LEMMA SweepIsPrecise ==
  ASSUME IInv, Sweep
  PROVE  (alive' \intersect Old) \subseteq Reachable'
<1>1. markStack = {} /\ alive' = alive \ Unmarked /\ phase = "mark"
  BY Zenon DEF Sweep, Freed
<1>2. Unmarked = (alive \intersect Old) \ marked
  BY Zenon DEF Unmarked
<1>3. \A b \in (Addr \union {Root}) \ Unmarked : heap'[b] = heap[b]
  BY Zenon DEF Sweep, Freed
<1>4. ASSUME NEW S \in SUBSET (alive' \union {Root}), Closed(S)'
      PROVE  marked \subseteq S
  <2>1. S \subseteq (Addr \union {Root}) \ Unmarked /\ S \in SUBSET (alive \union {Root})
    BY <1>1, <1>2, Spaces DEF IInv, TypeOK
  <2>2. Closed(S)
    BY Zenon, <1>3, <1>4, <2>1 DEF Closed
  <2> QED
    BY Zenon, <1>1, <2>1, <2>2 DEF IInv, MarkOK
<1>5. ASSUME NEW a \in alive' \intersect Old PROVE a \in marked
  BY Zenon, <1>1, <1>2, <1>5
<1> QED
  BY Zenon, <1>4, <1>5 DEF Reachable

(* A major collection frees every old object the program cannot reach.     *)
THEOREM HeapMajorIsPrecise == Spec => MajorIsPrecise
<1>1. IInv /\ IInv' /\ [Next]_vars =>
        [phase = "mark" /\ phase' = "run" => (alive' \intersect Old) \subseteq Reachable']_vars
  BY Zenon, MarkEndsInSweep, SweepIsPrecise
<1> QED
  BY <1>1, HeapInvariant, PTL DEF Spec, MajorIsPrecise

-----------------------------------------------------------------------------
-----------------------------------------------------------------------------
(* The addresses of the objects the graph is read from hold objects, and   *)
(* no two of them the same one: a copy takes the identity over, and what   *)
(* moved is a husk.                                                        *)
IdsOK ==
  /\ \A a \in alive : id[a] \in Ids
  /\ \A a, b \in Live : id[a] = id[b] => a = b

(* A rule refers to functions only. *)
RulesOK == \A e \in GraphEdges : ~(e[1] \in Rules /\ e[3] \in Rules)

LEMMA InitIdsOK == Init => IdsOK
BY Zenon DEF Init, IdsOK, Live

LEMMA EdgeIff ==
  ASSUME NEW e
  PROVE  e \in GraphEdges <=>
           \E a \in Live \union {Root}, s \in Slots :
              heap[a][s] # Null /\ e = <<Ident(a), s, id[heap[a][s]]>>
<1>1. ASSUME NEW a \in Live \union {Root}, NEW s \in Slots, heap[a][s] # Null,
             e = <<Ident(a), s, id[heap[a][s]]>>
      PROVE  e \in GraphEdges
  <2> DEFINE p == <<a, s>>
  <2>1. p \in {q \in (Live \union {Root}) \X Slots : heap[q[1]][q[2]] # Null}
    BY Zenon, <1>1
  <2>2. e = <<Ident(p[1]), p[2], id[heap[p[1]][p[2]]]>>
    BY Zenon, <1>1
  <2> QED
    BY Zenon, <2>1, <2>2 DEF GraphEdges
<1>2. ASSUME e \in GraphEdges
      PROVE  \E a \in Live \union {Root}, s \in Slots :
               heap[a][s] # Null /\ e = <<Ident(a), s, id[heap[a][s]]>>
  <2>1. PICK p \in {q \in (Live \union {Root}) \X Slots : heap[q[1]][q[2]] # Null} :
          e = <<Ident(p[1]), p[2], id[heap[p[1]][p[2]]]>>
    BY Zenon, <1>2 DEF GraphEdges
  <2>2. p[1] \in Live \union {Root} /\ p[2] \in Slots /\ heap[p[1]][p[2]] # Null
    BY Zenon, <2>1
  <2> QED
    BY Zenon, <2>1, <2>2
<1> QED
  BY Zenon, <1>1, <1>2

(* The same of the next state. *)
LEMMA EdgeIffNext ==
  ASSUME NEW e
  PROVE  e \in GraphEdges' <=>
           \E a \in Live' \union {Root}, s \in Slots :
              heap'[a][s] # Null /\ e = <<Ident(a)', s, id'[heap'[a][s]]>>
<1>1. ASSUME NEW a \in Live' \union {Root}, NEW s \in Slots, heap'[a][s] # Null,
             e = <<Ident(a)', s, id'[heap'[a][s]]>>
      PROVE  e \in GraphEdges'
  <2> DEFINE p == <<a, s>>
  <2>1. p \in {q \in (Live' \union {Root}) \X Slots : heap'[q[1]][q[2]] # Null}
    BY Zenon, <1>1
  <2>2. e = <<Ident(p[1])', p[2], id'[heap'[p[1]][p[2]]]>>
    BY Zenon, <1>1
  <2> QED
    BY Zenon, <2>1, <2>2 DEF GraphEdges
<1>2. ASSUME e \in GraphEdges'
      PROVE  \E a \in Live' \union {Root}, s \in Slots :
               heap'[a][s] # Null /\ e = <<Ident(a)', s, id'[heap'[a][s]]>>
  <2>1. PICK p \in {q \in (Live' \union {Root}) \X Slots : heap'[q[1]][q[2]] # Null} :
          e = <<Ident(p[1])', p[2], id'[heap'[p[1]][p[2]]]>>
    BY Zenon, <1>2 DEF GraphEdges
  <2>2. p[1] \in Live' \union {Root} /\ p[2] \in Slots /\ heap'[p[1]][p[2]] # Null
    BY Zenon, <2>1
  <2> QED
    BY Zenon, <2>1, <2>2
<1> QED
  BY Zenon, <1>1, <1>2

(* A kept address holds an object of the graph: it is live, or the husk of *)
(* a live copy.                                                            *)
LEMMA KeptObject ==
  ASSUME IInv, IdsOK, NEW a \in Kept
  PROVE  id[a] \in GraphObjects /\ id[a] \in Ids
<1>1. a \in Addr /\ a \in alive /\ id[a] \in Ids
  BY Zenon DEF IInv, TypeOK, IdsOK, Kept
<1>2. CASE forwarded[a] = Null
  BY Zenon, <1>1, <1>2 DEF GraphObjects, Live, Kept
<1>3. CASE forwarded[a] # Null
  <2>1. forwarded[a] \in scanned /\ id[forwarded[a]] = id[a]
    BY Zenon, <1>1, <1>3 DEF IInv, ForwardOK
  <2>2. forwarded[a] \in Kept \ From /\ forwarded[a] \in Addr
    BY Zenon, <2>1 DEF IInv, SetsOK, TypeOK
  <2>3. forwarded[forwarded[a]] = Null
    BY Zenon, <2>2 DEF IInv, ForwardOK
  <2>4. forwarded[a] \in Live
    BY Zenon, <2>2, <2>3 DEF Live, Kept
  <2> QED
    BY Zenon, <1>1, <2>1, <2>4 DEF GraphObjects
<1> QED
  BY Zenon, <1>2, <1>3

(* The graph does not change when the slots read as the same objects. *)
LEMMA SameGraph ==
  ASSUME Live' = Live,
         \A b \in Live : id'[b] = id[b],
         \A b \in Live \union {Root}, q \in Slots :
            /\ heap'[b][q] # Null <=> heap[b][q] # Null
            /\ heap[b][q] # Null => id'[heap'[b][q]] = id[heap[b][q]]
  PROVE  UNCHANGED <<GraphObjects, GraphEdges>>
<1>1. GraphObjects' = GraphObjects
  BY DEF GraphObjects
<1>2. \A b \in Live \union {Root} : Ident(b)' = Ident(b)
  BY Zenon DEF Ident
<1>3. ASSUME NEW e PROVE e \in GraphEdges' <=> e \in GraphEdges
  BY <1>2, EdgeIff, EdgeIffNext
<1> QED
  BY Zenon, <1>1, <1>3

(* Steps that only keep the collector's books. *)
LEMMA BooksOnly ==
  ASSUME IdsOK, UNCHANGED <<alive, heap, id, lost, forwarded>>
  PROVE  IdsOK' /\ UNCHANGED <<GraphObjects, GraphEdges>>
<1>1. Live' = Live
  BY Zenon DEF Live
<1>2. IdsOK'
  BY Zenon, <1>1 DEF IdsOK
<1> QED
  BY Zenon, <1>1, <1>2, SameGraph

LEMMA GraphFollowForward ==
  ASSUME IInv, IdsOK, NEW a \in Addr \union {Root}, NEW s \in Slots, FollowForward(a, s)
  PROVE  IdsOK' /\ UNCHANGED <<GraphObjects, GraphEdges>>
<1> DEFINE n == forwarded[heap[a][s]]
<1>0. /\ heap[a][s] \in Addr /\ n # Null /\ heap[a][s] # Null
      /\ heap' = [heap EXCEPT ![a][s] = n]
      /\ UNCHANGED <<alive, id, lost, forwarded>>
  BY Zenon, Spaces DEF FollowForward, From
<1>1. id[n] = id[heap[a][s]]
  BY Zenon, <1>0 DEF IInv, ForwardOK
<1>2. \A b \in Addr \union {Root}, q \in Slots :
         heap'[b][q] = IF b = a /\ q = s THEN n ELSE heap[b][q]
  BY Zenon, <1>0 DEF IInv, TypeOK
<1>3. Live' = Live /\ Live \subseteq Addr
  BY Zenon, <1>0 DEF Live, IInv, TypeOK
<1>4. IdsOK'
  BY Zenon, <1>0, <1>3 DEF IdsOK
<1> HIDE DEF n
<1>5. \A b \in Live \union {Root}, q \in Slots :
         /\ heap'[b][q] # Null <=> heap[b][q] # Null
         /\ heap[b][q] # Null => id'[heap'[b][q]] = id[heap[b][q]]
  BY <1>0, <1>1, <1>2, <1>3
<1> QED
  BY Zenon, <1>0, <1>3, <1>4, <1>5, SameGraph

(* A copy takes the place of the object in the graph. *)
LEMMA GraphMove ==
  ASSUME IInv, IdsOK, NEW a \in Addr \union {Root}, NEW s \in Slots,
         NEW n \in haven \union Elder, MoveTo(a, s, n), lost' = lost
  PROVE  IdsOK' /\ UNCHANGED <<GraphObjects, GraphEdges>>
<1> DEFINE r == heap[a][s]
<1>0. /\ r \in From /\ forwarded[r] = Null /\ n \notin alive
      /\ alive' = alive \union {n}
      /\ heap' = [heap EXCEPT ![n] = heap[r], ![a][s] = n]
      /\ id' = [id EXCEPT ![n] = id[r]]
      /\ forwarded' = [forwarded EXCEPT ![r] = n]
  BY Zenon DEF MoveTo
<1>1. /\ a \in (Live \ From) \union {Root}
      /\ r \in Kept /\ r \in Addr /\ r \in Live /\ r # Null
  <2>1. Visit(a, s)
    BY Zenon DEF MoveTo
  <2>2. r \in Addr /\ r # Null
    BY Zenon, <1>0, Spaces DEF From
  <2>3. a \in (Live \ From) \union {Root} /\ r \in Kept
    BY Zenon, <2>1, <2>2, Visiting
  <2> QED
    BY Zenon, <1>0, <2>2, <2>3 DEF Live, Kept
<1>2. n \in Addr /\ n # Root /\ n # a /\ n # r /\ n \notin lost /\ a # r /\ n # Null
  <2>1. n \in Addr /\ n # Root /\ n # Null
    BY Spaces DEF IInv, TypeOK
  <2>2. n # a /\ n # r
    BY Zenon, <1>0, <1>1, <2>1 DEF Live, Kept
  <2>3. n \notin lost
    BY Zenon, <1>0 DEF IInv, SetsOK
  <2>4. a # r
    BY Zenon, <1>0, <1>1, Spaces
  <2> QED
    BY Zenon, <2>1, <2>2, <2>3, <2>4
<1>3. \A b \in Addr \union {Root}, q \in Slots :
         heap'[b][q] = IF b = a /\ q = s THEN n
                       ELSE IF b = n THEN heap[r][q] ELSE heap[b][q]
  BY Zenon, <1>0, <1>1, <1>2 DEF IInv, TypeOK
<1>4. /\ \A b \in Addr : forwarded'[b] = IF b = r THEN n ELSE forwarded[b]
      /\ \A b \in Addr : id'[b] = IF b = n THEN id[r] ELSE id[b]
      /\ forwarded[n] = Null
  <2>1. /\ \A b \in Addr : forwarded'[b] = IF b = r THEN n ELSE forwarded[b]
        /\ \A b \in Addr : id'[b] = IF b = n THEN id[r] ELSE id[b]
    BY Zenon, <1>0, <1>1, <1>2 DEF IInv, TypeOK
  <2>2. forwarded[n] = Null
    BY Zenon, <1>0, <1>2 DEF IInv, ForwardOK
  <2> QED
    BY Zenon, <2>1, <2>2
<1>5. Live' = (Live \ {r}) \union {n} /\ Live \subseteq Addr /\ n \notin Live
  <2>1. alive \subseteq Addr /\ Live \subseteq alive
    BY Zenon DEF IInv, TypeOK, Live
  <2>2. \A b \in Addr : b \in Live' <=> (b \in Live /\ b # r) \/ b = n
    BY <1>0, <1>2, <1>4 DEF Live
  <2>3. Live' \subseteq Addr
    BY Zenon, <1>0, <1>2, <2>1 DEF Live
  <2> QED
    BY Zenon, <1>0, <1>2, <2>1, <2>2, <2>3
<1> HIDE DEF r
<1>6. IdsOK'
  <2>0. /\ \A b \in alive : id[b] \in Ids
        /\ \A b, c \in Live : id[b] = id[c] => b = c
        /\ alive \subseteq Addr /\ r \in alive
    BY Zenon, <1>1 DEF IdsOK, IInv, TypeOK, Kept
  <2>1. ASSUME NEW b \in alive' PROVE id'[b] \in Ids
    BY <2>0, <1>0, <1>2, <1>4
  <2>2. ASSUME NEW b \in Live', NEW c \in Live', id'[b] = id'[c] PROVE b = c
    <3>1. CASE b = n /\ c # n
      BY ZenonT(40), <3>1, <2>0, <2>2, <1>1, <1>2, <1>4, <1>5
    <3>2. CASE b # n /\ c = n
      BY Zenon, <3>2, <2>0, <2>2, <1>1, <1>2, <1>4, <1>5
    <3>3. CASE b # n /\ c # n
      BY Zenon, <3>3, <2>0, <2>2, <1>4, <1>5
    <3> QED
      BY Zenon, <3>1, <3>2, <3>3
  <2> QED
    BY Zenon, <2>1, <2>2 DEF IdsOK
<1>7. GraphObjects' = GraphObjects
  <2>1. ASSUME NEW b \in Live PROVE \E c \in Live' : id'[c] = id[b]
    BY Zenon, <1>1, <1>2, <1>4, <1>5
  <2>2. ASSUME NEW c \in Live' PROVE \E b \in Live : id'[c] = id[b]
    BY Zenon, <1>1, <1>2, <1>4, <1>5
  <2>3. \A x : x \in GraphObjects' <=> \E c \in Live' : x = id'[c]
    BY Zenon DEF GraphObjects
  <2>4. \A x : x \in GraphObjects <=> \E b \in Live : x = id[b]
    BY Zenon DEF GraphObjects
  <2>5. \A x : x \in GraphObjects' <=> x \in GraphObjects
    BY ZenonT(40), <2>1, <2>2, <2>3, <2>4
  <2> QED
    BY Zenon, <2>5
<1>8. \A b \in Live \union {Root}, q \in Slots :
         heap[b][q] # Null => /\ heap[b][q] # n /\ heap[b][q] \in Addr
                              /\ id'[heap[b][q]] = id[heap[b][q]]
  <2>1. \A b \in Live \union {Root}, q \in Slots : heap[b][q] # Null => heap[b][q] \in Kept
    BY Zenon DEF IInv, RefsOK
  <2> QED
    BY <2>1, <1>0, <1>4 DEF Kept, IInv, TypeOK
<1>9. /\ \A b \in (Live \ {r}) \union {Root} : Ident(b)' = Ident(b) /\ b # n
      /\ Ident(n)' = Ident(r)
  <2>1. r # Root /\ Root \notin Live
    BY <1>1, Spaces DEF IInv, TypeOK, Live
  <2> QED
    BY Zenon, <2>1, <1>2, <1>4, <1>5 DEF Ident
<1>10. \A b \in (Live \ {r}) \union {Root}, q \in Slots :
          /\ heap'[b][q] # Null <=> heap[b][q] # Null
          /\ heap[b][q] # Null => id'[heap'[b][q]] = id[heap[b][q]]
  <2> SUFFICES ASSUME NEW b \in (Live \ {r}) \union {Root}, NEW q \in Slots
               PROVE  /\ heap'[b][q] # Null <=> heap[b][q] # Null
                      /\ heap[b][q] # Null => id'[heap'[b][q]] = id[heap[b][q]]
    BY Zenon
  <2>1. CASE b = a /\ q = s
    BY Zenon, <2>1, <1>1, <1>2, <1>3, <1>4 DEF r
  <2>2. CASE ~(b = a /\ q = s)
    <3>1. b \in Addr \union {Root} /\ b # n
      BY Zenon, <1>5, <1>9
    <3>2. heap'[b][q] = heap[b][q]
      BY Zenon, <2>2, <1>3, <3>1
    <3> QED
      BY Zenon, <3>2, <1>8
  <2> QED
    BY Zenon, <2>1, <2>2
<1>11. \A q \in Slots : /\ heap'[n][q] = heap[r][q]
                        /\ heap[r][q] # Null => id'[heap'[n][q]] = id[heap[r][q]]
  <2>1. \A q \in Slots : heap'[n][q] = heap[r][q]
    BY Zenon, <1>2, <1>3
  <2> HIDE DEF r
  <2>2. ASSUME NEW q \in Slots, heap[r][q] # Null PROVE id'[heap[r][q]] = id[heap[r][q]]
    BY Zenon, <1>1, <1>8, <2>2
  <2> QED
    BY Zenon, <2>1, <2>2
<1>12. ASSUME NEW e, e \in GraphEdges PROVE e \in GraphEdges'
  <2>1. PICK b \in Live \union {Root}, q \in Slots :
          heap[b][q] # Null /\ e = <<Ident(b), q, id[heap[b][q]]>>
    BY Zenon, <1>12, EdgeIff
  <2>2. CASE b = r
    <3>1. n \in Live' \union {Root} /\ heap'[n][q] # Null /\ e = <<Ident(n)', q, id'[heap'[n][q]]>>
      BY Zenon, <2>1, <2>2, <1>5, <1>9, <1>11
    <3> QED
      BY Zenon, <3>1, EdgeIffNext
  <2>3. CASE b # r
    <3>1. b \in Live' \union {Root} /\ heap'[b][q] # Null /\ e = <<Ident(b)', q, id'[heap'[b][q]]>>
      BY Zenon, <2>1, <2>3, <1>5, <1>9, <1>10
    <3> QED
      BY Zenon, <3>1, EdgeIffNext
  <2> QED
    BY Zenon, <2>2, <2>3
<1>13. ASSUME NEW e, e \in GraphEdges' PROVE e \in GraphEdges
  <2>1. PICK b \in Live' \union {Root}, q \in Slots :
          heap'[b][q] # Null /\ e = <<Ident(b)', q, id'[heap'[b][q]]>>
    BY Zenon, <1>13, EdgeIffNext
  <2>2. CASE b = n
    <3>1. r \in Live \union {Root} /\ heap[r][q] # Null /\ e = <<Ident(r), q, id[heap[r][q]]>>
      BY Zenon, <2>1, <2>2, <1>1, <1>9, <1>11
    <3> QED
      BY Zenon, <3>1, EdgeIff
  <2>3. CASE b # n
    <3>1. b \in Live \union {Root} /\ heap[b][q] # Null /\ e = <<Ident(b), q, id[heap[b][q]]>>
      BY Zenon, <2>1, <2>3, <1>5, <1>9, <1>10
    <3> QED
      BY Zenon, <3>1, EdgeIff
  <2> QED
    BY Zenon, <2>2, <2>3
<1> QED
  BY Zenon, <1>6, <1>7, <1>12, <1>13

(* Objects of the graph have one address each, and the roots are none. *)
LEMMA IdentOne ==
  ASSUME IInv, IdsOK, NEW a \in Live \union {Root}, NEW b \in Live \union {Root},
         Ident(a) = Ident(b)
  PROVE  a = b
<1>1. \A c \in Live : id[c] \in Ids
  BY Zenon DEF IdsOK, Live
<1> QED
  BY Zenon, <1>1, HeapConstants DEF IdsOK, Ident

(* One slot of an object or of the roots is set. *)
LEMMA GraphAssign ==
  ASSUME IInv, IdsOK, NEW o \in Live \union {Root}, NEW f \in Slots,
         NEW v \in Kept \union {Null}, heap' = [heap EXCEPT ![o][f] = v],
         UNCHANGED <<alive, id, lost, forwarded>>
  PROVE  /\ IdsOK'
         /\ GraphObjects' = GraphObjects
         /\ GraphEdges' = Graph!Assigned(Ident(o), f, IF v = Null THEN Null ELSE id[v])
<1> DEFINE y == IF v = Null THEN Null ELSE id[v]
<1>1. Live' = Live /\ Live \subseteq Addr
  BY Zenon DEF Live, IInv, TypeOK
<1>2. IdsOK' /\ GraphObjects' = GraphObjects
  BY Zenon, <1>1 DEF IdsOK, GraphObjects
<1>3. \A b \in Live \union {Root}, q \in Slots :
         heap'[b][q] = IF b = o /\ q = f THEN v ELSE heap[b][q]
  BY Zenon, <1>1 DEF IInv, TypeOK
<1>4. \A b : Ident(b)' = Ident(b)
  BY Zenon DEF Ident
<1>5. /\ v # Null => y = id[v] /\ y # Null
      /\ v = Null => y = Null
  BY Zenon, KeptObject, Spaces
<1> HIDE DEF y
<1>6. ASSUME NEW e, e \in GraphEdges' PROVE e \in Graph!Assigned(Ident(o), f, y)
  <2>1. PICK b \in Live \union {Root}, q \in Slots :
          heap'[b][q] # Null /\ e = <<Ident(b), q, id[heap'[b][q]]>>
    BY <1>1, <1>4, <1>6, EdgeIffNext
  <2>2. CASE b = o /\ q = f
    BY <2>1, <2>2, <1>3, <1>5 DEF Graph!Assigned
  <2>3. CASE ~(b = o /\ q = f)
    <3>1. e \in GraphEdges
      BY <2>1, <2>3, <1>3, EdgeIff
    <3>2. e[1] = Ident(b) /\ e[2] = q
      BY Zenon, <2>1
    <3>3. e[1] # Ident(o) \/ e[2] # f
      BY Zenon, <2>3, <3>2, IdentOne
    <3> QED
      BY Zenon, <3>1, <3>3 DEF Graph!Assigned
  <2> QED
    BY Zenon, <2>2, <2>3
<1>7. ASSUME NEW e, e \in Graph!Assigned(Ident(o), f, y) PROVE e \in GraphEdges'
  <2>1. CASE e \in GraphEdges /\ (e[1] # Ident(o) \/ e[2] # f)
    <3>1. PICK b \in Live \union {Root}, q \in Slots :
            heap[b][q] # Null /\ e = <<Ident(b), q, id[heap[b][q]]>>
      BY Zenon, <2>1, EdgeIff
    <3>2. ~(b = o /\ q = f)
      BY Zenon, <2>1, <3>1
    <3>3. heap'[b][q] # Null /\ e = <<Ident(b)', q, id'[heap'[b][q]]>>
      BY <3>1, <3>2, <1>3, <1>4
    <3> QED
      BY Zenon, <3>3, <1>1, EdgeIffNext
  <2>2. CASE y # Null /\ e = <<Ident(o), f, y>>
    <3>1. heap'[o][f] = v /\ v # Null /\ e = <<Ident(o)', f, id'[heap'[o][f]]>>
      BY <2>2, <1>3, <1>4, <1>5
    <3> QED
      BY Zenon, <3>1, <1>1, EdgeIffNext
  <2> QED
    BY Zenon, <1>7, <2>1, <2>2 DEF Graph!Assigned
<1>8. GraphEdges' = Graph!Assigned(Ident(o), f, y)
  BY Zenon, <1>6, <1>7
<1> QED
  BY Zenon, <1>2, <1>8 DEF y

LEMMA GraphDrop ==
  ASSUME IInv, IdsOK, NEW s \in Slots, Drop(s)
  PROVE  IdsOK' /\ Graph!Drop(s)
<1>1. /\ heap' = [heap EXCEPT ![Root][s] = Null]
      /\ UNCHANGED <<alive, id, lost, forwarded>>
  BY Zenon DEF Drop, minorVars
<1>2. /\ IdsOK' /\ GraphObjects' = GraphObjects
      /\ GraphEdges' = Graph!Assigned(Ident(Root), s, Null)
  BY Zenon, <1>1, GraphAssign
<1> QED
  BY Zenon, <1>2 DEF Graph!Drop, Ident

(* What a slot of the roots holds, as the graph sees it. *)
LEMMA RootEdge ==
  ASSUME IInv, IdsOK, phase = "run", NEW s \in Slots, heap[Root][s] # Null
  PROVE  /\ heap[Root][s] \in Live /\ heap[Root][s] # Root
         /\ Ident(heap[Root][s]) = id[heap[Root][s]]
         /\ id[heap[Root][s]] \in GraphObjects
         /\ <<Root, s, id[heap[Root][s]]>> \in GraphEdges
<1>1. heap[Root][s] \in Live /\ heap[Root][s] # Root
  BY Zenon, RootSlot
<1>2. Ident(Root) = Root /\ Ident(heap[Root][s]) = id[heap[Root][s]]
  BY Zenon, <1>1 DEF Ident
<1>3. id[heap[Root][s]] \in GraphObjects
  BY Zenon, <1>1 DEF GraphObjects
<1> QED
  BY Zenon, <1>1, <1>2, <1>3, EdgeIff

(* A store, plain or with the barrier, of what root t holds. *)
LEMMA GraphStores ==
  ASSUME IInv, IdsOK, NEW s \in Slots, NEW f \in Fields, NEW t \in Slots,
         phase = "run", heap[Root][s] # Null,
         heap' = [heap EXCEPT ![heap[Root][s]][f] = heap[Root][t]],
         UNCHANGED <<alive, id, lost, forwarded>>
  PROVE  /\ IdsOK' /\ \E y \in GraphObjects \union {Null} : Graph!Store(s, f, y)
         /\ RulesOK /\ ~(IsRule(heap[Root][s]) /\ IsRule(heap[Root][t])) => RulesOK'
<1> DEFINE x == heap[Root][s]
           v == heap[Root][t]
           y == IF v = Null THEN Null ELSE id[v]
<1>0. f \in Slots
  BY Zenon, Spaces
<1>1. /\ x \in Live /\ Ident(x) = id[x] /\ id[x] \in GraphObjects
      /\ <<Root, s, id[x]>> \in GraphEdges
  BY Zenon, RootEdge
<1>2. v \in Kept \union {Null}
  BY Zenon, RootSlot
<1>3. v # Null => <<Root, t, id[v]>> \in GraphEdges /\ id[v] \in GraphObjects
  BY Zenon, RootEdge
<1>4. /\ IdsOK' /\ GraphObjects' = GraphObjects
      /\ GraphEdges' = Graph!Assigned(Ident(x), f, y)
  <2> HIDE DEF x, v
  <2>1. heap' = [heap EXCEPT ![x][f] = v]
    BY Zenon DEF x, v
  <2> QED
    BY Zenon, <1>0, <1>1, <1>2, <2>1, GraphAssign
<1>5. y \in GraphObjects \union {Null}
  BY Zenon, <1>3
<1>6. y = Null \/ \E q \in Slots : <<Root, q, y>> \in GraphEdges
  BY Zenon, <1>3
<1>7. ASSUME RulesOK, ~(IsRule(x) /\ IsRule(v)) PROVE RulesOK'
  <2>1. y # Null => ~(id[x] \in Rules /\ y \in Rules)
    <3>1. x \in Addr /\ (v # Null => v \in Addr)
      BY Zenon, <1>1, <1>2 DEF Live, Kept, IInv, TypeOK
    <3> QED
      BY Zenon, <1>7, <3>1 DEF IsRule
  <2> HIDE DEF x, v, y
  <2>2. ASSUME NEW e \in GraphEdges' PROVE ~(e[1] \in Rules /\ e[3] \in Rules)
    <3>1. e \in GraphEdges \/ (y # Null /\ e = <<id[x], f, y>>)
      BY Zenon, <1>1, <1>4 DEF Graph!Assigned
    <3>2. CASE e \in GraphEdges
      BY Zenon, <1>7, <3>2 DEF RulesOK
    <3>3. CASE y # Null /\ e = <<id[x], f, y>>
      <4>1. e[1] = id[x] /\ e[3] = y
        BY <3>3
      <4> QED
        BY Zenon, <2>1, <3>3, <4>1
    <3> QED
      BY Zenon, <3>1, <3>2, <3>3
  <2> QED
    BY Zenon, <2>2 DEF RulesOK
<1> HIDE DEF x, v, y
<1>8. Graph!Store(s, f, y)
  BY Zenon, <1>1, <1>4, <1>6 DEF Graph!Store
<1> QED
  BY Zenon, <1>4, <1>5, <1>7, <1>8 DEF x, v

LEMMA GraphLoad ==
  ASSUME IInv, IdsOK, NEW s \in Slots, NEW f \in Fields, NEW t \in Slots, Load(s, f, t)
  PROVE  IdsOK' /\ Graph!Load(s, f, t)
<1> DEFINE x == heap[Root][s]
           v == heap[x][f]
           y == IF v = Null THEN Null ELSE id[v]
<1>0. f \in Slots /\ phase = "run" /\ x # Null
      /\ heap' = [heap EXCEPT ![Root][t] = v]
      /\ UNCHANGED <<alive, id, lost, forwarded>>
  BY Zenon, Spaces DEF Load, minorVars
<1>1. /\ x \in Live /\ Ident(x) = id[x] /\ id[x] \in GraphObjects
      /\ <<Root, s, id[x]>> \in GraphEdges
  BY Zenon, <1>0, RootEdge
<1> HIDE DEF x
<1>2. v \in Kept \union {Null}
  BY Zenon, <1>0, <1>1 DEF IInv, RefsOK
<1>3. /\ IdsOK' /\ GraphObjects' = GraphObjects
      /\ GraphEdges' = Graph!Assigned(Root, t, y)
  <2> HIDE DEF v
  <2>1. Ident(Root) = Root
    BY Zenon DEF Ident
  <2> QED
    BY Zenon, <1>0, <1>2, <2>1, GraphAssign
<1>4. CASE v # Null
  <2>1. y \in GraphObjects /\ <<id[x], f, y>> \in GraphEdges
    BY Zenon, <1>0, <1>1, <1>2, <1>4, KeptObject, EdgeIff
  <2> HIDE DEF y, v
  <2> QED
    BY Zenon, <1>1, <1>3, <2>1 DEF Graph!Load
<1>5. CASE v = Null
  <2>1. ASSUME NEW z \in GraphObjects, <<id[x], f, z>> \in GraphEdges PROVE FALSE
    <3>1. PICK b \in Live \union {Root}, q \in Slots :
            heap[b][q] # Null /\ <<id[x], f, z>> = <<Ident(b), q, id[heap[b][q]]>>
      BY Zenon, <2>1, EdgeIff
    <3>2. Ident(b) = Ident(x) /\ q = f
      BY Zenon, <3>1, <1>1
    <3>3. b = x
      BY Zenon, <3>2, <1>1, IdentOne
    <3> QED
      BY Zenon, <3>1, <3>2, <3>3, <1>5
  <2>2. y = Null
    BY Zenon, <1>5
  <2> HIDE DEF y, v
  <2> QED
    BY Zenon, <1>1, <1>3, <2>1, <2>2 DEF Graph!Load
<1> QED
  BY Zenon, <1>3, <1>4, <1>5

(* Of the graph only what refers to nothing else stays: K keeps its slots, *)
(* and these lead to K.                                                    *)
LEMMA GraphForget ==
  ASSUME IInv, IdsOK, NEW K \in SUBSET Live, Live' = K, alive' \subseteq alive,
         \A b \in alive' : id'[b] = id[b],
         \A b \in K \union {Root} : heap'[b] = heap[b],
         \A b \in K \union {Root}, q \in Slots : heap[b][q] # Null => heap[b][q] \in K
  PROVE  IdsOK' /\ \E gone \in SUBSET GraphObjects : Graph!Forget(gone)
<1> DEFINE gone == {id[b] : b \in Live \ K}
<1>1. K \subseteq alive' /\ \A b \in K : id'[b] = id[b]
  BY Zenon DEF Live
<1>2. IdsOK'
  BY <1>1 DEF IdsOK
<1>3. \A b \in Live : id[b] \in gone <=> b \notin K
  BY Zenon DEF IdsOK
<1>4. gone \in SUBSET GraphObjects
  BY Zenon DEF GraphObjects
<1>5. Root \notin gone /\ Root \notin Live
  <2>1. Root \notin gone
    <3>1. \A b \in Live : id[b] \in Ids
      BY Zenon DEF IdsOK, Live
    <3>2. Root \notin Ids
      BY Zenon, HeapConstants
    <3> QED
      BY Zenon, <3>1, <3>2
  <2>2. Root \notin Live
    BY Zenon, Spaces DEF Live, IInv, TypeOK
  <2> QED
    BY Zenon, <2>1, <2>2
<1>6. \A b \in Live \union {Root} : Ident(b) \in gone <=> b \notin K \union {Root}
  BY Zenon, <1>3, <1>5 DEF Ident
<1>7. \A b \in K \union {Root} : Ident(b)' = Ident(b)
  BY Zenon, <1>1 DEF Ident
<1>8. GraphObjects' = GraphObjects \ gone
  <2>1. GraphObjects' = {id[b] : b \in K}
    BY Zenon, <1>1 DEF GraphObjects
  <2> HIDE DEF gone
  <2>2. \A x : x \in GraphObjects' <=> \E b \in K : x = id[b]
    BY Zenon, <2>1
  <2>3. \A x : x \in GraphObjects <=> \E b \in Live : x = id[b]
    BY Zenon DEF GraphObjects
  <2>4. ASSUME NEW x, x \in GraphObjects' PROVE x \in GraphObjects /\ x \notin gone
    BY <2>2, <2>3, <2>4, <1>3
  <2>5. ASSUME NEW x, x \in GraphObjects, x \notin gone PROVE x \in GraphObjects'
    BY <2>2, <2>3, <2>5, <1>3
  <2> QED
    BY Zenon, <2>4, <2>5
<1> HIDE DEF gone
<1>9. ASSUME NEW e \in GraphEdges, e[3] \in gone PROVE e[1] \in gone
  <2>1. PICK b \in Live \union {Root}, q \in Slots :
          heap[b][q] # Null /\ e = <<Ident(b), q, id[heap[b][q]]>>
    BY EdgeIff
  <2>2. e[1] = Ident(b) /\ e[3] = id[heap[b][q]]
    BY Zenon, <2>1
  <2>3. CASE b \in K \union {Root}
    BY <2>1, <2>2, <2>3, <1>3, <1>9
  <2>4. CASE b \notin K \union {Root}
    BY <2>2, <2>4, <1>6
  <2> QED
    BY Zenon, <2>3, <2>4
<1>10. ASSUME NEW e, e \in GraphEdges' PROVE e \in GraphEdges /\ e[1] \notin gone
  <2>1. PICK b \in K \union {Root}, q \in Slots :
          heap'[b][q] # Null /\ e = <<Ident(b)', q, id'[heap'[b][q]]>>
    <3>1. \E b \in Live' \union {Root}, q \in Slots :
            heap'[b][q] # Null /\ e = <<Ident(b)', q, id'[heap'[b][q]]>>
      BY ONLY Zenon, <1>10, EdgeIffNext
    <3>2. Live' \union {Root} = K \union {Root}
      BY Zenon
    <3> QED
      BY Zenon, <3>1, <3>2
  <2>2. heap'[b][q] = heap[b][q] /\ heap[b][q] \in K
    BY Zenon, <2>1
  <2>3. e = <<Ident(b), q, id[heap[b][q]]>> /\ heap[b][q] # Null
    BY <2>1, <2>2, <1>1, <1>7
  <2>4. e \in GraphEdges
    BY Zenon, <2>3, EdgeIff
  <2>5. e[1] = Ident(b)
    BY Zenon, <2>3
  <2> QED
    BY <2>4, <2>5, <1>6
<1>11. ASSUME NEW e \in GraphEdges, e[1] \notin gone PROVE e \in GraphEdges'
  <2>1. PICK b \in Live \union {Root}, q \in Slots :
          heap[b][q] # Null /\ e = <<Ident(b), q, id[heap[b][q]]>>
    BY EdgeIff
  <2>2. e[1] = Ident(b)
    BY Zenon, <2>1
  <2>3. b \in K \union {Root}
    BY <2>2, <1>6, <1>11
  <2>4. heap'[b][q] = heap[b][q] /\ heap[b][q] \in K
    BY Zenon, <2>1, <2>3
  <2>5. heap'[b][q] # Null /\ e = <<Ident(b)', q, id'[heap'[b][q]]>>
    BY Zenon, <2>1, <2>3, <2>4, <1>1, <1>7
  <2> QED
    BY Zenon, <2>3, <2>5, EdgeIffNext
<1>12. GraphEdges' = {e \in GraphEdges : e[1] \notin gone}
  BY Zenon, <1>10, <1>11
<1>13. Graph!Forget(gone)
  BY Zenon, <1>4, <1>8, <1>9, <1>12 DEF Graph!Forget
<1> QED
  BY Zenon, <1>2, <1>4, <1>13

(* The end of a minor collection forgets what did not move and what was    *)
(* born old and not found.                                                 *)
LEMMA GraphFinishMinor ==
  ASSUME IInv, IdsOK, FinishMinor
  PROVE  IdsOK' /\ \E gone \in SUBSET GraphObjects : Graph!Forget(gone)
<1> DEFINE K == Live \ (From \union Unseen)
<1>0. /\ phase = "minor" /\ gray = {} /\ alive' = alive \ From
      /\ lost' = (lost \ From) \union Unseen
  BY Zenon DEF FinishMinor, Freed, Unseen
<1>1. /\ \A b \in Addr \union {Root} :
            heap'[b] = IF b \in alive \intersect From THEN Blank ELSE heap[b]
      /\ \A b \in Addr : id'[b] = IF b \in alive \intersect From THEN Null ELSE id[b]
      /\ \A b \in Addr : forwarded'[b] = IF b \in alive \intersect From THEN Null ELSE forwarded[b]
  BY Zenon DEF FinishMinor, Freed
<1>2. \A b \in Addr : forwarded[b] # Null => b \in alive \intersect From
  BY Zenon DEF IInv, ForwardOK
<1>3. alive \subseteq Addr /\ Root \notin alive
  BY Zenon, Spaces DEF IInv, TypeOK
<1>4. Live' = K
  BY Zenon, <1>0, <1>1, <1>2, <1>3 DEF Live
<1>5. \A b \in alive' : id'[b] = id[b]
  BY Zenon, <1>0, <1>1, <1>3
<1>6. \A b \in K \union {Root} : heap'[b] = heap[b]
  BY Zenon, <1>1, <1>3 DEF Live
<1>7. \A b \in K \union {Root}, q \in Slots : heap[b][q] # Null => heap[b][q] \in K
  <2> SUFFICES ASSUME NEW b \in K \union {Root}, NEW q \in Slots, heap[b][q] # Null
               PROVE  heap[b][q] \in K
    BY Zenon
  <2>1. heap[b][q] \in Kept /\ heap[b][q] \notin From \union Unseen
    BY Zenon, <1>0 DEF IInv, RefsOK, MinorOK
  <2> QED
    BY Zenon, <2>1, <1>2, <1>3 DEF Kept, Live
<1>8. K \in SUBSET Live /\ alive' \subseteq alive
  BY Zenon, <1>0
<1> HIDE DEF K
<1>9. PICK k : k = K
  BY Zenon
<1>10. /\ k \in SUBSET Live /\ Live' = k
       /\ \A b \in k \union {Root} : heap'[b] = heap[b]
       /\ \A b \in k \union {Root}, q \in Slots : heap[b][q] # Null => heap[b][q] \in k
  BY Zenon, <1>4, <1>6, <1>7, <1>8, <1>9
<1>11. IInv /\ IdsOK
  BY Zenon
<1> QED
  BY ONLY Zenon, <1>5, <1>8, <1>10, <1>11, GraphForget

(* The sweep forgets what has no mark. *)
LEMMA GraphSweep ==
  ASSUME IInv, IdsOK, Sweep
  PROVE  IdsOK' /\ \E gone \in SUBSET GraphObjects : Graph!Forget(gone)
<1>0. /\ phase = "mark" /\ markStack = {} /\ alive' = alive \ Unmarked
      /\ lost' = (lost \union (alive \ marked)) \ Unmarked
      /\ Unmarked = (alive \intersect Old) \ marked
  BY Zenon DEF Sweep, Freed, Unmarked
<1>1. /\ \A b \in Addr \union {Root} : heap'[b] = IF b \in Unmarked THEN Blank ELSE heap[b]
      /\ \A b \in Addr : id'[b] = IF b \in Unmarked THEN Null ELSE id[b]
      /\ \A b \in Addr : forwarded'[b] = IF b \in Unmarked THEN Null ELSE forwarded[b]
  BY Zenon DEF Sweep, Freed
<1>2. \A b \in Addr : forwarded[b] = Null
  BY Zenon, <1>0 DEF IInv, ForwardOK
<1>3. alive \subseteq Addr /\ Root \notin alive
  BY Zenon, Spaces DEF IInv, TypeOK
<1>4. marked \subseteq alive \ lost
  BY Zenon, <1>0 DEF IInv, MarkOK, Kept
<1>5. marked \in SUBSET Live
  BY Zenon, <1>2, <1>3, <1>4 DEF Live
<1>6. Live' = marked
  BY Zenon, <1>0, <1>1, <1>2, <1>3, <1>4 DEF Live
<1>7. \A b \in alive' : id'[b] = id[b]
  BY Zenon, <1>0, <1>1, <1>3
<1>8. \A b \in marked \union {Root} : heap'[b] = heap[b]
  BY Zenon, <1>0, <1>1, <1>3, <1>4
<1>9. \A b \in marked \union {Root}, q \in Slots : heap[b][q] # Null => heap[b][q] \in marked
  BY Zenon, <1>0 DEF IInv, MarkOK
<1> QED
  BY Zenon, <1>0, <1>5, <1>6, <1>7, <1>8, <1>9, GraphForget

(* A new object, young or born old. *)
LEMMA GraphBorn ==
  ASSUME IInv, IdsOK, NEW s \in Slots, NEW a \in Addr, Born(a, s),
         UNCHANGED <<lost, forwarded>>
  PROVE  IdsOK' /\ \E i \in Ids : Graph!New(i, s)
<1> DEFINE unused == Ids \ {id[b] : b \in alive}
           i == CHOOSE j \in unused : TRUE
<1>0. /\ a \notin alive /\ unused # {} /\ alive' = alive \union {a}
      /\ heap' = [heap EXCEPT ![a] = Blank, ![Root][s] = a]
      /\ id' = [id EXCEPT ![a] = i]
  BY Zenon DEF Born
<1>1. i \in Ids /\ \A b \in alive : id[b] # i
  BY Zenon, <1>0
<1> HIDE DEF i, unused
<1>2. /\ alive \subseteq Addr /\ a # Root /\ Root \notin alive /\ a # Null
      /\ a \notin lost /\ forwarded[a] = Null
  BY Zenon, <1>0, Spaces DEF IInv, TypeOK, SetsOK, ForwardOK
<1>3. Live' = Live \union {a} /\ a \notin Live /\ Live \subseteq alive
  BY Zenon, <1>0, <1>2 DEF Live
<1>4. \A b \in Addr : id'[b] = IF b = a THEN i ELSE id[b]
  BY Zenon, <1>0 DEF IInv, TypeOK
<1>5. \A b \in Addr \union {Root}, q \in Slots :
         heap'[b][q] = IF b = Root /\ q = s THEN a ELSE IF b = a THEN Null ELSE heap[b][q]
  BY Zenon, <1>0, <1>2 DEF IInv, TypeOK, Blank
<1>6. IdsOK'
  <2>1. /\ \A b \in alive : id[b] \in Ids
        /\ \A b, c \in Live : id[b] = id[c] => b = c
    BY Zenon DEF IdsOK
  <2>2. ASSUME NEW b \in alive' PROVE id'[b] \in Ids
    BY Zenon, <2>1, <1>0, <1>1, <1>2, <1>4
  <2>3. ASSUME NEW b \in Live', NEW c \in Live', id'[b] = id'[c] PROVE b = c
    BY <2>1, <2>3, <1>0, <1>1, <1>2, <1>3, <1>4
  <2> QED
    BY Zenon, <2>2, <2>3 DEF IdsOK
<1>7. i \notin GraphObjects /\ GraphObjects' = GraphObjects \union {i}
  <2>1. \A b \in Live : id'[b] = id[b] /\ id[b] # i
    BY Zenon, <1>0, <1>1, <1>2, <1>3, <1>4
  <2>2. id'[a] = i
    BY Zenon, <1>4
  <2> QED
    BY Zenon, <2>1, <2>2, <1>3 DEF GraphObjects
<1>8. /\ \A b \in Live \union {Root} : Ident(b)' = Ident(b)
      /\ Ident(Root) = Root
  BY Zenon, <1>0, <1>2, <1>3, <1>4 DEF Ident
<1>9. \A b \in Live \union {Root}, q \in Slots :
         heap[b][q] # Null => id'[heap[b][q]] = id[heap[b][q]]
  <2>1. \A b \in Live \union {Root}, q \in Slots : heap[b][q] # Null => heap[b][q] \in Kept
    BY Zenon DEF IInv, RefsOK
  <2> QED
    BY <2>1, <1>0, <1>2, <1>4 DEF Kept
<1>10. ASSUME NEW e, e \in GraphEdges' PROVE e \in Graph!Assigned(Root, s, i)
  <2>1. PICK b \in Live' \union {Root}, q \in Slots :
          heap'[b][q] # Null /\ e = <<Ident(b)', q, id'[heap'[b][q]]>>
    BY Zenon, <1>10, EdgeIffNext
  <2>2. CASE b = Root /\ q = s
    <3>1. e = <<Root, s, i>> /\ i # Null
      BY Zenon, <2>1, <2>2, <1>1, <1>4, <1>5, <1>8, Spaces
    <3> QED
      BY Zenon, <3>1 DEF Graph!Assigned
  <2>3. CASE ~(b = Root /\ q = s)
    <3>1. b # a /\ b \in Live \union {Root}
      BY Zenon, <2>1, <2>3, <1>2, <1>3, <1>5
    <3>2. heap'[b][q] = heap[b][q]
      BY Zenon, <3>1, <2>3, <1>2, <1>3, <1>5
    <3>3. heap[b][q] # Null /\ e = <<Ident(b), q, id[heap[b][q]]>>
      BY Zenon, <2>1, <3>1, <3>2, <1>8, <1>9
    <3>4. e \in GraphEdges /\ e[1] = Ident(b) /\ e[2] = q
      BY Zenon, <3>1, <3>3, EdgeIff
    <3>5. e[1] # Root \/ e[2] # s
      BY Zenon, <2>3, <3>1, <3>4, <1>8, IdentOne
    <3> QED
      BY Zenon, <3>4, <3>5 DEF Graph!Assigned
  <2> QED
    BY Zenon, <2>2, <2>3
<1>11. ASSUME NEW e, e \in Graph!Assigned(Root, s, i) PROVE e \in GraphEdges'
  <2>1. CASE e \in GraphEdges /\ (e[1] # Root \/ e[2] # s)
    <3>1. PICK b \in Live \union {Root}, q \in Slots :
            heap[b][q] # Null /\ e = <<Ident(b), q, id[heap[b][q]]>>
      BY Zenon, <2>1, EdgeIff
    <3>2. ~(b = Root /\ q = s) /\ b # a
      BY Zenon, <2>1, <3>1, <1>2, <1>3, <1>8
    <3>3. heap'[b][q] = heap[b][q] /\ b \in Live' \union {Root}
      BY Zenon, <3>2, <1>2, <1>3, <1>5
    <3>4. heap'[b][q] # Null /\ e = <<Ident(b)', q, id'[heap'[b][q]]>>
      BY Zenon, <3>1, <3>3, <1>8, <1>9
    <3> QED
      BY Zenon, <3>3, <3>4, EdgeIffNext
  <2>2. CASE e = <<Root, s, i>>
    <3>1. heap'[Root][s] = a /\ a # Null /\ e = <<Ident(Root)', s, id'[heap'[Root][s]]>>
      BY Zenon, <2>2, <1>2, <1>4, <1>5, <1>8
    <3> QED
      BY Zenon, <3>1, EdgeIffNext
  <2> QED
    BY Zenon, <1>11, <2>1, <2>2 DEF Graph!Assigned
<1>12. GraphEdges' = Graph!Assigned(Root, s, i)
  BY Zenon, <1>10, <1>11
<1>13. Graph!New(i, s)
  BY Zenon, <1>7, <1>12 DEF Graph!New
<1> QED
  BY Zenon, <1>1, <1>6, <1>13

(* What a step other than a store does to the graph. *)
GraphMoves ==
  \/ UNCHANGED <<GraphObjects, GraphEdges>>
  \/ \E gone \in SUBSET GraphObjects : Graph!Forget(gone)
  \/ \E s \in Slots : Graph!Drop(s)
  \/ \E i \in Ids, s \in Slots : Graph!New(i, s)
  \/ \E s, f, t \in Slots : Graph!Load(s, f, t)

Stores == \E s, t \in Slots, f \in Fields : Fill(s, f, t) \/ Store(s, f, t)

LEMMA RulesMove ==
  ASSUME RulesOK, GraphMoves
  PROVE  RulesOK'
<1>1. ASSUME NEW s, NEW y, GraphEdges' = Graph!Assigned(Root, s, y)
      PROVE  \A e \in GraphEdges' : e \in GraphEdges \/ e[1] = Root
  <2> SUFFICES ASSUME NEW e \in GraphEdges', e \notin GraphEdges PROVE e[1] = Root
    BY Zenon
  <2>1. e = <<Root, s, y>>
    BY Zenon, <1>1 DEF Graph!Assigned
  <2> QED
    BY <2>1
<1>2. \A e \in GraphEdges' : e \in GraphEdges \/ e[1] = Root
  BY ZenonT(40), <1>1 DEF GraphMoves, Graph!Forget, Graph!Drop, Graph!New, Graph!Load
<1>3. Root \notin Rules
  BY Zenon, HeapConstants
<1> QED
  BY Zenon, <1>2, <1>3 DEF RulesOK

(* Each step on the heap is a step on the graph, or leaves it as it is. *)
LEMMA StepGraphMoves ==
  ASSUME IInv, IdsOK, [Next]_vars, ~Stores
  PROVE  IdsOK' /\ GraphMoves
<1>1. CASE UNCHANGED vars
  BY Zenon, <1>1, BooksOnly DEF vars, minorVars, markVars, GraphMoves
<1>2. CASE FinishMinor
  BY Zenon, <1>2, GraphFinishMinor DEF GraphMoves
<1>3. CASE Sweep
  BY Zenon, <1>3, GraphSweep DEF GraphMoves
<1>4. CASE StartMark \/ BeginMinor \/ SkipMinor
  BY Zenon, <1>4, BooksOnly DEF StartMark, BeginMinor, SkipMinor, minorVars, markVars, GraphMoves
<1>5. ASSUME NEW a \in Addr \union {Root}, NEW s \in Slots,
             KeepRef(a, s) \/ ScanFresh(a, s) \/ ScanUntyped(a, s)
      PROVE  IdsOK' /\ UNCHANGED <<GraphObjects, GraphEdges>>
  BY Zenon, <1>5, BooksOnly DEF KeepRef, ScanFresh, ScanUntyped
<1>6. ASSUME NEW a \in Addr \union {Root}, NEW s \in Slots, FollowForward(a, s)
      PROVE  IdsOK' /\ UNCHANGED <<GraphObjects, GraphEdges>>
  BY Zenon, <1>6, GraphFollowForward
<1>7. ASSUME NEW a \in Addr \union {Root}, NEW s \in Slots,
             CopyToHaven(a, s) \/ Promote(a, s)
      PROVE  IdsOK' /\ UNCHANGED <<GraphObjects, GraphEdges>>
  <2>1. PICK n \in haven \union Elder : MoveTo(a, s, n)
    BY Zenon, <1>7 DEF CopyToHaven, Promote
  <2>2. lost' = lost
    BY Zenon, <1>7 DEF CopyToHaven, Promote
  <2> QED
    BY Zenon, <2>1, <2>2, GraphMove
<1>8. ASSUME NEW a \in Addr, MarkObject(a)
      PROVE  IdsOK' /\ UNCHANGED <<GraphObjects, GraphEdges>>
  BY Zenon, <1>8, BooksOnly DEF MarkObject, minorVars
<1>9. ASSUME NEW s \in Slots, AllocYoung(s) \/ AllocOld(s)
       PROVE  IdsOK' /\ GraphMoves
  <2>1. PICK a \in Addr : Born(a, s)
    BY Zenon, <1>9, Spaces DEF AllocYoung, AllocOld
  <2>2. UNCHANGED <<lost, forwarded>>
    BY Zenon, <1>9 DEF AllocYoung, AllocOld
  <2> QED
    BY Zenon, <2>1, <2>2, GraphBorn DEF GraphMoves
<1>10. ASSUME NEW s \in Slots, Drop(s)
       PROVE  IdsOK' /\ GraphMoves
  BY Zenon, <1>10, GraphDrop DEF GraphMoves
<1>11. ASSUME NEW s \in Slots, NEW t \in Slots, NEW f \in Fields, Load(s, f, t)
       PROVE  IdsOK' /\ GraphMoves
  BY Zenon, <1>11, GraphLoad, HeapConstants DEF GraphMoves
<1> QED
  BY Zenon, <1>1, <1>2, <1>3, <1>4, <1>5, <1>6, <1>7, <1>8, <1>9, <1>10, <1>11
  DEF Next, CollectorStep, ProgramStep, Stores, GraphMoves

LEMMA StepGraphStores ==
  ASSUME IInv, IdsOK, Stores
  PROVE  IdsOK' /\ (RulesOK => RulesOK') /\ Graph!Next
<1>1. PICK s \in Slots, t \in Slots, f \in Fields : Fill(s, f, t) \/ Store(s, f, t)
  BY Zenon DEF Stores
<1>2. /\ phase = "run" /\ UNCHANGED <<alive, id, lost, forwarded>>
      /\ heap' = [heap EXCEPT ![heap[Root][s]][f] = heap[Root][t]]
      /\ ~(IsRule(heap[Root][s]) /\ IsRule(heap[Root][t]))
  BY Zenon, <1>1 DEF Fill, Store, minorVars
<1>3. heap[Root][s] # Null
  <2>1. Null \notin Young \union freshOld
    BY Zenon, Spaces DEF IInv, TypeOK
  <2> QED
    BY Zenon, <1>1, <2>1 DEF Fill, Store
<1>4. /\ IdsOK' /\ \E y \in GraphObjects \union {Null} : Graph!Store(s, f, y)
      /\ RulesOK => RulesOK'
  BY Zenon, <1>2, <1>3, GraphStores
<1> QED
  BY Zenon, <1>4, HeapConstants DEF Graph!Next

LEMMA StepGraph ==
  ASSUME IInv, IdsOK, [Next]_vars
  PROVE  /\ IdsOK' /\ (RulesOK => RulesOK')
         /\ Graph!Next \/ UNCHANGED <<GraphObjects, GraphEdges>>
<1>1. GraphMoves => Graph!Next \/ UNCHANGED <<GraphObjects, GraphEdges>>
  BY Zenon DEF GraphMoves, Graph!Next
<1> QED
  BY Zenon, <1>1, StepGraphMoves, StepGraphStores, RulesMove

(* At the start there are no objects and no references. *)
LEMMA InitGraph == Init => Graph!Init
<1> SUFFICES ASSUME Init PROVE Graph!Init
  BY Zenon
<1>1. Live = {} /\ \A q \in Slots : heap[Root][q] = Null
  BY Zenon DEF Init, Live, Blank
<1>2. GraphObjects = {}
  BY Zenon, <1>1 DEF GraphObjects
<1>3. \A e : e \notin GraphEdges
  BY Zenon, <1>1, EdgeIff
<1> QED
  BY Zenon, <1>2, <1>3 DEF Graph!Init

(* Collector and program together implement the graph of objects: moving,  *)
(* promoting and sweeping objects shows to the program only in that what   *)
(* nothing refers to any more is gone (forward, promote, sweepOldGen).     *)
THEOREM HeapCollectorIsInvisible == Spec => CollectorIsInvisible
<1>1. IdsOK /\ IInv /\ [Next]_vars
        => IdsOK' /\ [Graph!Next]_(Graph!vars)
  BY Zenon, StepGraph DEF Graph!vars
<1> QED
  BY InitIdsOK, InitGraph, HeapInvariant, <1>1, PTL
  DEF Spec, CollectorIsInvisible, Graph!Spec

-----------------------------------------------------------------------------
INSTANCE FiniteSetTheorems

(* The rules stay what they are through every step. *)
LEMMA HeapRules == Spec => [](IdsOK /\ RulesOK)
<1>1. Init => RulesOK
  <2>1. Init => GraphEdges = {}
    BY Zenon, InitGraph DEF Graph!Init
  <2> QED
    BY Zenon, <2>1 DEF RulesOK
<1>2. IdsOK /\ RulesOK /\ IInv /\ [Next]_vars => (IdsOK /\ RulesOK)'
  BY Zenon, StepGraph
<1> QED
  BY InitIdsOK, HeapInvariant, <1>1, <1>2, PTL DEF Spec

(* What a rule's slot refers to, as the collector finds it. *)
LEMMA RuleSlot ==
  ASSUME IInv, RulesOK, NEW a \in Addr \union {Root}, NEW s \in Slots, Visit(a, s), IsRule(a),
         heap[a][s] # Null
  PROVE  ~IsRule(heap[a][s])
<1>1. a \in Live /\ a # Root
  BY Zenon, Visiting, Spaces DEF IsRule
<1>2. <<id[a], s, id[heap[a][s]]>> \in GraphEdges
  BY Zenon, <1>1, EdgeIff DEF Ident
<1> DEFINE e == <<id[a], s, id[heap[a][s]]>>
<1>3. e[1] = id[a] /\ e[3] = id[heap[a][s]]
  OBVIOUS
<1> QED
  BY Zenon, <1>2, <1>3 DEF RulesOK, IsRule

(* A visit that scans nothing, and one that scans an object for the last   *)
(* time: n visits are added and n + 1 are taken off.                       *)
LEMMA VisitsFall ==
  ASSUME NEW n \in Nat, NEW g \in Nat, NEW h \in Nat, NEW u \in Nat, NEW v \in Nat,
         \/ h < g /\ v <= u
         \/ h <= g + n /\ v < u
  PROVE  h + (n + 1) * v < g + (n + 1) * u
<1>1. PICK d \in Nat : u = v + d
  <2>1. u - v \in Nat /\ u = v + (u - v)
    OBVIOUS
  <2> QED
    BY Zenon, <2>1
<1>2. (n + 1) * u = (n + 1) * v + (n + 1) * d
  BY <1>1
<1> DEFINE m == n + 1
<1>3. m * d \in Nat /\ m * v \in Nat /\ m \in Nat
  OBVIOUS
<1>4. d # 0 => m * d >= m
  <2>1. d # 0 => d - 1 \in Nat /\ m * d = m * (d - 1) + m
    BY <1>3
  <2>2. d # 0 => m * (d - 1) \in Nat
    BY <1>3
  <2> QED
    BY <2>1, <2>2, <1>3
<1>5. CASE h < g /\ v <= u
  BY <1>2, <1>3, <1>5
<1>6. CASE h <= g + n /\ v < u
  BY <1>1, <1>2, <1>3, <1>4, <1>6
<1> QED
  BY Zenon, <1>5, <1>6

(* What a collection counts is finite. *)
LEMMA CountsAreNat ==
  ASSUME IInv
  PROVE  /\ IsFiniteSet(gray) /\ IsFiniteSet(Unmoved) /\ IsFiniteSet(freshOld)
         /\ IsFiniteSet(RootVisits) /\ IsFiniteSet(RuleVisits)
         /\ IsFiniteSet(markStack) /\ IsFiniteSet(alive \ marked)
         /\ IsFiniteSet(Fields) /\ IsFiniteSet(Slots)
<1>1. IsFiniteSet((Addr \union {Root}) \X Slots)
  BY Zenon, HeapIsFinite, FS_AddElement, FS_Product
<1>2. gray \in SUBSET ((Addr \union {Root}) \X Slots)
  BY Zenon DEF IInv, TypeOK
<1>3. /\ Unmoved \in SUBSET Addr /\ freshOld \in SUBSET Addr /\ markStack \in SUBSET Addr
      /\ alive \ marked \in SUBSET Addr /\ Fields \in SUBSET Slots
  BY Zenon, Spaces DEF IInv, TypeOK, Unmoved
<1>4. /\ RootVisits \in SUBSET ((Addr \union {Root}) \X Slots)
      /\ RuleVisits \in SUBSET ((Addr \union {Root}) \X Slots)
  BY Zenon, <1>2 DEF RootVisits, RuleVisits
<1> QED
  BY <1>1, <1>2, <1>3, <1>4, HeapIsFinite, FS_Subset

(* The visit of g is over and finds the slots in more. *)
LEMMA OneVisit ==
  ASSUME NEW G, IsFiniteSet(G), NEW g \in G, NEW M, IsFiniteSet(M)
  PROVE  /\ IsFiniteSet((G \ {g}) \union M)
         /\ Cardinality((G \ {g}) \union M) < Cardinality(G) + Cardinality(M)
         /\ Cardinality(G \ {g}) < Cardinality(G)
<1>1. IsFiniteSet(G \ {g}) /\ Cardinality(G \ {g}) = Cardinality(G) - 1
  BY Zenon, FS_RemoveElement
<1>2. IsFiniteSet((G \ {g}) \intersect M)
  BY Zenon, <1>1, FS_Subset
<1>3. /\ IsFiniteSet((G \ {g}) \union M)
      /\ Cardinality((G \ {g}) \union M)
           = Cardinality(G \ {g}) + Cardinality(M) - Cardinality((G \ {g}) \intersect M)
  BY Zenon, <1>1, FS_Union
<1>4. /\ Cardinality(G) \in Nat /\ Cardinality(M) \in Nat
      /\ Cardinality((G \ {g}) \intersect M) \in Nat
  BY Zenon, <1>2, FS_CardinalityType
<1> QED
  BY <1>1, <1>3, <1>4

LEMMA FieldsOf ==
  ASSUME NEW r
  PROVE  /\ IsFiniteSet({r} \X Fields)
         /\ Cardinality({r} \X Fields) = Cardinality(Fields) /\ Cardinality(Fields) \in Nat
<1>1. IsFiniteSet(Fields)
  BY Spaces, HeapIsFinite, FS_Subset
<1>2. IsFiniteSet({r}) /\ Cardinality({r}) = 1
  BY Zenon, FS_Singleton
<1>3. /\ IsFiniteSet({r} \X Fields)
      /\ Cardinality({r} \X Fields) = Cardinality({r}) * Cardinality(Fields)
  BY Zenon, <1>1, <1>2, FS_Product
<1>4. Cardinality(Fields) \in Nat
  BY Zenon, <1>1, FS_CardinalityType
<1> QED
  BY <1>2, <1>3, <1>4

(* A smaller set counts less. *)
LEMMA FewerIn ==
  ASSUME NEW S, NEW T, IsFiniteSet(S), T \subseteq S
  PROVE  /\ IsFiniteSet(T) /\ Cardinality(S) \in Nat /\ Cardinality(T) \in Nat
         /\ Cardinality(T) <= Cardinality(S)
         /\ \A y : y \in S \ T => Cardinality(T) < Cardinality(S)
<1>1. IsFiniteSet(T) /\ Cardinality(T) <= Cardinality(S) /\ (Cardinality(S) = Cardinality(T) => S = T)
  BY Zenon, FS_Subset
<1>2. Cardinality(S) \in Nat /\ Cardinality(T) \in Nat
  BY Zenon, <1>1, FS_CardinalityType
<1> QED
  BY <1>1, <1>2

(* The slots of rules among those still to visit: a visit that adds the    *)
(* slots of r adds at most these, and none when r is not a rule.           *)
LEMMA RuleVisitsLeft ==
  ASSUME IInv, NEW a \in Addr \union {Root}, NEW s \in Slots, NEW r, <<a, s>> \in gray,
         \A p \in gray : IsRule(p[1])' <=> IsRule(p[1]),
         gray' \subseteq (gray \ {<<a, s>>}) \union ({r} \X Fields)
  PROVE  /\ Cardinality(RuleVisits) \in Nat /\ Cardinality(RuleVisits') \in Nat
         /\ Cardinality(RuleVisits') <= Cardinality(RuleVisits) + Cardinality(Fields)
         /\ gray' = gray \ {<<a, s>>} => Cardinality(RuleVisits') <= Cardinality(RuleVisits)
         /\ IsRule(a) /\ ~IsRule(r)' => Cardinality(RuleVisits') < Cardinality(RuleVisits)
<1> DEFINE F == {r} \X Fields
<1>1. IsFiniteSet(RuleVisits) /\ IsFiniteSet(F) /\ Cardinality(F) = Cardinality(Fields)
  BY Zenon, CountsAreNat, FieldsOf
<1>2. \A p \in RuleVisits' : p \in gray' /\ IsRule(p[1])'
  BY Zenon DEF RuleVisits
<1>3. \A p \in gray : IsRule(p[1]) => p \in RuleVisits
  BY Zenon DEF RuleVisits
<1>4. \A p \in F : p[1] = r
  BY Zenon
<1>5. RuleVisits' \subseteq RuleVisits \union F
  BY Zenon, <1>2, <1>3
<1>6. gray' = gray \ {<<a, s>>} => RuleVisits' \subseteq RuleVisits
  BY Zenon, <1>2, <1>3
<1>7. IsRule(a) /\ ~IsRule(r)' => RuleVisits' \subseteq RuleVisits \ {<<a, s>>} /\ <<a, s>> \in RuleVisits
  <2> SUFFICES ASSUME IsRule(a), ~IsRule(r)'
               PROVE  RuleVisits' \subseteq RuleVisits \ {<<a, s>>} /\ <<a, s>> \in RuleVisits
    BY Zenon
  <2>1. <<a, s>> \in RuleVisits
    <3>1. <<a, s>>[1] = a
      OBVIOUS
    <3> QED
      BY Zenon, <1>3, <3>1
  <2>2. \A p \in RuleVisits' : p \notin F
    BY Zenon, <1>2, <1>4
  <2> QED
    BY Zenon, <1>2, <1>3, <2>1, <2>2
<1> HIDE DEF F
<1>8. /\ IsFiniteSet(RuleVisits \union F)
      /\ Cardinality(RuleVisits \union F) <= Cardinality(RuleVisits) + Cardinality(Fields)
  <2>1. IsFiniteSet(RuleVisits \intersect F)
    BY Zenon, <1>1, FS_Intersection
  <2>2. /\ IsFiniteSet(RuleVisits \union F)
        /\ Cardinality(RuleVisits \union F)
             = Cardinality(RuleVisits) + Cardinality(F) - Cardinality(RuleVisits \intersect F)
    BY Zenon, <1>1, FS_Union
  <2>3. /\ Cardinality(RuleVisits \intersect F) \in Nat /\ Cardinality(F) \in Nat
        /\ Cardinality(RuleVisits) \in Nat
    BY Zenon, <1>1, <2>1, FS_CardinalityType
  <2> QED
    BY <1>1, <2>2, <2>3
<1>9. /\ Cardinality(RuleVisits') \in Nat /\ Cardinality(RuleVisits \union F) \in Nat
      /\ Cardinality(RuleVisits') <= Cardinality(RuleVisits \union F)
  BY Zenon, <1>5, <1>8, FewerIn
<1>10. Cardinality(RuleVisits) \in Nat /\ Cardinality(Fields) \in Nat
  BY Zenon, <1>1, FieldsOf, FS_CardinalityType
<1>11. Cardinality(RuleVisits') <= Cardinality(RuleVisits) + Cardinality(Fields)
  BY <1>8, <1>9, <1>10
<1>12. gray' = gray \ {<<a, s>>} => Cardinality(RuleVisits') <= Cardinality(RuleVisits)
  BY Zenon, <1>1, <1>6, FewerIn
<1>13. IsRule(a) /\ ~IsRule(r)' => Cardinality(RuleVisits') < Cardinality(RuleVisits)
  <2>1. RuleVisits' \subseteq RuleVisits \ {<<a, s>>} /\ <<a, s>> \in RuleVisits
          => RuleVisits' \subseteq RuleVisits /\ <<a, s>> \in RuleVisits \ RuleVisits'
    BY Zenon
  <2> QED
    BY Zenon, <1>1, <1>7, <2>1, FewerIn
<1> QED
  BY Zenon, <1>9, <1>10, <1>11, <1>12, <1>13

(* The visit of a slot in a minor collection: it scans nothing, or the     *)
(* object it scans is one less to move, to stop being fresh or to be found *)
(* from the roots, or is found from a rule and is none.                    *)
LEMMA VisitAdvances ==
  ASSUME IInv, NEW a \in Addr \union {Root}, NEW s \in Slots, NEW r, NEW x, r # Root,
         phase = "minor", phase' = "minor", <<a, s>> \in gray,
         \A p \in gray : IsRule(p[1])' <=> IsRule(p[1]),
         Unmoved' \subseteq Unmoved, freshOld' \subseteq freshOld,
         \/ gray' = gray \ {<<a, s>>}
         \/ /\ gray' = (gray \ {<<a, s>>}) \union ({r} \X Fields)
            /\ \/ x \in Unmoved \ Unmoved'
               \/ x \in freshOld \ freshOld'
               \/ a = Root
               \/ IsRule(a) /\ ~IsRule(r)'
  PROVE  VisitsLeft' < VisitsLeft
<1> DEFINE n == Cardinality(Fields)
           k == Cardinality(RuleVisits)
           l == Cardinality(RuleVisits')
           u == Cardinality(Unmoved) + Cardinality(freshOld) + Cardinality(RootVisits)
           v == Cardinality(Unmoved') + Cardinality(freshOld') + Cardinality(RootVisits')
           U == k + (n + 1) * u
           V == l + (n + 1) * v
<1>1. /\ IsFiniteSet(gray) /\ IsFiniteSet(Unmoved) /\ IsFiniteSet(freshOld)
      /\ IsFiniteSet(RootVisits)
  BY Zenon, CountsAreNat
<1>2. RootVisits' \subseteq RootVisits /\ (a = Root => <<a, s>> \in RootVisits \ RootVisits')
  BY Zenon, Spaces DEF RootVisits
<1>3. gray' \subseteq (gray \ {<<a, s>>}) \union ({r} \X Fields)
  BY Zenon
<1>4. /\ Cardinality(Unmoved) \in Nat /\ Cardinality(Unmoved') \in Nat
      /\ Cardinality(Unmoved') <= Cardinality(Unmoved)
      /\ x \in Unmoved \ Unmoved' => Cardinality(Unmoved') < Cardinality(Unmoved)
  BY Zenon, <1>1, FewerIn
<1>5. /\ Cardinality(freshOld) \in Nat /\ Cardinality(freshOld') \in Nat
      /\ Cardinality(freshOld') <= Cardinality(freshOld)
      /\ x \in freshOld \ freshOld' => Cardinality(freshOld') < Cardinality(freshOld)
  BY Zenon, <1>1, FewerIn
<1>6. /\ Cardinality(RootVisits) \in Nat /\ Cardinality(RootVisits') \in Nat
      /\ Cardinality(RootVisits') <= Cardinality(RootVisits)
      /\ a = Root => Cardinality(RootVisits') < Cardinality(RootVisits)
  BY Zenon, <1>1, <1>2, FewerIn
<1>7. u \in Nat /\ v \in Nat /\ v <= u
  BY <1>4, <1>5, <1>6
<1>8. x \in Unmoved \ Unmoved' \/ x \in freshOld \ freshOld' \/ a = Root => v < u
  BY <1>4, <1>5, <1>6
<1>9. /\ k \in Nat /\ l \in Nat /\ l <= k + n
      /\ gray' = gray \ {<<a, s>>} => l <= k
      /\ IsRule(a) /\ ~IsRule(r)' => l < k
  BY Zenon, <1>3, RuleVisitsLeft
<1>10. /\ VisitsLeft = Cardinality(gray) + (n + 1) * U
       /\ VisitsLeft' = Cardinality(gray') + (n + 1) * V
  BY Zenon DEF VisitsLeft
<1> HIDE DEF u, v, k, l
<1>11. Cardinality(gray) \in Nat /\ Cardinality(gray') \in Nat
  <2>1. IsFiniteSet(gray')
    <3>1. IsFiniteSet(gray \ {<<a, s>>})
      BY Zenon, <1>1, FS_RemoveElement
    <3>2. IsFiniteSet((gray \ {<<a, s>>}) \union ({r} \X Fields))
      BY Zenon, <3>1, FieldsOf, FS_Union
    <3> QED
      BY Zenon, <3>1, <3>2
  <2> QED
    BY <1>1, <2>1, FS_CardinalityType
<1>12. n \in Nat
  BY Zenon, FieldsOf
<1>13. CASE gray' = gray \ {<<a, s>>}
  <2>1. Cardinality(gray') < Cardinality(gray)
    <3>1. IsFiniteSet({r} \X Fields)
      BY Zenon, FieldsOf
    <3>2. Cardinality(gray \ {<<a, s>>}) < Cardinality(gray)
      BY Zenon, <1>1, <3>1, OneVisit
    <3> QED
      BY Zenon, <3>2, <1>13
  <2> HIDE DEF n
  <2>2. U \in Nat /\ V \in Nat
    BY <1>7, <1>9, <1>12
  <2>3. V < (k + 1) + (n + 1) * u
    <3>1. k + 1 \in Nat /\ l < k + 1
      BY <1>9, <1>13
    <3> QED
      BY SMTT(30), <3>1, <1>7, <1>9, <1>12, VisitsFall
  <2>4. V <= U
    BY <2>2, <2>3, <1>7, <1>9, <1>12
  <2> HIDE DEF U, V
  <2> QED
    BY SMTT(30), <2>1, <2>2, <2>4, <1>10, <1>11, <1>12, VisitsFall
<1>14. CASE gray' = (gray \ {<<a, s>>}) \union ({r} \X Fields) /\ (v < u \/ l < k)
  <2>1. Cardinality(gray') < Cardinality(gray) + n
    BY Zenon, <1>1, <1>14, FieldsOf, OneVisit
  <2> HIDE DEF n
  <2>2. U \in Nat /\ V \in Nat
    BY <1>7, <1>9, <1>12
  <2>3. V < U
    BY SMTT(30), <1>7, <1>9, <1>12, <1>14, VisitsFall
  <2>4. Cardinality(gray') <= Cardinality(gray) + n
    BY <2>1, <1>11, <1>12
  <2> HIDE DEF U, V
  <2> QED
    BY SMTT(30), <2>2, <2>3, <2>4, <1>10, <1>11, <1>12, VisitsFall
<1> QED
  BY Zenon, <1>8, <1>9, <1>13, <1>14

(* Marking takes an object off the stack, or marks it. *)
LEMMA MarkAdvances ==
  ASSUME IInv, NEW a \in Addr, MarkObject(a)
  PROVE  VisitsLeft' < VisitsLeft
<1> DEFINE n == Cardinality(Slots)
           refs == {heap[a][s] : s \in Slots} \ {Null}
<1>1. /\ phase = "mark" /\ phase' = "mark" /\ a \in markStack /\ alive' = alive
      /\ IF a \in marked
         THEN markStack' = markStack \ {a} /\ marked' = marked
         ELSE marked' = marked \union {a} /\ markStack' = (markStack \ {a}) \union refs
  BY Zenon DEF MarkObject
<1>2. a \in alive
  BY Zenon, <1>1 DEF IInv, MarkOK, Kept
<1>3. IsFiniteSet(markStack) /\ IsFiniteSet(alive \ marked) /\ IsFiniteSet(Slots)
  BY Zenon, CountsAreNat
<1>4. IsFiniteSet(refs) /\ Cardinality(refs) <= n
  <2> DEFINE all == {heap[a][s] : s \in Slots}
             f == [s \in Slots |-> heap[a][s]]
  <2>1. f \in Surjection(Slots, all)
    BY Zenon DEF Surjection
  <2> HIDE DEF f
  <2>2. IsFiniteSet(all) /\ Cardinality(all) <= n
    BY Zenon, <2>1, <1>3, FS_Surjection
  <2>3. refs \in SUBSET all
    BY Zenon
  <2> HIDE DEF all, refs
  <2>4. IsFiniteSet(refs) /\ Cardinality(refs) <= Cardinality(all)
    BY Zenon, <2>2, <2>3, FS_Subset
  <2>5. Cardinality(refs) \in Nat /\ Cardinality(all) \in Nat /\ n \in Nat
    BY <2>2, <2>4, <1>3, FS_CardinalityType
  <2> QED
    BY <2>2, <2>4, <2>5
<1> HIDE DEF refs
<1>5. /\ Cardinality(markStack) \in Nat /\ Cardinality(alive \ marked) \in Nat /\ n \in Nat
      /\ Cardinality(refs) \in Nat
  BY <1>3, <1>4, FS_CardinalityType
<1>6. Cardinality(markStack') \in Nat /\ Cardinality(alive' \ marked') \in Nat
  <2>1. IsFiniteSet(markStack')
    <3>1. IsFiniteSet(markStack \ {a})
      BY Zenon, <1>3, FS_RemoveElement
    <3>2. IsFiniteSet((markStack \ {a}) \union refs)
      BY Zenon, <3>1, <1>4, FS_Union
    <3> QED
      BY <3>1, <3>2, <1>1
  <2>2. alive' \ marked' \in SUBSET (alive \ marked)
    BY Zenon, <1>1
  <2>3. IsFiniteSet(alive' \ marked')
    BY Zenon, <2>2, <1>3, FS_Subset
  <2> QED
    BY <2>1, <2>3, FS_CardinalityType
<1>7. /\ VisitsLeft = Cardinality(markStack) + (n + 1) * Cardinality(alive \ marked)
      /\ VisitsLeft' = Cardinality(markStack') + (n + 1) * Cardinality(alive' \ marked')
  BY Zenon, <1>1 DEF VisitsLeft
<1>8. CASE a \in marked
  <2>1. Cardinality(markStack') < Cardinality(markStack)
    BY Zenon, <1>1, <1>3, <1>4, <1>8, OneVisit
  <2>2. alive' \ marked' = alive \ marked
    BY Zenon, <1>1, <1>8
  <2> HIDE DEF n
  <2>3. Cardinality(alive' \ marked') <= Cardinality(alive \ marked)
    BY <2>2, <1>5
  <2> QED
    BY SMTT(30), <2>1, <2>3, <1>5, <1>6, <1>7, VisitsFall
<1>9. CASE a \notin marked
  <2>1. Cardinality(markStack') < Cardinality(markStack) + Cardinality(refs)
    BY Zenon, <1>1, <1>3, <1>4, <1>9, OneVisit
  <2>2. alive' \ marked' = (alive \ marked) \ {a} /\ a \in alive \ marked
    BY Zenon, <1>1, <1>2, <1>9
  <2>3. Cardinality(alive' \ marked') < Cardinality(alive \ marked)
    BY Zenon, <2>2, <1>3, <1>4, OneVisit
  <2> HIDE DEF n
  <2>4. Cardinality(markStack') <= Cardinality(markStack) + n
    BY SMTT(30), <2>1, <1>4, <1>5, <1>6
  <2> QED
    BY SMTT(30), <2>3, <2>4, <1>5, <1>6, <1>7, VisitsFall
<1> QED
  BY <1>8, <1>9

(* Every step on the way through a collection. *)
LEMMA StepAdvances ==
  ASSUME IInv, RulesOK, Next, phase # "run"
  PROVE  \/ PartsLeft' < PartsLeft
         \/ PartsLeft' = PartsLeft /\ VisitsLeft' < VisitsLeft
<1>0. /\ phase = "minor" => PartsLeft = 3
      /\ phase = "premark" => PartsLeft = 2
      /\ phase = "mark" => PartsLeft = 1
      /\ phase' = "premark" => PartsLeft' = 2
      /\ phase' = "mark" => PartsLeft' = 1
      /\ phase' = "run" => PartsLeft' = 0
  BY Zenon DEF PartsLeft
<1>1. CASE FinishMinor
  <2>1. phase = "minor" /\ phase' \in {"run", "premark"}
    BY Zenon, <1>1 DEF FinishMinor, AfterMinor
  <2>2. PartsLeft' < PartsLeft
    BY <1>0, <2>1
  <2> QED
    BY Zenon, <2>2
<1>2. CASE StartMark
  <2>1. phase = "premark" /\ phase' = "mark"
    BY Zenon, <1>2 DEF StartMark
  <2>2. PartsLeft' < PartsLeft
    BY <1>0, <2>1
  <2> QED
    BY Zenon, <2>2
<1>3. CASE Sweep
  <2>1. phase = "mark" /\ phase' = "run"
    BY Zenon, <1>3 DEF Sweep
  <2>2. PartsLeft' < PartsLeft
    BY <1>0, <2>1
  <2> QED
    BY Zenon, <2>2
<1>4. ASSUME phase' = phase PROVE PartsLeft' = PartsLeft
  BY Zenon, <1>4 DEF PartsLeft
<1>5. ASSUME NEW a \in Addr \union {Root}, NEW s \in Slots, KeepRef(a, s)
      PROVE  phase' = phase /\ VisitsLeft' < VisitsLeft
  <2>1. /\ phase = "minor" /\ phase' = "minor" /\ <<a, s>> \in gray
        /\ gray' = gray \ {<<a, s>>} /\ UNCHANGED <<alive, id, forwarded, freshOld, haven>>
    BY Zenon, <1>5 DEF KeepRef, Visit, Visited
  <2>2. Unmoved' = Unmoved /\ \A p \in gray : IsRule(p[1])' <=> IsRule(p[1])
    BY Zenon, <2>1 DEF Unmoved, From, IsRule
  <2> QED
    BY <2>1, <2>2, Spaces, VisitAdvances
<1>6. ASSUME NEW a \in Addr \union {Root}, NEW s \in Slots, FollowForward(a, s)
      PROVE  phase' = phase /\ VisitsLeft' < VisitsLeft
  <2>1. /\ phase = "minor" /\ phase' = "minor" /\ <<a, s>> \in gray
        /\ gray' = gray \ {<<a, s>>} /\ UNCHANGED <<alive, id, forwarded, freshOld, haven>>
        /\ heap[a][s] \in Addr
    BY Zenon, <1>6, Spaces DEF FollowForward, Visit, Visited, From
  <2>2. Unmoved' = Unmoved /\ \A p \in gray : IsRule(p[1])' <=> IsRule(p[1])
    BY Zenon, <2>1 DEF Unmoved, From, IsRule
  <2> QED
    BY SMTT(30), <2>1, <2>2, Spaces, VisitAdvances
<1>7. ASSUME NEW a \in Addr \union {Root}, NEW s \in Slots, ScanFresh(a, s)
      PROVE  phase' = phase /\ VisitsLeft' < VisitsLeft
  <2> DEFINE r == heap[a][s]
  <2>1. /\ phase = "minor" /\ phase' = "minor" /\ <<a, s>> \in gray
        /\ gray' = (gray \ {<<a, s>>}) \union ({r} \X Fields)
        /\ UNCHANGED <<alive, id, forwarded, haven>>
        /\ r \in freshOld /\ freshOld' = freshOld \ {r}
    BY Zenon, <1>7 DEF ScanFresh, Visit, Visited
  <2>2. r \in Addr
    BY ZenonT(40), <2>1, Spaces DEF IInv, TypeOK
  <2>3. Unmoved' = Unmoved /\ \A p \in gray : IsRule(p[1])' <=> IsRule(p[1])
    BY Zenon, <2>1 DEF Unmoved, From, IsRule
  <2> HIDE DEF r
  <2> QED
    BY SMTT(30), <2>1, <2>2, <2>3, Spaces, VisitAdvances
<1>8. ASSUME NEW a \in Addr \union {Root}, NEW s \in Slots, ScanUntyped(a, s)
      PROVE  phase' = phase /\ VisitsLeft' < VisitsLeft
  <2>1. /\ phase = "minor" /\ phase' = "minor" /\ <<a, s>> \in gray
        /\ gray' = (gray \ {<<a, s>>}) \union ({heap[a][s]} \X Fields)
        /\ UNCHANGED <<alive, id, forwarded, haven, freshOld>>
        /\ heap[a][s] \in freshOld /\ (a = Root \/ IsRule(a)) /\ Visit(a, s)
    BY Zenon, <1>8 DEF ScanUntyped, Visit, Visited
  <2>2. heap[a][s] \in Addr
    BY <2>1, Spaces DEF IInv, TypeOK
  <2>3. Unmoved' = Unmoved /\ \A p \in gray : IsRule(p[1])' <=> IsRule(p[1])
    BY Zenon, <2>1 DEF Unmoved, From, IsRule
  <2>4. a = Root \/ ~IsRule(heap[a][s])
    BY Zenon, <2>1, <2>2, Spaces, RuleSlot
  <2>5. PICK r \in Addr : r = heap[a][s]
    BY Zenon, <2>2
  <2>6. a = Root \/ (IsRule(a) /\ ~IsRule(r)')
    BY Zenon, <2>1, <2>4, <2>5 DEF IsRule
  <2>7. gray' = (gray \ {<<a, s>>}) \union ({r} \X Fields) /\ r # Root
    BY Zenon, <2>1, <2>5, Spaces
  <2>8. Unmoved' \subseteq Unmoved /\ freshOld' \subseteq freshOld
    BY Zenon, <2>1, <2>3
  <2> QED
    BY Zenon, <2>1, <2>3, <2>6, <2>7, <2>8, VisitAdvances
<1>9. ASSUME NEW a \in Addr \union {Root}, NEW s \in Slots,
             CopyToHaven(a, s) \/ Promote(a, s)
      PROVE  phase' = phase /\ VisitsLeft' < VisitsLeft
  <2> DEFINE r == heap[a][s]
  <2>0. PICK n \in haven \union Elder : MoveTo(a, s, n)
    BY Zenon, <1>9 DEF CopyToHaven, Promote
  <2>1. /\ phase = "minor" /\ <<a, s>> \in gray
        /\ gray' = (gray \ {<<a, s>>}) \union ({n} \X Fields)
        /\ r \in From /\ forwarded[r] = Null
        /\ alive' = alive \union {n} /\ forwarded' = [forwarded EXCEPT ![r] = n]
        /\ n \notin alive /\ id' = [id EXCEPT ![n] = id[r]]
    BY Zenon, <2>0 DEF MoveTo, Visit, Visited
  <2>2. phase' = "minor" /\ UNCHANGED <<haven, freshOld>>
    BY Zenon, <1>9, <2>1 DEF CopyToHaven, Promote
  <2>3. /\ n \in Addr /\ n # Null /\ n \notin From /\ r \in Addr /\ From' = From
    <3>1. haven \in {SpaceA, SpaceB}
      BY Zenon DEF IInv, TypeOK
    <3>2. n \in Addr /\ n \notin From
      BY <3>1, Spaces DEF From
    <3>3. n # Null /\ r \in Addr
      BY <2>1, <3>2, Spaces DEF From
    <3>4. From' = From
      BY Zenon, <2>2 DEF From
    <3> QED
      BY SMTT(30), <3>2, <3>3, <3>4
  <2>4. r \in alive
    BY ZenonT(40), <2>0, <2>3, Visiting, Spaces DEF MoveTo, Kept
  <2>5. \A b \in Addr : forwarded'[b] = IF b = r THEN n ELSE forwarded[b]
    BY Zenon, <2>1 DEF IInv, TypeOK
  <2>6. Unmoved' \subseteq Unmoved /\ r \in Unmoved \ Unmoved'
    BY Zenon, <2>1, <2>3, <2>4, <2>5, Spaces DEF Unmoved, From
  <2>7. \A p \in gray : IsRule(p[1])' <=> IsRule(p[1])
    <3> SUFFICES ASSUME NEW p \in gray PROVE IsRule(p[1])' <=> IsRule(p[1])
      BY Zenon
    <3>1. p[1] \in {Root} \union remembered \union scanned
      BY Zenon, <2>1 DEF IInv, MinorOK
    <3>2. p[1] # n
      <4>1. remembered \union scanned \subseteq alive
        BY Zenon DEF IInv, SetsOK, Kept
      <4>2. n # Root
        BY Zenon, <2>3, Spaces
      <4> QED
        BY Zenon, <2>1, <3>1, <4>1, <4>2
    <3>3. p[1] \in Addr => id'[p[1]] = id[p[1]]
      BY Zenon, <2>1, <3>2 DEF IInv, TypeOK
    <3> QED
      BY Zenon, <3>3 DEF IsRule
  <2> HIDE DEF r
  <2> QED
    BY ZenonT(40), <2>1, <2>2, <2>3, <2>6, <2>7, Spaces, VisitAdvances
<1>10. ASSUME NEW a \in Addr, MarkObject(a)
       PROVE  phase' = phase /\ VisitsLeft' < VisitsLeft
  BY ZenonT(40), <1>10, MarkAdvances DEF MarkObject
<1>11. ASSUME ProgramStep PROVE FALSE
  BY Zenon, <1>11
  DEF ProgramStep, AllocYoung, AllocOld, Drop, Fill, Store, Load, BeginMinor, SkipMinor
<1>12. CASE CollectorStep
  BY Zenon, <1>1, <1>2, <1>3, <1>4, <1>5, <1>6, <1>7, <1>8, <1>9, <1>10, <1>12
  DEF CollectorStep
<1> QED
  BY Zenon, <1>11, <1>12 DEF Next

(* No step of a collection, minor or major, is taken for nothing: it goes  *)
(* on to a later part or has fewer visits left, so that forwardYoungRef    *)
(* and markObject come to an end on every graph, cyclic or not, though     *)
(* roots and rules hold references without a layout.                       *)
THEOREM HeapCollectionAdvances == Spec => CollectionAdvances
<1>1. IInv /\ RulesOK /\ [Next]_vars => [Advances]_vars
  BY Zenon, StepAdvances DEF Advances
<1> QED
  BY HeapInvariant, HeapRules, <1>1, PTL DEF Spec, CollectionAdvances
=============================================================================
