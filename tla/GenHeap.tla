------------------------------ MODULE GenHeap -------------------------------
(***************************************************************************)
(* GenerationalAllocatorWithGC: the copying young generation, the          *)
(* mark-sweep old one, the write barrier, the remembered set and the       *)
(* objects born old.  An object is an address of a space with slots that   *)
(* hold references; the registered roots (frames, handles, root sets) are  *)
(* the slots of one object Root.  The program runs between collections; a  *)
(* collection stops it, and takes one step per reference it visits.        *)
(***************************************************************************)
EXTENDS Naturals, FiniteSets

CONSTANTS Birth, SpaceA, SpaceB, Elder, Large, \* addresses of the spaces
          Ids,                   \* identities of objects
          Wrappers,              \* the objects with a finalizer
          Rules,                 \* the rewrite rules: their references have no layout
          Slots,                 \* slots of the roots
          Fields,                \* the slots an object has, of those
          Root, Null,
          PromotionAgeThreshold

Addr  == Birth \union SpaceA \union SpaceB \union Elder \union Large
Old   == Elder \union Large
Young == Birth \union SpaceA \union SpaceB

ASSUME HeapConstants ==
  /\ Birth \intersect (SpaceA \union SpaceB \union Old) = {}
  /\ SpaceA \intersect (SpaceB \union Old) = {}
  /\ SpaceB \intersect Old = {}
  /\ Elder \intersect Large = {}
  /\ Null \notin Addr \union Ids \union {Root}
  /\ Root \notin Addr \union Ids
  /\ Wrappers \subseteq Ids
  /\ Rules \subseteq Ids
  /\ Fields \subseteq Slots
  /\ PromotionAgeThreshold \in Nat

ASSUME HeapIsFinite == IsFiniteSet(Addr) /\ IsFiniteSet(Slots)

VARIABLES copying,      \* enableYoungGenCopying_
          phase,        \* "run", or the part of a collection that runs
          haven,        \* havenSpace_: the survivor space objects are copied to
          alive,        \* addresses handed out and not taken back
          heap,         \* the references in the slots of each object
          id,           \* the object an address holds (history)
          age,          \* header age of a young object
          forwarded,    \* forwarding pointer in the header
          finalizables, \* youngFinalizables_
          remembered,   \* rememberedSet_
          freshOld,     \* freshOld_
          gray,         \* slots the minor collection has still to visit
          scanned,      \* relocationScan_: objects it copied or found fresh
          marked,       \* header marks
          markStack,    \* objects still to be marked
          lost          \* garbage whose slots are no longer kept up (history)

minorVars == <<haven, age, forwarded, finalizables, remembered, freshOld, gray, scanned>>
markVars == <<marked, markStack>>
vars == <<copying, phase, alive, heap, id, lost, minorVars, markVars>>

Blank == [s \in Slots |-> Null]

IsRule(a) == a \in Addr /\ id[a] \in Rules

(* The spaces a minor collection empties. *)
From == Young \ haven

TypeOK ==
  /\ copying \in BOOLEAN
  /\ phase \in {"run", "minor", "premark", "mark"}
  /\ haven \in {SpaceA, SpaceB}
  /\ alive \subseteq Addr
  /\ heap \in [Addr \union {Root} -> [Slots -> Addr \union {Null}]]
  /\ id \in [Addr -> Ids \union {Null}]
  /\ age \in [Addr -> Nat]
  /\ forwarded \in [Addr -> Addr \union {Null}]
  /\ finalizables \subseteq Addr
  /\ remembered \subseteq Old
  /\ freshOld \subseteq Old
  /\ gray \subseteq (Addr \union {Root}) \X Slots
  /\ scanned \subseteq Addr
  /\ marked \subseteq Addr
  /\ markStack \subseteq Addr
  /\ lost \subseteq Addr

Init ==
  /\ copying \in BOOLEAN
  /\ phase = "run"
  /\ haven \in {SpaceA, SpaceB}
  /\ alive = {}
  /\ heap = [a \in Addr \union {Root} |-> Blank]
  /\ id = [a \in Addr |-> Null]
  /\ age = [a \in Addr |-> 0]
  /\ forwarded = [a \in Addr |-> Null]
  /\ finalizables = {} /\ remembered = {} /\ freshOld = {}
  /\ gray = {} /\ scanned = {} /\ marked = {} /\ markStack = {}
  /\ lost = {}

-----------------------------------------------------------------------------
(* Bound: the elder space, which grows in the code, can take every young   *)
(* object that is or will be promoted.                                     *)
ElderHasRoom == Cardinality(Elder \ alive) > Cardinality(alive \ Old)

(* A new object at a, held in root slot s. *)
Born(a, s) ==
  LET unused == Ids \ {id[b] : b \in alive}
  IN  /\ a \notin alive
      /\ unused # {}
      /\ alive' = alive \union {a}
      /\ heap' = [heap EXCEPT ![a] = Blank, ![Root][s] = a]
      /\ id' = [id EXCEPT ![a] = CHOOSE i \in unused : TRUE]

(* allocUnlocked: a small object in the birth space.  noteFinalizable      *)
(* lists it when it has a finalizer.                                       *)
AllocYoung(s) ==
  /\ phase = "run" /\ copying /\ ElderHasRoom
  /\ \E a \in Birth :
        /\ Born(a, s)
        /\ age' = [age EXCEPT ![a] = 0]
        /\ finalizables' = IF id'[a] \in Wrappers
                           THEN finalizables \union {a} ELSE finalizables
  /\ UNCHANGED <<copying, phase, lost, haven, forwarded, remembered, freshOld, gray,
                 scanned, markVars>>

(* allocLargeUnlocked, and allocElderUnlocked for a small object that does *)
(* not fit into the birth space: the object is born old.                   *)
AllocOld(s) ==
  /\ phase = "run" /\ ElderHasRoom
  /\ \E a \in Old :
        /\ Born(a, s)
        /\ freshOld' = IF copying THEN freshOld \union {a} ELSE freshOld
  /\ UNCHANGED <<copying, phase, lost, haven, age, forwarded, finalizables,
                 remembered, gray, scanned, markVars>>

(* The creator of an object fills it with plain stores.  It has to be done *)
(* by the next safepoint; here it may go on until the next collection.     *)
(* What a rule holds are functions, never rules (RuleObject's fields).     *)
Fill(s, f, t) ==
  /\ phase = "run"
  /\ heap[Root][s] \in Young \union freshOld
  /\ ~(IsRule(heap[Root][s]) /\ IsRule(heap[Root][t]))
  /\ heap' = [heap EXCEPT ![heap[Root][s]][f] = heap[Root][t]]
  /\ UNCHANGED <<copying, phase, alive, id, lost, minorVars, markVars>>

(* writeBarrier: does the store of target into owner make it an entry of   *)
(* the remembered set?                                                     *)
Remembers(owner, target) ==
  /\ copying
  /\ owner \notin Young
  /\ target \in Young \union freshOld

(* A store into an object that is not being created.  A rule has only its  *)
(* constructor.                                                            *)
Store(s, f, t) ==
  /\ phase = "run"
  /\ heap[Root][s] # Null
  /\ ~IsRule(heap[Root][s])
  /\ LET owner == heap[Root][s]
         target == heap[Root][t]
     IN  /\ heap' = [heap EXCEPT ![owner][f] = target]
         /\ remembered' = IF Remembers(owner, target)
                          THEN remembered \union {owner} ELSE remembered
  /\ UNCHANGED <<copying, phase, alive, id, lost, haven, age, forwarded,
                 finalizables, freshOld, gray, scanned, markVars>>

Load(s, f, t) ==
  /\ phase = "run"
  /\ heap[Root][s] # Null
  /\ heap' = [heap EXCEPT ![Root][t] = heap[heap[Root][s]][f]]
  /\ UNCHANGED <<copying, phase, alive, id, lost, minorVars, markVars>>

(* A frame slot, handle or static area lets go of its value. *)
Drop(s) ==
  /\ phase = "run"
  /\ heap[Root][s] # Null
  /\ heap' = [heap EXCEPT ![Root][s] = Null]
  /\ UNCHANGED <<copying, phase, alive, id, lost, minorVars, markVars>>

-----------------------------------------------------------------------------
(* safepoint() and minorGCUnlocked: the survivor spaces swap roles; the    *)
(* roots and the remembered objects are to be visited.                     *)
BeginMinor ==
  /\ phase = "run"
  /\ copying
  /\ haven' = (SpaceA \union SpaceB) \ haven
  /\ gray' = ({Root} \X Slots) \union (remembered \X Fields)
  /\ scanned' = {}
  /\ phase' = "minor"
  /\ UNCHANGED <<copying, alive, heap, id, lost, age, forwarded, finalizables,
                 remembered, freshOld, markVars>>

(* The roots are visited first; then the remembered objects and what the   *)
(* visits find, here in any order.                                         *)
Visit(a, s) ==
  /\ phase = "minor"
  /\ <<a, s>> \in gray
  /\ a # Root => \A t \in Slots : <<Root, t>> \notin gray

(* The visit of <<a, s>> is over; it found these slots to visit. *)
Visited(a, s, more) == gray' = (gray \ {<<a, s>>}) \union more

(* forwardYoungRef: null, already in the To space, or old and not fresh. *)
KeepRef(a, s) ==
  /\ Visit(a, s)
  /\ heap[a][s] \in {Null} \union haven \union (Old \ freshOld)
  /\ Visited(a, s, {})
  /\ UNCHANGED <<copying, phase, alive, heap, id, lost, haven, age,
                 forwarded, finalizables, remembered, freshOld, scanned, markVars>>

(* Mutant: an object born old is taken for an old one. *)
ScanFreshUnqueued(a, s) ==
  /\ Visit(a, s)
  /\ heap[a][s] \in freshOld
  /\ freshOld' = freshOld \ {heap[a][s]}
  /\ scanned' = scanned \union {heap[a][s]}
  /\ Visited(a, s, {})
  /\ UNCHANGED <<copying, phase, alive, heap, id, lost, haven, age, forwarded,
                 finalizables, remembered, markVars>>

(* Mutant: it is queued at every reference that reaches it. *)
ScanFreshAgain(a, s) ==
  /\ Visit(a, s)
  /\ heap[a][s] \in freshOld
  /\ scanned' = scanned \union {heap[a][s]}
  /\ Visited(a, s, {heap[a][s]} \X Fields)
  /\ UNCHANGED <<copying, phase, alive, heap, id, lost, haven, age, forwarded,
                 finalizables, remembered, freshOld, markVars>>

(* forwardYoungRef: born old since the last minor collection; it is        *)
(* scanned once.                                                           *)
ScanFresh(a, s) ==
  /\ Visit(a, s)
  /\ heap[a][s] \in freshOld
  /\ freshOld' = freshOld \ {heap[a][s]}
  /\ scanned' = scanned \union {heap[a][s]}
  /\ Visited(a, s, {heap[a][s]} \X Fields)
  /\ UNCHANGED <<copying, phase, alive, heap, id, lost, haven, age,
                 forwarded, finalizables, remembered, markVars>>

(* The same through a reference without a layout, as the root sets and the *)
(* rules hold: the object is scanned, and a later reference with one still *)
(* finds it.                                                               *)
ScanUntyped(a, s) ==
  /\ Visit(a, s)
  /\ a = Root \/ IsRule(a)
  /\ heap[a][s] \in freshOld
  /\ scanned' = scanned \union {heap[a][s]}
  /\ Visited(a, s, {heap[a][s]} \X Fields)
  /\ UNCHANGED <<copying, phase, alive, heap, id, lost, haven, age, forwarded,
                 finalizables, remembered, freshOld, markVars>>

(* forward: the object was copied before. *)
FollowForward(a, s) ==
  /\ Visit(a, s)
  /\ heap[a][s] \in From
  /\ forwarded[heap[a][s]] # Null
  /\ heap' = [heap EXCEPT ![a][s] = forwarded[heap[a][s]]]
  /\ Visited(a, s, {})
  /\ UNCHANGED <<copying, phase, alive, id, lost, haven, age, forwarded,
                 finalizables, remembered, freshOld, scanned, markVars>>

(* Mutant: the copy gets a header but not the contents. *)
MoveToHeader(a, s, n) ==
  LET r == heap[a][s]
  IN  /\ Visit(a, s)
      /\ r \in From
      /\ forwarded[r] = Null
      /\ n \notin alive
      /\ alive' = alive \union {n}
      /\ heap' = [heap EXCEPT ![n] = Blank, ![a][s] = n]
      /\ id' = [id EXCEPT ![n] = id[r]]
      /\ forwarded' = [forwarded EXCEPT ![r] = n]
      /\ scanned' = scanned \union {n}
      /\ Visited(a, s, {n} \X Fields)

(* forward: the object that <<a, s>> refers to moves to n. *)
MoveTo(a, s, n) ==
  LET r == heap[a][s]
  IN  /\ Visit(a, s)
      /\ r \in From
      /\ forwarded[r] = Null
      /\ n \notin alive
      /\ alive' = alive \union {n}
      /\ heap' = [heap EXCEPT ![n] = heap[r], ![a][s] = n]
      /\ id' = [id EXCEPT ![n] = id[r]]
      /\ forwarded' = [forwarded EXCEPT ![r] = n]
      /\ scanned' = scanned \union {n}
      /\ Visited(a, s, {n} \X Fields)

CopyToHaven(a, s) ==
  /\ \E n \in haven :
        /\ MoveTo(a, s, n)
        /\ age[heap[a][s]] + 1 < PromotionAgeThreshold
        /\ age' = [age EXCEPT ![n] = age[heap[a][s]] + 1]
  /\ UNCHANGED <<copying, phase, lost, haven, finalizables,
                 remembered, freshOld, markVars>>

(* promote: the object is old enough, or the To space has no room for it.  *)
Promote(a, s) ==
  /\ \E n \in Elder : MoveTo(a, s, n)
  /\ age[heap[a][s]] + 1 >= PromotionAgeThreshold \/ haven \subseteq alive
  /\ UNCHANGED <<copying, phase, lost, haven, age, finalizables, remembered,
                 freshOld, markVars>>

(* The addresses in gone are taken back. *)
Freed(gone) ==
  /\ alive' = alive \ gone
  /\ heap' = [a \in Addr \union {Root} |-> IF a \in gone THEN Blank ELSE heap[a]]
  /\ id' = [a \in Addr |-> IF a \in gone THEN Null ELSE id[a]]
  /\ age' = [a \in Addr |-> IF a \in gone THEN 0 ELSE age[a]]
  /\ forwarded' = [a \in Addr |-> IF a \in gone THEN Null ELSE forwarded[a]]

(* A minor collection is over with that, a major one goes on to mark.      *)
(* MinorAndMajor is the one and then, before the program goes on, the      *)
(* other.                                                                  *)
AfterMinor == phase' \in {"run", "premark"}

(* Without young copying minorGCUnlocked returns at once. *)
SkipMinor ==
  /\ phase = "run"
  /\ ~copying
  /\ phase' = "premark"
  /\ UNCHANGED <<copying, alive, heap, id, lost, minorVars, markVars>>

HasYoungRefs(o) == \E s \in Slots : heap[o][s] \in Young

(* Mutant: promoted and fresh objects are not looked at. *)
RetainedOnly == {o \in remembered : HasYoungRefs(o)}

(* The remembered owners that still refer to a young object, and the       *)
(* promoted and born-old objects that do.                                  *)
StillRemembered ==
  {o \in remembered \union (scanned \intersect Old) : HasYoungRefs(o)}

(* Mutant: a promoted wrapper stays on the list. *)
AllForwarded == {forwarded[w] : w \in {x \in finalizables : forwarded[x] # Null}}

(* finalizeDeadYoungUnlocked finalizes the wrappers that did not move, and *)
(* keeps those that did and are still young.                               *)
StillFinalizable ==
  {forwarded[w] : w \in {x \in finalizables : forwarded[x] # Null}} \intersect Young

(* Every reference is visited: nothing is fresh any more, and the From     *)
(* spaces are reset.                                                       *)
FinishMinor ==
  /\ phase = "minor"
  /\ gray = {}
  /\ freshOld' = {}
  /\ remembered' = StillRemembered
  /\ finalizables' = StillFinalizable
  /\ Freed(alive \intersect From)
  /\ lost' = (lost \ From) \union (freshOld \ (remembered \union scanned))
  /\ scanned' = {}
  /\ AfterMinor
  /\ UNCHANGED <<copying, haven, gray, markVars>>

-----------------------------------------------------------------------------
(* markPhase: the roots are pushed. *)
StartMark ==
  /\ phase = "premark"
  /\ markStack' = {heap[Root][s] : s \in Slots} \ {Null}
  /\ phase' = "mark"
  /\ UNCHANGED <<copying, alive, heap, id, lost, minorVars, marked>>

(* markObject pops an object. *)
MarkObject(a) ==
  /\ phase = "mark"
  /\ a \in markStack
  /\ IF a \in marked
     THEN markStack' = markStack \ {a} /\ UNCHANGED marked
     ELSE /\ marked' = marked \union {a}
          /\ markStack' = (markStack \ {a}) \union ({heap[a][s] : s \in Slots} \ {Null})
  /\ UNCHANGED <<copying, phase, alive, heap, id, lost, minorVars>>

(* Mutant: the large-object space is not swept. *)
UnmarkedElder == (alive \intersect Elder) \ marked

(* What sweepOldGen and sweepLargeObjects find without a mark. *)
Unmarked == (alive \intersect Old) \ marked

(* sweepOldGen and sweepLargeObjects: what has no mark is finalized and    *)
(* freed, and no longer remembered.  The marks, which nothing reads before *)
(* the next markPhase clears them, are cleared here.                       *)
Sweep ==
  /\ phase = "mark"
  /\ markStack = {}
  /\ Freed(Unmarked)
  /\ remembered' = remembered \ Unmarked
  /\ lost' = (lost \union (alive \ marked)) \ Unmarked
  /\ marked' = {}
  /\ phase' = "run"
  /\ UNCHANGED <<copying, haven, finalizables, freshOld, gray, scanned, markStack>>

CollectorStep ==
  \/ FinishMinor \/ StartMark \/ Sweep
  \/ \E a \in Addr \union {Root}, s \in Slots :
        KeepRef(a, s) \/ ScanFresh(a, s) \/ ScanUntyped(a, s) \/ FollowForward(a, s)
          \/ CopyToHaven(a, s) \/ Promote(a, s)
  \/ \E a \in Addr : MarkObject(a)

ProgramStep ==
  \/ \E s \in Slots : AllocYoung(s) \/ AllocOld(s) \/ Drop(s)
  \/ \E s, t \in Slots, f \in Fields : Fill(s, f, t) \/ Store(s, f, t) \/ Load(s, f, t)
  \/ BeginMinor \/ SkipMinor

Next == CollectorStep \/ ProgramStep

Spec == Init /\ [][Next]_vars
-----------------------------------------------------------------------------
(* A set of objects that holds the roots and what its members refer to. *)
Closed(S) ==
  /\ Root \in S
  /\ \A a \in S, s \in Slots : heap[a][s] \in S \union {Null}

(* What the program can get at: the least closed set. *)
Reachable ==
  {a \in alive : \A S \in SUBSET (alive \union {Root}) : Closed(S) => a \in S}

(* No collection takes an object away from the program, and none leaves it *)
(* with the address an object had before: what the program can reach is    *)
(* allocated and not a husk that moved.                                    *)
NoDangling ==
  phase = "run" =>
    \A a \in Reachable \union {Root}, s \in Slots :
       heap[a][s] # Null => heap[a][s] \in alive /\ forwarded[heap[a][s]] = Null

(* The remembered set is complete: an old object the program can reach     *)
(* that refers to a young object or to one born old is in it, or is itself *)
(* born old (writeBarrier, rememberOldObjectIfYoungRefsUnlocked).          *)
RememberedComplete ==
  phase = "run" /\ copying =>
    \A a \in Reachable \intersect (Old \ freshOld), s \in Slots :
       heap[a][s] \in Young \union freshOld => a \in remembered

(* youngFinalizables_ names exactly the young objects with a finalizer, so *)
(* that each is finalized once, when it dies, and never while it lives.    *)
WrappersListed ==
  phase = "run" => finalizables = {a \in alive \intersect Young : id[a] \in Wrappers}

(* A major collection leaves only reachable objects in the old spaces. *)
MajorIsPrecise ==
  [][phase = "mark" /\ phase' = "run" => (alive' \intersect Old) \subseteq Reachable']_vars

(* The parts of a collection still to come, and the visits this part can   *)
(* still make.  A slot is visited once each time its object is scanned; an *)
(* object is scanned once when it is copied, stops being fresh or is       *)
(* marked, and once more for every root and every slot of a rule that is   *)
(* visited and refers to it without a layout.  A visit may add those of an *)
(* object's slots; but a rule refers to no rule, so the visit of one of    *)
(* its slots never adds a slot of a rule.                                  *)
PartsLeft == CASE phase = "minor" -> 3 [] phase = "premark" -> 2
               [] phase = "mark" -> 1 [] OTHER -> 0

Unmoved == {a \in alive \intersect From : forwarded[a] = Null}
RootVisits == gray \intersect ({Root} \X Slots)
RuleVisits == {p \in gray : IsRule(p[1])}

(* A visit, one that may add slots, and one that may add slots of a rule. *)
VisitsLeft ==
  IF phase = "minor"
  THEN Cardinality(gray)
         + (Cardinality(Fields) + 1)
           * (Cardinality(RuleVisits)
                + (Cardinality(Fields) + 1)
                  * (Cardinality(Unmoved) + Cardinality(freshOld) + Cardinality(RootVisits)))
  ELSE Cardinality(markStack)
         + (Cardinality(Slots) + 1) * Cardinality(alive \ marked)

Advances ==
  phase # "run" => \/ PartsLeft' < PartsLeft
                   \/ PartsLeft' = PartsLeft /\ VisitsLeft' < VisitsLeft

(* Every step of a collection brings it nearer to its end, cycles, objects *)
(* born old and those that rules scan again included: it goes on to a      *)
(* later part or has fewer visits left.  No collection is without a next   *)
(* step, so each one ends.                                                 *)
CollectionAdvances == [][Advances]_vars

(* The objects whose slots are kept up: not garbage whose referents may be *)
(* gone, and not the husk of an object that moved.                         *)
Live == {a \in alive \ lost : forwarded[a] = Null}

Ident(a) == IF a = Root THEN Root ELSE id[a]

(* Every address read as the object it holds. *)
GraphObjects == {id[a] : a \in Live}

GraphEdges ==
  {<<Ident(p[1]), p[2], id[heap[p[1]][p[2]]]>> :
     p \in {q \in (Live \union {Root}) \X Slots : heap[q[1]][q[2]] # Null}}

Graph == INSTANCE ObjectGraph WITH objects <- GraphObjects, edges <- GraphEdges

(* The program cannot tell that objects move: with every address read as   *)
(* the object it holds, its steps are those on a graph of objects, and a   *)
(* collection only forgets objects to which nothing refers any more.       *)
CollectorIsInvisible == Graph!Spec
=============================================================================
