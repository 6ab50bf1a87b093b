----------------------------- MODULE HeapPacing -----------------------------
(***************************************************************************)
(* When the collector runs, and when the heap limit ends a program.        *)
(* Allocations only ask for a collection; the next safepoint outside every *)
(* NoCollectionScope runs it.  What asks is volume: bytes allocated since  *)
(* the last sweep against a budget that follows what that sweep left, for  *)
(* the elder space, the large objects and the data blocks that arrays hold *)
(* outside the heap.  A block whose array died is only queued by the       *)
(* finalizer and released when the collection is over.  Volumes are small  *)
(* naturals; which objects of a minor collection are promoted is open.     *)
(***************************************************************************)
EXTENDS Naturals, FiniteSets

CONSTANTS Objects,         \* objects, reused once they are freed
          Sizes,           \* sizes of an object
          LargeThreshold,  \* largeObjThreshold_
          BirthSize,       \* capacity of the birth space
          MinorTrigger,    \* minorTriggerBytes_
          ElderFloor,      \* elderMinBudget_
          LargeFloor,      \* largeObjMinBudget_
          GrowthPercent,   \* largeObjGrowthPercent_
          HeapLimit,       \* heapLimitBytes_, 0 for none
          Copying,         \* enableYoungGenCopying_
          MaxBlock,        \* bound: volume of one data block
          MaxAdopted,      \* bound: block volume after adopting one
          MaxScopes        \* bound: NoCollectionScopes open at a time

ASSUME PacingConstants ==
  /\ IsFiniteSet(Objects)
  /\ Sizes \subseteq Nat \ {0}
  /\ {LargeThreshold, BirthSize, MinorTrigger, ElderFloor, LargeFloor,
      GrowthPercent, HeapLimit, MaxBlock, MaxAdopted, MaxScopes} \subseteq Nat
  /\ ElderFloor > 0 /\ LargeFloor > 0
  /\ Copying \in BOOLEAN

VARIABLES gc,         \* the pacing fields of the allocator
          where,      \* the space each object is in, or "none"
          size,       \* the volume of each object
          block,      \* bytes of the block each object holds, 0 for none
          paced,      \* Block::pacedBytes_ of that block
          reachable,  \* the objects the program can still reach
          queued,     \* block bytes waiting in the deferred-release queue
          inhibit,    \* collectionInhibit_
          refused     \* what was alive at the safepoint that threw and so
                      \* ended the program: {} or one volume (history)

heapVars == <<where, size, block, paced, reachable>>
vars == <<gc, heapVars, queued, inhibit, refused>>

Kinds == {"None", "Minor", "Major", "MinorAndMajor"}

(* The collections a kind stands for. *)
Parts(kind) ==
  CASE kind = "Minor" -> {"Minor"}
    [] kind = "Major" -> {"Major"}
    [] kind = "MinorAndMajor" -> {"Minor", "Major"}
    [] OTHER -> {}

In(spaces) == {o \in Objects : where[o] \in spaces}
Young == In({"birth", "haven"})
OldObjects == In({"elder", "large"})

(* What the objects S have of f together, counted unit by unit. *)
Units(f, S) == UNION {{o} \X (1 .. f[o]) : o \in S}
Volume(f, S) == Cardinality(Units(f, S))

(* blockBytesLive: a queued block is live until its release runs. *)
BlockBytesLive == Volume(block, Objects) + queued

TypeOK ==
  /\ gc \in [pending : Kinds, slowPath : BOOLEAN, exceeded : BOOLEAN,
             elderSince : Nat, elderBudget : Nat,
             largeSince : Nat, largeLive : Nat, largeBudget : Nat,
             blockSince : Nat, blockBudget : Nat, blockBase : Nat,
             owed : SUBSET {"Minor", "Major"}]
  /\ where \in [Objects -> {"none", "birth", "haven", "elder", "large"}]
  /\ size \in [Objects -> Sizes \union {0}]
  /\ block \in [Objects -> Nat]
  /\ paced \in [Objects -> Nat]
  /\ reachable \subseteq Objects
  /\ queued \in Nat
  /\ inhibit \in Nat
  /\ refused \subseteq Nat

Init ==
  /\ gc = [pending |-> "None", slowPath |-> FALSE, exceeded |-> FALSE,
           elderSince |-> 0, elderBudget |-> ElderFloor,
           largeSince |-> 0, largeLive |-> 0, largeBudget |-> LargeFloor,
           blockSince |-> 0, blockBudget |-> LargeFloor, blockBase |-> 0,
           owed |-> {}]
  /\ where = [o \in Objects |-> "none"]
  /\ size = [o \in Objects |-> 0]
  /\ block = [o \in Objects |-> 0]
  /\ paced = [o \in Objects |-> 0]
  /\ reachable = {}
  /\ queued = 0 /\ inhibit = 0 /\ refused = {}

-----------------------------------------------------------------------------
(* Mutant: the last request wins. *)
CombineLastWins(lhs, rhs) == IF rhs = "None" THEN lhs ELSE rhs

(* combineCollectionKinds. *)
Combine(lhs, rhs) ==
  CASE lhs = "None" -> rhs
    [] rhs = "None" \/ lhs = rhs -> lhs
    [] OTHER -> "MinorAndMajor"

(* requestCollectionAtSafepointUnlocked.  owed (history) is what has been  *)
(* asked for and not been run.                                             *)
Request(g, kind) ==
  [g EXCEPT !.pending = Combine(@, kind), !.slowPath = TRUE,
            !.owed = @ \union Parts(kind)]

RequestIf(g, kind, condition) == IF condition THEN Request(g, kind) ELSE g

MinorPending(g) == g.pending \in {"Minor", "MinorAndMajor"}
MajorPending(g) == g.pending \in {"Major", "MinorAndMajor"}

(* blockBytesGrowthUnlocked, for a live count. *)
BlockGrowth(g, live) == IF live > g.blockBase THEN live - g.blockBase ELSE 0

(* oldBytesHeldUnlocked: the elder space in use, the large objects by      *)
(* their two counters, and all block bytes.                                *)
OldBytesHeld == Volume(size, In({"elder"})) + gc.largeLive + gc.largeSince
                  + BlockBytesLive

(* checkHeapLimitUnlocked lets the request through: the throw otherwise.   *)
Admits(request) ==
  \/ HeapLimit = 0
  \/ OldBytesHeld + request <= HeapLimit
  \/ /\ request <= HeapLimit
     /\ OldBytesHeld + request <= HeapLimit + HeapLimit \div 2

(* checkHeapLimitUnlocked for a request it lets through. *)
CheckHeapLimit(g, request) ==
  IF HeapLimit # 0 /\ OldBytesHeld + request > HeapLimit /\ ~ g.exceeded
  THEN Request([g EXCEPT !.exceeded = TRUE], "Major") ELSE g

(* Mutant: the budget is compared before the bytes are counted. *)
LateElder(g, bytes) ==
  [RequestIf(g, "Major", /\ g.elderSince + BlockGrowth(g, BlockBytesLive) >= g.elderBudget
                         /\ ~ MajorPending(g))
   EXCEPT !.elderSince = @ + bytes]

(* The accounting of allocElderUnlocked and of promote in forward: bytes   *)
(* that go to the elder space.                                             *)
TakeElder(g, bytes) ==
  LET taken == [g EXCEPT !.elderSince = @ + bytes]
  IN  RequestIf(taken, "Major",
        /\ taken.elderSince + BlockGrowth(g, BlockBytesLive) >= g.elderBudget
        /\ ~ MajorPending(g))

(* The accounting of allocLargeUnlocked. *)
TakeLarge(g, bytes) ==
  LET taken == [g EXCEPT !.largeSince = @ + bytes]
  IN  RequestIf(taken, "Major",
        taken.largeSince + BlockGrowth(g, BlockBytesLive) >= g.largeBudget)

(* noteElderBlockBytesUnlocked, for the bytes claimPacingBytes gave. *)
TakeElderBlock(g, added) ==
  LET taken == [g EXCEPT !.blockSince = @ + added]
  IN  RequestIf(taken, "Major",
        added # 0 /\ taken.blockSince >= g.blockBudget /\ ~ MajorPending(g))

-----------------------------------------------------------------------------
(* No safepoint has thrown: the program runs. *)
Running == refused = {}

(* A new object of volume n in a space. *)
Born(o, n, space) ==
  /\ Running
  /\ where[o] = "none"
  /\ where' = [where EXCEPT ![o] = space]
  /\ size' = [size EXCEPT ![o] = n]
  /\ reachable' = reachable \union {o}
  /\ UNCHANGED <<block, paced, queued, inhibit, refused>>

(* allocUnlocked, the birth space has room. *)
AllocYoung(o, n) ==
  LET used == Volume(size, In({"birth"})) + n
  IN  /\ n <= LargeThreshold /\ Copying
      /\ used <= BirthSize
      /\ Born(o, n, "birth")
      /\ gc' = RequestIf(gc, "Minor",
                 /\ ~ MinorPending(gc)
                 /\ used + BlockGrowth(gc, BlockBytesLive) >= MinorTrigger)

(* allocUnlocked and allocElderUnlocked: the birth space is full, or there *)
(* is none.                                                                *)
AllocElder(o, n) ==
  LET full == Volume(size, In({"birth"})) + n > BirthSize
      asked == RequestIf(gc, "Minor", Copying /\ ~ MinorPending(gc))
  IN  /\ n <= LargeThreshold /\ (Copying => full)
      /\ Admits(n)
      /\ Born(o, n, "elder")
      /\ gc' = TakeElder(CheckHeapLimit(asked, n), n)

(* The same allocation refused: the request for a minor collection stays. *)
AllocElderRefused(o, n) ==
  /\ Running /\ where[o] = "none"
  /\ n <= LargeThreshold /\ Copying
  /\ Volume(size, In({"birth"})) + n > BirthSize
  /\ ~ Admits(n)
  /\ gc' = RequestIf(gc, "Minor", ~ MinorPending(gc))
  /\ UNCHANGED <<heapVars, queued, inhibit, refused>>

(* allocLargeUnlocked. *)
AllocLarge(o, n) ==
  /\ n > LargeThreshold
  /\ Admits(n)
  /\ Born(o, n, "large")
  /\ gc' = TakeLarge(CheckHeapLimit(gc, n), n)

(* Block::create or Block::grow for array o, then noteBlockHeld.  Growth   *)
(* by doubling is one volume more or less: any larger size up to the bound.*)
HoldBlock(o, bytes) ==
  LET added == bytes - block[o]
      checked == CheckHeapLimit(gc, added)
      claims == where[o] = "elder" /\ bytes > paced[o]
  IN  /\ Running /\ o \in reachable
      /\ bytes > block[o]
      /\ Admits(added)
      /\ block' = [block EXCEPT ![o] = bytes]
      /\ IF claims
         THEN /\ gc' = TakeElderBlock(checked, bytes - paced[o])
              /\ paced' = [paced EXCEPT ![o] = bytes]
         ELSE gc' = checked /\ paced' = paced
      /\ UNCHANGED <<where, size, reachable, queued, inhibit, refused>>

(* Block::adoptExternal for array o: counted, but not checked against the  *)
(* limit.                                                                  *)
AdoptBlock(o, bytes) ==
  /\ Running /\ o \in reachable /\ block[o] = 0
  /\ BlockBytesLive + bytes <= MaxAdopted
  /\ block' = [block EXCEPT ![o] = bytes]
  /\ IF where[o] = "elder"
     THEN /\ gc' = TakeElderBlock(gc, bytes)
          /\ paced' = [paced EXCEPT ![o] = bytes]
     ELSE UNCHANGED <<gc, paced>>
  /\ UNCHANGED <<where, size, reachable, queued, inhibit, refused>>

(* The program drops its last reference to an object. *)
Drop(o) ==
  /\ Running /\ o \in reachable
  /\ reachable' = reachable \ {o}
  /\ UNCHANGED <<gc, where, size, block, paced, queued, inhibit, refused>>

(* NoCollectionScope: inhibitCollections and allowCollections. *)
OpenScope ==
  /\ Running /\ inhibit < MaxScopes
  /\ inhibit' = inhibit + 1
  /\ UNCHANGED <<gc, heapVars, queued, refused>>

CloseScope ==
  /\ Running /\ inhibit > 0
  /\ inhibit' = inhibit - 1
  /\ UNCHANGED <<gc, heapVars, queued, refused>>

-----------------------------------------------------------------------------
(* The percentage rule of the budgets, split as the code splits it. *)
Growth(live) ==
  (live \div 100) * GrowthPercent + ((live % 100) * GrowthPercent) \div 100

Budget(floor, live) == IF Growth(live) > floor THEN Growth(live) ELSE floor

(* The accounting of sweepOldGen and sweepLargeObjects. *)
Sweep(g, elderLive, blockLive, largeLive) ==
  [g EXCEPT !.elderSince = 0, !.elderBudget = Budget(ElderFloor, elderLive),
            !.blockSince = 0, !.blockBudget = Budget(LargeFloor, blockLive),
            !.largeSince = 0, !.largeLive = largeLive,
            !.largeBudget = Budget(LargeFloor, largeLive)]

(* The young objects a collection may keep: the reachable ones, and the    *)
(* dead ones that a dead old object refers to.                             *)
Survivors ==
  LET live == Young \intersect reachable
  IN  IF OldObjects \subseteq reachable THEN {live}
      ELSE {live \union K : K \in SUBSET (Young \ reachable)}

(* The accounting of the objects a minor collection promotes. *)
Promote(g, P) ==
  IF P = {} THEN g
  ELSE TakeElderBlock(TakeElder(g, Volume(size, P)),
                      Volume([o \in P |-> block[o] - paced[o]], P))

(* The request is taken before the collection runs, so that what the       *)
(* collection itself asks for is not wiped out.                            *)
TakeRequest(g) ==
  [g EXCEPT !.pending = "None", !.owed = @ \ Parts(g.pending)]

(* publishSafepointSlowPathUnlocked, which the exception skips. *)
Publish(g, throws) ==
  IF throws THEN g ELSE [g EXCEPT !.slowPath = g.pending # "None"]

(* Mutant: credit calls for another major collection instead of ending     *)
(* with the one that ran.                                                  *)
LimitAfterAgain(g, kind, held) ==
  CASE HeapLimit = 0 \/ kind = "None" -> g
    [] HeapLimit # 0 /\ kind \in {"Major", "MinorAndMajor"} ->
         IF g.exceeded THEN Request(g, "Major") ELSE g
    [] OTHER -> IF held > HeapLimit /\ ~ g.exceeded
                THEN Request([g EXCEPT !.exceeded = TRUE], "Major") ELSE g

(* The limit after a collection (the end of collectAtSafepointUnlocked).   *)
LimitAfter(g, kind, held) ==
  CASE HeapLimit = 0 \/ kind = "None" -> g
    [] HeapLimit # 0 /\ kind \in {"Major", "MinorAndMajor"} -> [g EXCEPT !.exceeded = FALSE]
    [] OTHER -> IF held > HeapLimit /\ ~ g.exceeded
                THEN Request([g EXCEPT !.exceeded = TRUE], "Major") ELSE g

(* noteBlockBytesAfterDeferredReleases, after runDeferredReleases. *)
NoteBase(g, kind, throws, live) ==
  IF throws \/ kind = "None" THEN g ELSE [g EXCEPT !.blockBase = live]

(* collectAtSafepointUnlocked for a kind, publishing the poll flag,        *)
(* runDeferredReleases and taking the pacing base.  The minor part keeps   *)
(* the young objects S and promotes P of them (a MinorAndMajor collection  *)
(* runs it twice: S and P are what both do together).                      *)
Collect(g, kind, S, P) ==
  LET major == "Major" \in Parts(kind)
      dead == (Young \ S) \union
                (IF major THEN (OldObjects \union P) \ reachable ELSE {})
      rest == Objects \ dead
      elder == (In({"elder"}) \union P) \ dead
      large == In({"large"}) \ dead
      swept == IF major
               THEN Sweep(Promote(g, P), Volume(size, elder),
                          Volume(block, elder), Volume(size, large))
               ELSE Promote(g, P)
      blocksLeft == Volume(block, rest)
      waiting == queued + Volume(block, dead)
      held == Volume(size, elder) + swept.largeLive + swept.largeSince
                + blocksLeft + waiting
      throws == HeapLimit # 0 /\ major /\ held > HeapLimit
      served == Publish(LimitAfter(swept, kind, held), throws)
  IN  /\ gc' = NoteBase(served, kind, throws, blocksLeft)
      /\ where' = [o \in Objects |-> CASE o \in dead -> "none"
                                       [] o \in P \ dead -> "elder"
                                       [] o \in S \ P -> "haven"
                                       [] OTHER -> where[o]]
      /\ size' = [o \in Objects |-> IF o \in dead THEN 0 ELSE size[o]]
      /\ block' = [o \in Objects |-> IF o \in dead THEN 0 ELSE block[o]]
      /\ paced' = [o \in Objects |-> CASE o \in dead -> 0
                                       [] o \in P \ dead -> block[o]
                                       [] OTHER -> paced[o]]
      /\ queued' = IF throws THEN waiting ELSE 0
      /\ refused' = IF throws THEN refused \union {held - waiting} ELSE refused
      /\ UNCHANGED <<reachable, inhibit>>

CollectSome(g, kind) ==
  \E S \in (IF kind = "None" THEN {Young} ELSE Survivors) :
    \E P \in (IF kind = "None" THEN {{}} ELSE SUBSET S) :
      Collect(g, kind, S, P)

(* mm::safepoint, polled by the schedulers, with no scope open.  An open   *)
(* one makes safepoint return before anything is changed.                  *)
Safepoint ==
  /\ Running /\ gc.slowPath
  /\ inhibit = 0
  /\ CollectSome(TakeRequest(gc), gc.pending)

(* minorGC and majorGC, by the passes gc.minor and gc.major. *)
ManualGC(kind) ==
  LET g == Request(gc, kind)
  IN  /\ Running /\ inhibit = 0
      /\ CollectSome(TakeRequest(g), g.pending)

(* ~Context after a program that did not fit: its roots go, and the queue  *)
(* is drained.  The allocator, one per process, keeps its counters for the *)
(* program that runs next.                                                 *)
DestroyContext ==
  /\ ~ Running
  /\ reachable' = {} /\ refused' = {}
  /\ queued' = 0
  /\ UNCHANGED <<gc, where, size, block, paced, inhibit>>

Next ==
  \/ \E o \in Objects, n \in Sizes :
        \/ AllocYoung(o, n)
        \/ AllocElder(o, n)
        \/ AllocElderRefused(o, n)
        \/ AllocLarge(o, n)
  \/ \E o \in Objects, bytes \in 1 .. MaxBlock :
        \/ HoldBlock(o, bytes)
        \/ AdoptBlock(o, bytes)
  \/ \E o \in Objects : Drop(o)
  \/ OpenScope
  \/ CloseScope
  \/ Safepoint
  \/ \E kind \in {"Minor", "Major"} : ManualGC(kind)
  \/ DestroyContext

Spec == Init /\ [][Next]_vars

(* The schedulers poll between the nodes they run, scopes are closed, and  *)
(* none is held around the execution of a program: outside of scopes polls *)
(* keep coming.  The context of a program that failed is destroyed.        *)
Fairness ==
  /\ SF_vars(Safepoint)
  /\ WF_vars(CloseScope)
  /\ WF_vars(DestroyContext)

FairSpec == Spec /\ Fairness

-----------------------------------------------------------------------------
(* No request for a collection is lost: whatever an allocation, a block, a *)
(* promotion or the limit asked for and no collection has run since, is    *)
(* still pending, and the flag the schedulers poll is up.  This is across  *)
(* requests of both kinds, safepoints inside a NoCollectionScope, requests *)
(* made by the collection that serves an earlier one, and safepoints that  *)
(* throw.                                                                  *)
NoRequestLost ==
  /\ gc.owed \subseteq Parts(gc.pending)
  /\ gc.pending # "None" => gc.slowPath

(* A program that ran over the heap limit on credit has a major collection *)
(* coming that settles it: heapLimitExceeded_ also silences every further  *)
(* request of checkHeapLimitUnlocked.                                      *)
CreditIsCalled == gc.exceeded => MajorPending(gc)

(* Without a major collection pending no budget is used up: what was put   *)
(* into the elder space, into large objects and into blocks of elder       *)
(* objects since the last sweep is below the growth of what that sweep     *)
(* left alive.                                                             *)
VolumeIsPaced ==
  \/ MajorPending(gc)
  \/ /\ gc.elderSince < gc.elderBudget
     /\ gc.largeSince < gc.largeBudget
     /\ gc.blockSince < gc.blockBudget

(* The two counters of the large-object space, whose sum stands for what   *)
(* the space holds in the limit check, agree with the objects in it.       *)
LargeIsCounted ==
  gc.largeLive + gc.largeSince = Volume(size, In({"large"}))

(* gen.cpp: "What the old spaces still hold is alive; if that alone        *)
(* exceeds the limit the program does not fit."  A safepoint that ends the *)
(* program found more alive than the limit allows.                         *)
LimitJudgesLive == \A live \in refused : live > HeapLimit

(* Going over the limit is settled at some safepoint. *)
CreditIsSettled == gc.exceeded ~> ~ gc.exceeded

====
