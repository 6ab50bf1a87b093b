---------------------------- MODULE ArraySharing -----------------------------
(***************************************************************************)
(* The storage of arrays and the names of a program: mm::Block, the parts  *)
(* of Array that share, write and grow a block, and the operators of the   *)
(* variable family.  An array keeps its elements in the object (a slot     *)
(* array, a small compact one) or in a counted block; a statement rebinds  *)
(* a variable and may write the old array in place.  A statement is one    *)
(* step; a collection and the releases it queued come in between.          *)
(***************************************************************************)
EXTENDS Naturals, Sequences, FiniteSets, FiniteSetsExt

CONSTANTS Cells,     \* the variables (`var`)
          Lets,      \* the other names a value can have
          Arrays,    \* bound: the array objects
          Blocks,    \* bound: the blocks
          Kinds,     \* the arrays a run starts from: "slots", "compact", "imported"
          Values,    \* the elements that are written
          MaxLen,    \* bound: the length of an array
          InlineLen, \* the elements that fit kInlineBlockBytes
          MinGrow,   \* the elements that fit the 64 bytes of Block::grow
          MaxQueued, \* bound: the releases of a block that can be queued at a time
          None

Names == Cells \union Lets

ASSUME SharingConstants ==
  /\ Kinds \subseteq {"slots", "compact", "imported"}
  /\ MaxLen \in Nat /\ MaxQueued \in Nat /\ InlineLen \in Nat /\ MinGrow \in Nat
  /\ Cells \intersect Lets = {} /\ None \notin Arrays \union Blocks

VARIABLES bind,      \* per name: the array it is bound to
          means,     \* per name: the value it got when it was bound (history)
          arr, blk,  \* the array objects and the blocks
          queued,    \* per block: the releases in the deferred queue
          liveBytes  \* BlockStats::liveBytes, in elements

vars == <<bind, means, arr, blk, queued, liveBytes>>

Own(kind, s) == [kind |-> kind, data |-> s, block |-> None, off |-> 0, len |-> Len(s),
                 cap |-> Len(s), view |-> FALSE]
Over(b, off, len, cap, view) == [kind |-> "block", data |-> <<>>, block |-> b, off |-> off,
                                 len |-> len, cap |-> cap, view |-> view]
Block(refs, owner, cap, s) == [refs |-> refs, owner |-> owner, cap |-> cap, data |-> s]

NoArray == Own("none", <<>>)
NoBlock == Block(0, "none", 0, <<>>)

(* The memory as one value, which the operations below change step by step. *)
Heap == [arr |-> arr, blk |-> blk, bytes |-> liveBytes]

Become(h) == arr' = h.arr /\ blk' = h.blk /\ liveBytes' = h.bytes

ContentIn(h, a) ==
  LET x == h.arr[a]
  IN  IF x.block = None THEN x.data ELSE SubSeq(h.blk[x.block].data, x.off + 1, x.off + x.len)

Content(a) == ContentIn(Heap, a)

FreeArrays == {a \in Arrays : arr[a].kind = "none"}
FreeBlocks == {b \in Blocks : blk[b].refs = 0}

TypeOK ==
  /\ bind \in [Names -> Arrays \union {None}]
  /\ DOMAIN means = Names
  /\ DOMAIN arr = Arrays
  /\ \A a \in Arrays :
       /\ arr[a].kind \in {"none", "slots", "inline", "block"}
       /\ (arr[a].kind = "block") = (arr[a].block \in Blocks)
       /\ arr[a].len <= MaxLen
  /\ DOMAIN blk = Blocks
  /\ \A b \in Blocks : Len(blk[b].data) <= blk[b].cap
  /\ queued \in [Blocks -> Nat]
  /\ liveBytes \in Nat

Init ==
  /\ bind = [n \in Names |-> None] /\ means = [n \in Names |-> <<>>]
  /\ arr = [a \in Arrays |-> NoArray] /\ blk = [b \in Blocks |-> NoBlock]
  /\ queued = [b \in Blocks |-> 0] /\ liveBytes = 0

-----------------------------------------------------------------------------
(* Block. *)

Create(h, b, owner, s) ==
  [h EXCEPT !.blk[b] = Block(1, owner, Len(s), s), !.bytes = @ + Len(s)]

(* Mutant: a block that is shared once more is not counted once more. *)
RetainNothing(h, b) == h

Retain(h, b) == [h EXCEPT !.blk[b].refs = @ + 1]

(* `times` releases; the last one frees the block. *)
Release(h, b, times) ==
  IF h.blk[b].refs = times
  THEN [h EXCEPT !.blk[b] = NoBlock, !.bytes = @ - h.blk[b].cap]
  ELSE [h EXCEPT !.blk[b].refs = @ - times]

Padded(s, len) == s \o [i \in 1 .. len - Len(s) |-> 0]

(* Mutant: what the block had before stays counted. *)
GrowCountedTwice(h, b, len) ==
  LET old   == h.blk[b]
      grown == IF len <= old.cap THEN old.cap ELSE Max({len, 2 * old.cap, MinGrow})
  IN  [h EXCEPT !.blk[b] = Block(old.refs, old.owner, grown, Padded(old.data, len)),
                !.bytes = @ + grown]

Grow(h, b, len) ==
  LET old   == h.blk[b]
      grown == IF len <= old.cap THEN old.cap ELSE Max({len, 2 * old.cap, MinGrow})
  IN  [h EXCEPT !.blk[b] = Block(old.refs, old.owner, grown, Padded(old.data, len)),
                !.bytes = (@ - old.cap) + grown]

-----------------------------------------------------------------------------
(* Array.  `n` and `b` are the array and the block an operation may need.  *)

(* createCompact over a block, and with data of its own. *)
CreateOver(h, n, b, off, len, view) ==
  [Retain(h, b) EXCEPT !.arr[n] = Over(b, off, len, IF view THEN len ELSE Len(h.blk[b].data), view)]

CreateCompact(h, n, b, s) ==
  IF Len(s) <= InlineLen
  THEN [h EXCEPT !.arr[n] = Own("inline", s)]
  ELSE [Create(h, b, "camel", s) EXCEPT !.arr[n] = Over(b, 0, Len(s), Len(s), FALSE)]

Clone(h, a, n, b) ==
  IF h.arr[a].kind = "slots" THEN [h EXCEPT !.arr[n] = h.arr[a]]
  ELSE CreateCompact(h, n, b, ContentIn(h, a))

(* shareForSecondName returns this. *)
HandsOutItself(h, a) ==
  LET x == h.arr[a]
  IN  \/ x.view \/ x.off # 0
      \/ x.block # None /\ (h.blk[x.block].owner # "camel" \/ h.blk[x.block].refs # 1)

SecondName(h, a, n) == IF HandsOutItself(h, a) THEN a ELSE n

ShareForSecondName(h, a, n) ==
  IF HandsOutItself(h, a) THEN h
  ELSE IF h.arr[a].block = None THEN [h EXCEPT !.arr[n] = h.arr[a]]
  ELSE CreateOver(h, n, h.arr[a].block, 0, h.arr[a].len, FALSE)

(* Mutants: only slices count as holders; the owner is not asked for. *)
WritableUnsliced(h, a) ==
  LET x == h.arr[a]
  IN  /\ ~x.view /\ x.off = 0
      /\ x.block # None =>
           /\ h.blk[x.block].owner = "camel"
           /\ \A z \in Arrays : h.arr[z].block = x.block => ~h.arr[z].view

WritableAnyOwner(h, a) ==
  LET x == h.arr[a]
  IN  ~x.view /\ x.off = 0 /\ (x.block # None => h.blk[x.block].refs = 1)

WritableInPlace(h, a) ==
  LET x == h.arr[a]
  IN  /\ ~x.view /\ x.off = 0
      /\ x.block # None => h.blk[x.block].refs = 1 /\ h.blk[x.block].owner = "camel"

SetSlot(h, a, i, v) ==
  IF h.arr[a].block = None THEN [h EXCEPT !.arr[a].data[i] = v]
  ELSE [h EXCEPT !.blk[h.arr[a].block].data[h.arr[a].off + i] = v]

(* Inline data moves into a block; a block that is held alone grows.  The  *)
(* third case of the code, a shared block, does not arise: an array grows  *)
(* when it is new or writable in place.                                    *)
GrowCompact(h, a, b, cap) ==
  IF h.arr[a].block = None
  THEN [Create(h, b, "camel", Padded(h.arr[a].data, cap))
          EXCEPT !.arr[a] = Over(b, 0, h.arr[a].len, cap, FALSE)]
  ELSE [Grow(h, h.arr[a].block, cap) EXCEPT !.arr[a].cap = cap]

AppendSlot(h, a, b, v) ==
  LET x == h.arr[a]
      g == IF x.len >= x.cap THEN GrowCompact(h, a, b, (x.cap * 3) \div 2 + 1) ELSE h
  IN  IF x.kind = "slots" THEN [h EXCEPT !.arr[a] = Own("slots", Append(x.data, v))]
      ELSE [SetSlot(g, a, x.len + 1, v) EXCEPT !.arr[a].len = @ + 1]

(* `append`: copyWithRoom reserves a block for one element more. *)
AppendCopied(h, a, n, b, v) ==
  LET s == Append(ContentIn(h, a), v)
  IN  IF h.arr[a].kind = "slots" THEN [h EXCEPT !.arr[n] = Own("slots", s)]
      ELSE [Create(h, b, "camel", s) EXCEPT !.arr[n] = Over(b, 0, Len(s), Len(s), FALSE)]

(* view's ensureBlock: the source's data gets a block. *)
EnsureBlock(h, a, b) ==
  IF h.arr[a].block # None THEN h
  ELSE [Create(h, b, "camel", h.arr[a].data)
          EXCEPT !.arr[a] = Over(b, 0, h.arr[a].len, h.arr[a].len, FALSE)]

-----------------------------------------------------------------------------
(* The program.  A statement reads and writes variables through these      *)
(* operators only; the array of an operand is held by the frame meanwhile. *)

Bound(n) == bind[n] # None

Name(n, a, s) ==
  /\ bind' = [bind EXCEPT ![n] = a]
  /\ means' = [means EXCEPT ![n] = s]

(* A new array of zeros: of slots, compact, or imported (dlpack). *)
NewArray(x, kind, len) ==
  /\ x \in Lets /\ ~Bound(x)
  /\ LET s == Padded(<<>>, len)
     IN  \E n \in FreeArrays, b \in FreeBlocks :
           /\ Become(CASE kind = "slots"    -> [Heap EXCEPT !.arr[n] = Own("slots", s)]
                       [] kind = "compact"  -> CreateCompact(Heap, n, b, s)
                       [] kind = "imported" -> [Create(Heap, b, "external", s)
                                                  EXCEPT !.arr[n] = Over(b, 0, len, len, FALSE)])
           /\ Name(x, n, s)
  /\ UNCHANGED queued

(* `to` becomes one more name of the value of `from`. *)
Share(from, to) ==
  /\ Bound(from)
  /\ \E n \in FreeArrays :
       /\ Become(ShareForSecondName(Heap, bind[from], n))
       /\ Name(to, SecondName(Heap, bind[from], n), Content(bind[from]))
  /\ UNCHANGED queued

VarNew(c, x) == c \in Cells /\ x \in Lets /\ ~Bound(c) /\ Share(x, c)
Assn(c, x)   == c \in Cells /\ x \in Lets /\ Bound(c) /\ Share(x, c)
VarGet(c, x) == c \in Cells /\ x \in Lets /\ ~Bound(x) /\ Share(c, x)

(* A slice of a compact array. *)
View(x, y, off, len) ==
  /\ {x, y} \subseteq Lets /\ Bound(x) /\ ~Bound(y)
  /\ arr[bind[x]].kind # "slots" /\ off + len <= arr[bind[x]].len
  /\ \E n \in FreeArrays, b \in FreeBlocks :
       LET h == EnsureBlock(Heap, bind[x], b)
           a == h.arr[bind[x]]
       IN  /\ Become(CreateOver(h, n, a.block, a.off + off, len, TRUE))
           /\ Name(y, n, SubSeq(Content(bind[x]), off + 1, off + len))
  /\ UNCHANGED queued

(* `xs[i] = v`: :var/take, the update and :op/assn_owned.  A plan that     *)
(* knows of another observer runs the plain operator.  The in-place form   *)
(* may meet any state of the cell: a function that takes the variable as   *)
(* its `var` parameter has no other way to know (ByArrayCount).            *)
SetIndex(c, i, v, inPlace) ==
  /\ c \in Cells /\ Bound(c) /\ i <= arr[bind[c]].len
  /\ LET a == bind[c]
     IN  \/ /\ inPlace /\ WritableInPlace(Heap, a)
            /\ Become(SetSlot(Heap, a, i, v))
            /\ Name(c, a, [Content(a) EXCEPT ![i] = v])
         \/ /\ ~(inPlace /\ WritableInPlace(Heap, a))
            /\ \E n \in FreeArrays, b \in FreeBlocks :
                 /\ Become(SetSlot(Clone(Heap, a, n, b), n, i, v))
                 /\ Name(c, n, [Content(a) EXCEPT ![i] = v])
  /\ UNCHANGED queued

(* `xs = xs->append<v>` *)
AppendTo(c, v, inPlace) ==
  /\ c \in Cells /\ Bound(c) /\ arr[bind[c]].len < MaxLen
  /\ \E b \in FreeBlocks :
       LET a == bind[c]
       IN  \/ /\ inPlace /\ WritableInPlace(Heap, a)
              /\ Become(AppendSlot(Heap, a, b, v))
              /\ Name(c, a, Append(Content(a), v))
           \/ /\ ~(inPlace /\ WritableInPlace(Heap, a))
              /\ \E n \in FreeArrays :
                   /\ Become(AppendCopied(Heap, a, n, b, v))
                   /\ Name(c, n, Append(Content(a), v))
  /\ UNCHANGED queued

(* The frame or the object that held the name is gone. *)
Drop(n) ==
  /\ Bound(n)
  /\ Name(n, None, <<>>)
  /\ UNCHANGED <<arr, blk, queued, liveBytes>>

Dead == {a \in Arrays : arr[a].kind # "none" /\ \A n \in Names : bind[n] # a}

(* A collection finds some of the dead arrays, a major one all of them;    *)
(* Array::finalize queues the release of their blocks.                     *)
Collect(found) ==
  /\ found # {} /\ found \subseteq Dead
  /\ queued' = [b \in Blocks |-> queued[b] + Cardinality({a \in found : arr[a].block = b})]
  /\ \A b \in Blocks : queued'[b] <= MaxQueued
  /\ arr' = [a \in Arrays |-> IF a \in found THEN NoArray ELSE arr[a]]
  /\ UNCHANGED <<bind, means, blk, liveBytes>>

(* runDeferredReleases *)
RunReleases ==
  /\ \E b \in Blocks : queued[b] > 0
  /\ Become(FoldSet(LAMBDA b, h : Release(h, b, queued[b]), Heap, {b \in Blocks : queued[b] > 0}))
  /\ queued' = [b \in Blocks |-> 0]
  /\ UNCHANGED <<bind, means>>

Next ==
  \/ \E x \in Lets, kind \in Kinds, len \in 1 .. MaxLen - 1 :
       NewArray(x, kind, len)
  \/ \E c \in Cells, x \in Lets : VarNew(c, x) \/ Assn(c, x) \/ VarGet(c, x)
  \/ \E x, y \in Lets, off \in {0, 1}, len \in 1 .. MaxLen : View(x, y, off, len)
  \/ \E c \in Cells, v \in Values, inPlace \in BOOLEAN :
       AppendTo(c, v, inPlace) \/ \E i \in 1 .. MaxLen : SetIndex(c, i, v, inPlace)
  \/ \E n \in Names : Drop(n)
  \/ \E found \in SUBSET Dead : Collect(found)
  \/ RunReleases

Spec == Init /\ [][Next]_vars
-----------------------------------------------------------------------------
Holders(b) == {a \in Arrays : arr[a].block = b}

(* A block's count is the arrays that hold it and the releases still       *)
(* queued, so a block lives as long as an array can read it and no longer  *)
(* than its last release (Block::retain, releaseFromFinalizer).            *)
CountsHolders == \A b \in Blocks : blk[b].refs = Cardinality(Holders(b)) + queued[b]

(* liveBytes, which the heap limit and the pacing read, is the capacity of *)
(* the blocks that live, through growth and release (block.cpp, 154-159).  *)
BytesAreLive == liveBytes = MapThenSumSet(LAMBDA b : blk[b].cap, Blocks)

(* What one statement changes is the content of one array at most, and a   *)
(* variable holds that array before and after: no write reaches another    *)
(* array through a block they share (array.cpp, 1082).                     *)
WritesStayInOneArray ==
  [][\A a \in Arrays :
       arr[a].kind # "none" /\ arr'[a].kind # "none" /\ Content(a)' # Content(a) =>
         /\ \E c \in Cells : bind[c] = a /\ bind'[c] = a
         /\ \A z \in Arrays \ {a} :
              arr[z].kind # "none" /\ arr'[z].kind # "none" => Content(z)' = Content(z)]_vars

(* Two names for one inline or slot array would be two names for one       *)
(* storage that no count keeps apart: an array with its data in the object *)
(* has one name while a variable holds it (array.h, 362-366).              *)
OwnStorageHasOneName ==
  \A c \in Cells : \A n \in Names \ {c} :
    Bound(c) /\ bind[n] = bind[c] => arr[bind[c]].block # None

(* A name of an array that holds its data itself, of a slice, or of an     *)
(* imported array shows what it was bound to, whatever is done to the      *)
(* variables it was taken from (array.cpp, 1082-1098).                     *)
UncountedNamesKeepTheirValues ==
  \A n \in Names :
    Bound(n) =>
      LET x == arr[bind[n]]
      IN  x.block = None \/ x.view \/ blk[x.block].owner = "external" => Content(bind[n]) = means[n]

(* Every name shows the value it was bound to: with an array as the only   *)
(* reference to its block no other name can observe it (array.h, 356-357). *)
NamesKeepTheirValues == \A n \in Names : Bound(n) => Content(bind[n]) = means[n]
=============================================================================
