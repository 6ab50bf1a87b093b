----------------------------- MODULE TailFrames -----------------------------
(***************************************************************************)
(* TaskflowExecSchedPass::callGraph and evalGraph: one activation runs a   *)
(* graph and every tail call that follows in a small table of frames, one  *)
(* per graph.  The frames come from the pool that the other activations    *)
(* use too; of the pool this takes what FrameLending promises.  A call     *)
(* passes two parameters, and each argument is a parameter of the frame it *)
(* is made in: bodies compute nothing.                                     *)
(***************************************************************************)
EXTENDS Naturals, Sequences, FiniteSets

CONSTANTS Graphs,
          Serial,    \* graphs that run as bytecode
          Copies,    \* bound: the frames a graph has are numbered by these
          Slots,     \* entries.size()
          Passing,   \* bound: where the arguments of tail calls come from
          MaxAway    \* bound: frames that are with others, or lost, at once

ASSUME TailFramesConstants ==
  /\ Serial \subseteq Graphs /\ Slots \in Nat /\ Slots > 2
  /\ Passing \subseteq [1 .. 2 -> 1 .. 2] /\ MaxAway \in Nat

VARIABLES stage,        \* where the activation is
          table, victim, \* TailFrames: the first count entries, and victim
          curr,         \* plan and currFrame, as an entry
          call,         \* the tail call being made: its target and arguments
          entry,        \* the entry the target runs in
          slots,        \* the parameters each frame holds
          mine, others, \* frames this activation and the other ones have taken
          stranded,     \* frames whose owner is gone: they stay taken
          result,       \* what callGraph returned
          want          \* what the call running should see (history)

poolVars == <<mine, others, stranded>>
vars == <<stage, table, victim, curr, call, entry, slots, poolVars, result, want>>

Frames == (Graphs \ Serial) \X Copies
Entries == [graph : Graphs \ Serial, frame : Frames]
Params == [1 .. 2 -> 1 .. 2]   \* two values, or where two arguments come from
Stale  == <<>>                 \* left over from an earlier call
Fault  == <<"fault">>
NoEntry == <<>>

Passed(args, from) == [i \in 1 .. 2 |-> from[args[i]]]

(* What acquire(g) can answer with. *)
Available(g) == {f \in Frames \ (mine \union others) : f[1] = g}

MayGoAway == Cardinality(others \union stranded) < MaxAway

Entry(g, f) == [graph |-> g, frame |-> f]
Held == {table[i].frame : i \in 1 .. Len(table)}
Called == IF stage = "called" THEN {curr.frame} ELSE {}

TypeOK ==
  /\ stage \in {"returned", "called", "run", "target", "evict", "acquire", "fill", "unwind", "leave"}
  /\ table \in Seq(Entries) /\ Len(table) <= Slots
  /\ victim \in 0 .. Slots - 1
  /\ mine \subseteq Frames /\ others \subseteq Frames \ mine /\ stranded \subseteq mine
  /\ slots \in [Frames -> Params \union {Stale}]
  /\ want \in Params

Init ==
  /\ stage = "returned" /\ table = <<>> /\ victim = 0
  /\ curr = NoEntry /\ entry = NoEntry /\ call = <<>>
  /\ slots = [f \in Frames |-> Stale]
  /\ mine = {} /\ others = {} /\ stranded = {}
  /\ want = <<1, 2>> /\ result = want
-----------------------------------------------------------------------------
(* callGraph, up to the frame it acquires; a serial graph is handed off     *)
(* before this.                                                            *)
CallGraph(g) ==
  /\ stage = "returned"
  /\ \E f \in Available(g) : mine' = mine \union {f} /\ curr' = Entry(g, f)
  /\ want' = <<1, 2>> /\ result' = <<>>
  /\ stage' = "called"
  /\ UNCHANGED <<table, victim, call, entry, slots, others, stranded>>

(* The plan or the frame is not to be had. *)
CallGraphThrows ==
  /\ stage = "returned"
  /\ want' = <<1, 2>> /\ result' = Fault
  /\ UNCHANGED <<stage, table, victim, curr, call, entry, slots, poolVars>>

(* fill(callee), and evalGraph up to the first round of its loop *)
FillCallee ==
  /\ stage = "called"
  /\ slots' = [slots EXCEPT ![curr.frame] = <<1, 2>>]
  /\ table' = <<curr>> /\ victim' = 0
  /\ stage' = "run"
  /\ UNCHANGED <<curr, call, entry, poolVars, result, want>>

(* fill(callee) throws, before the try: nothing gives the frame back.      *)
FillCalleeThrows ==
  /\ stage = "called" /\ MayGoAway
  /\ stranded' = stranded \union {curr.frame}
  /\ curr' = NoEntry /\ result' = Fault
  /\ stage' = "returned"
  /\ UNCHANGED <<table, victim, call, entry, slots, mine, others, want>>

(* The body comes to a tail call. *)
TailCall(g, args) ==
  /\ stage = "run"
  /\ call' = [target |-> g, args |-> args]
  /\ want' = Passed(args, want)
  /\ stage' = "target"
  /\ UNCHANGED <<table, victim, curr, entry, slots, poolVars, result>>

(* fillFrameForDirectInvoke on one frame: every argument is read before    *)
(* the first parameter is written.                                         *)
Refill(args, from) == Passed(args, from)

SelfCall ==
  /\ stage = "target" /\ call.target = curr.graph
  /\ slots' = [slots EXCEPT ![curr.frame] = Refill(call.args, @)]
  /\ call' = <<>> /\ stage' = "run"
  /\ UNCHANGED <<table, victim, curr, entry, poolVars, result, want>>

InTable(g) == \E i \in 1 .. Len(table) : table[i].graph = g

(* The target has a frame already. *)
Found ==
  /\ stage = "target" /\ call.target # curr.graph
  /\ \E i \in 1 .. Len(table) : table[i].graph = call.target /\ entry' = table[i]
  /\ stage' = "fill"
  /\ UNCHANGED <<table, victim, curr, call, slots, poolVars, result, want>>

(* A serial target takes the rest of the activation over, in a frame of    *)
(* the interpreter.                                                        *)
HandOff ==
  /\ stage = "target" /\ ~InTable(call.target) /\ call.target \in Serial
  /\ result' \in {Passed(call.args, slots[curr.frame]), Fault}
  /\ stage' = "unwind"
  /\ UNCHANGED <<table, victim, curr, call, entry, slots, poolVars, want>>

HasRoom == Len(table) < Slots

TakeEntry ==
  /\ stage = "target" /\ ~InTable(call.target) /\ call.target \notin Serial
  /\ stage' = IF HasRoom THEN "acquire" ELSE "evict"
  /\ UNCHANGED <<table, victim, curr, call, entry, slots, poolVars, result, want>>

(* Mutant: the search stays where it is. *)
NextVictimStays == IF victim = 0 THEN 1 ELSE victim

NextVictim == (victim % (Slots - 1)) + 1

TryAgain ==
  /\ stage = "evict" /\ table[NextVictim + 1].frame = curr.frame
  /\ victim' = NextVictim
  /\ UNCHANGED <<stage, table, curr, call, entry, slots, poolVars, result, want>>

(* Mutant: the entry keeps the frame given back until it is overwritten.   *)
WithoutLate(v) == SubSeq([table EXCEPT ![v + 1] = table[Slots], ![Slots] = table[v + 1]], 1, Slots)

(* The last entry moves to the place of the victim. *)
Without(v) == SubSeq([table EXCEPT ![v + 1] = table[Slots]], 1, Slots - 1)

Evict ==
  /\ stage = "evict" /\ table[NextVictim + 1].frame # curr.frame
  /\ victim' = NextVictim
  /\ mine' = mine \ {table[NextVictim + 1].frame}
  /\ table' = Without(NextVictim)
  /\ stage' = "acquire"
  /\ UNCHANGED <<curr, call, entry, slots, others, stranded, result, want>>

Acquire ==
  /\ stage = "acquire"
  /\ \E f \in Available(call.target) :
       /\ mine' = mine \union {f}
       /\ entry' = Entry(call.target, f)
       /\ table' = Append(table, entry')
  /\ stage' = "fill"
  /\ UNCHANGED <<victim, curr, call, slots, others, stranded, result, want>>

(* planFor, acquire or fillFrameForDirectInvoke throws; the last of them   *)
(* does so before it writes.                                               *)
TailCallThrows ==
  /\ stage \in {"target", "acquire", "fill"}
  /\ result' = Fault /\ stage' = "unwind"
  /\ UNCHANGED <<table, victim, curr, call, entry, slots, poolVars, want>>

(* The parameters move over; what the old frame holds is not used again.   *)
Fill ==
  /\ stage = "fill"
  /\ slots' = [slots EXCEPT ![curr.frame] = Stale,
                            ![entry.frame] = Passed(call.args, slots[curr.frame])]
  /\ curr' = entry
  /\ entry' = NoEntry /\ call' = <<>> /\ stage' = "run"
  /\ UNCHANGED <<table, victim, poolVars, result, want>>

(* Mutant: the value is read from the frame the activation began in. *)
ReadReturnFirst == slots[table[1].frame]

ReadReturn == slots[curr.frame]

(* The body ends without a tail call, or with a fault. *)
BodyEnds ==
  /\ stage = "run"
  /\ result' \in {ReadReturn, Fault}
  /\ stage' = "unwind"
  /\ UNCHANGED <<table, victim, curr, call, entry, slots, poolVars, want>>

(* ~TailFrames *)
Unwind ==
  /\ stage = "unwind"
  /\ mine' = mine \ {table[i].frame : i \in 2 .. Len(table)}
  /\ table' = SubSeq(table, 1, 1)
  /\ stage' = "leave"
  /\ curr' = NoEntry /\ entry' = NoEntry /\ call' = <<>>
  /\ UNCHANGED <<victim, slots, others, stranded, result, want>>

(* callGraph gives the callee's frame back, after a fault as well. *)
Leave ==
  /\ stage = "leave"
  /\ mine' = mine \ {table[1].frame}
  /\ table' = <<>>
  /\ stage' = "returned"
  /\ slots' = [f \in Frames |-> Stale] /\ victim' = 0
  /\ UNCHANGED <<curr, call, entry, others, stranded, result, want>>

(* Another activation takes a frame and fills it, or gives one back. *)
OtherTakes(f) ==
  /\ f \notin mine \union others /\ MayGoAway
  /\ others' = others \union {f}
  /\ slots' = [slots EXCEPT ![f] = Stale]
  /\ UNCHANGED <<stage, table, victim, curr, call, entry, mine, stranded, result, want>>

OtherGives(f) ==
  /\ f \in others
  /\ others' = others \ {f}
  /\ UNCHANGED <<stage, table, victim, curr, call, entry, slots, mine, stranded, result, want>>

Search == TryAgain \/ Evict

Activation ==
  \/ \E g \in Graphs : CallGraph(g) \/ \E args \in Passing : TailCall(g, args)
  \/ CallGraphThrows \/ FillCallee \/ FillCalleeThrows
  \/ SelfCall \/ Found \/ HandOff \/ TakeEntry \/ Search \/ Acquire \/ TailCallThrows \/ Fill
  \/ BodyEnds \/ Unwind \/ Leave

Next == Activation \/ \E f \in Frames : OtherTakes(f) \/ OtherGives(f)

Spec == Init /\ [][Next]_vars

(* The search for a victim runs on one thread and waits for nothing. *)
FairSpec == Spec /\ WF_vars(Search)
-----------------------------------------------------------------------------
(* From the moment evalGraph is entered the table holds exactly the frames *)
(* the activation has taken and not given back, each once and for a graph  *)
(* of its own: whatever throws then, the destructor and callGraph give     *)
(* back every frame once, and none that another activation may have by     *)
(* then.  Beside these only a frame still to be filled for the first time  *)
(* is taken, and those whose first fill threw, which are lost to the pool. *)
TableIsWhatIsHeld ==
  /\ mine = Held \union Called \union stranded
  /\ (Held \union Called) \intersect stranded = {}
  /\ \A i, j \in 1 .. Len(table) : i # j => table[i].graph # table[j].graph
  /\ \A i, j \in 1 .. Len(table) : i # j => table[i].frame # table[j].frame

(* "Replace one that is neither the caller's frame nor the frame the       *)
(* arguments are about to be read from": both stay with the activation     *)
(* until the arguments have been read, and the caller's until the end.     *)
NeededFramesStay ==
  [][/\ stage' \in {"called", "run", "target", "evict", "acquire", "fill"} => curr.frame' \in mine'
     /\ stage \notin {"returned", "called", "leave"} => table'[1] = table[1]]_vars

(* A call sees the arguments it was made with, however many tail calls     *)
(* and exchanged frames came before.                                       *)
ParametersAsPassed == stage = "run" => slots[curr.frame] = want

(* What comes back is the value of the last call of the chain. *)
ReturnsLastCall == stage = "returned" => result \in {want, Fault}

(* A full table always has an entry to replace. *)
SearchEnds == stage = "evict" ~> stage # "evict"
=============================================================================
