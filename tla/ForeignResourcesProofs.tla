----------------------- MODULE ForeignResourcesProofs -----------------------
(***************************************************************************)
(* The queue of deferred releases and the foreign resources, for any       *)
(* threads, resources and wrappers: no release is lost on its way through  *)
(* the queue, reference counts are exact, deleters run once and newest     *)
(* first at the end, and what is reachable is usable.                      *)
(***************************************************************************)
EXTENDS ForeignCallsProofs

-----------------------------------------------------------------------------
(* The flag of the queue *)

(* The places between lock and unlock. *)
Inside == {"push", "flag", "swap", "clear"}

(* One thread at a time is inside the mutex, and the one that is about to  *)
(* clear the flag has left nothing in the queue.                           *)
MutexOK ==
  /\ place \in [Threads -> {"out", "push", "flag", "lock", "swap", "clear"}]
  /\ \A t \in Threads : mutex = t <=> place[t] \in Inside
  /\ \A t \in Threads : place[t] = "clear" => entries = <<>>

FlagInv == MutexOK /\ FlagTells

(* The flag and the mutex at the start. *)
LEMMA InitFlagInv == QueueInit => FlagInv
BY NoneIsNoThread DEF QueueInit, FlagInv, MutexOK, FlagTells, Inside

(* No two threads are inside. *)
LEMMA OneInside ==
  ASSUME FlagInv, NEW t \in Threads, place[t] \in Inside, NEW u \in Threads, place[u] \in Inside
  PROVE  u = t
BY Zenon DEF FlagInv, MutexOK

(* The steps of deferRelease keep the flag reliable. *)
LEMMA StepDeferring == ASSUME FlagInv, NEW t \in Threads, Deferring(t) PROVE FlagInv'
<1> USE NoneIsNoThread DEF FlagInv, MutexOK, FlagTells, Inside, At
<1>1. ASSUME NEW e \in Entries, Defer(t, e) PROVE FlagInv'
  BY Zenon, <1>1 DEF Defer
<1>2. CASE Push(t)
  <2>1. place[t] = "push" /\ place' = [place EXCEPT ![t] = "flag"] /\ mutex' = mutex
    BY Zenon, <1>2 DEF Push
  <2>2. \A u \in Threads : place[u] = "clear" => u = t
    BY <2>1, OneInside
  <2> QED
    BY <2>1, <2>2
<1>3. CASE Flag(t)
  BY Zenon, <1>3 DEF Flag
<1>4. CASE PushFails(t)
  BY Zenon, <1>4 DEF PushFails
<1> QED
  BY <1>1, <1>2, <1>3, <1>4 DEF Deferring

(* The steps of runDeferredReleases do, too. *)
LEMMA StepRunning == ASSUME FlagInv, NEW t \in Threads, Running(t) PROVE FlagInv'
<1> USE NoneIsNoThread DEF FlagInv, MutexOK, FlagTells, Inside, At
<1>1. CASE Look(t)
  BY Zenon, <1>1 DEF Look
<1>2. CASE Lock(t)
  BY Zenon, <1>2 DEF Lock
<1>3. CASE Swap(t)
  BY <1>3 DEF Swap
<1>4. CASE Clear(t)
  BY <1>4 DEF Clear
<1>5. CASE RunEntry(t)
  BY Zenon, <1>5 DEF RunEntry
<1>6. CASE EndRun(t)
  BY Zenon, <1>6 DEF EndRun
<1> QED
  BY SMTT(30), <1>1, <1>2, <1>3, <1>4, <1>5, <1>6 DEF Running

(* Every step keeps the flag reliable. *)
LEMMA StepFlagInv == FlagInv /\ [QueueNext]_queueVars => FlagInv'
<1> SUFFICES ASSUME FlagInv, [QueueNext]_queueVars PROVE FlagInv'
  BY Zenon
<1>1. CASE UNCHANGED queueVars
  BY <1>1 DEF queueVars, FlagInv, MutexOK, FlagTells
<1> QED
  BY <1>1, StepDeferring, StepRunning DEF QueueNext

(* A thread that reads the flag of runDeferredReleases as clear misses     *)
(* nothing that is queued, unless the thread that queued it still holds    *)
(* the mutex and is about to set the flag.                                 *)
THEOREM FlagIsReliable == QueueSpec => []FlagTells
<1>1. FlagInv => FlagTells
  BY Zenon DEF FlagInv
<1> QED
  BY <1>1, InitFlagInv, StepFlagInv, PTL DEF QueueSpec

(* The batches each thread has swapped out. *)
TakenType == taken \in [Threads -> Seq(Seq(Entries))]

(* The places among what was taken out, and what is there. *)
LEMMA InTakenOut ==
  ASSUME TakenType
  PROVE  /\ \A u \in Threads : \A c, i \in Nat :
              <<u, c, i>> \in TakenOut <=> c < Len(taken[u]) /\ i < Len(Batch(u, c))
         /\ \A p \in TakenOut : \E u \in Threads : \E c, i \in Nat : p = <<u, c, i>>
<1>1. \A u \in Threads : /\ Len(taken[u]) \in Nat
                         /\ \A c \in 0 .. Len(taken[u]) - 1 : Len(Batch(u, c)) \in Nat
  BY DEF TakenType, Batch
<1>2. ASSUME NEW u \in Threads, NEW c \in Nat, NEW i \in Nat
      PROVE  <<u, c, i>> \in TakenOut <=> c < Len(taken[u]) /\ i < Len(Batch(u, c))
  <2>1. <<u, c, i>> \in TakenOut <=> c \in 0 .. Len(taken[u]) - 1 /\ i \in 0 .. Len(Batch(u, c)) - 1
    BY DEF TakenOut
  <2> QED
    BY <1>1, <2>1
<1>3. ASSUME NEW p \in TakenOut PROVE \E u \in Threads : \E c, i \in Nat : p = <<u, c, i>>
  <2>1. PICK u \in Threads : \E c \in 0 .. Len(taken[u]) - 1 : p \in {u} \X {c} \X (0 .. Len(Batch(u, c)) - 1)
    BY DEF TakenOut
  <2>2. PICK c \in 0 .. Len(taken[u]) - 1 : p \in {u} \X {c} \X (0 .. Len(Batch(u, c)) - 1)
    BY Zenon, <2>1
  <2>3. PICK i \in 0 .. Len(Batch(u, c)) - 1 : p = <<u, c, i>>
    BY <2>2
  <2>4. c \in Nat /\ i \in Nat
    BY <1>1
  <2> QED
    BY Zenon, <2>3, <2>4
<1> QED
  BY <1>2, <1>3

(* The same, after a step. *)
LEMMA InTakenOutNext ==
  ASSUME TakenType'
  PROVE  /\ \A u \in Threads : \A c, i \in Nat :
              <<u, c, i>> \in TakenOut' <=> c < Len(taken'[u]) /\ i < Len(Batch(u, c)')
         /\ \A p \in TakenOut' : \E u \in Threads : \E c, i \in Nat : p = <<u, c, i>>
<1>1. \A u \in Threads : /\ Len(taken'[u]) \in Nat
                         /\ \A c \in 0 .. Len(taken'[u]) - 1 : Len(Batch(u, c)') \in Nat
  BY DEF TakenType, Batch
<1>2. ASSUME NEW u \in Threads, NEW c \in Nat, NEW i \in Nat
      PROVE  <<u, c, i>> \in TakenOut' <=> c < Len(taken'[u]) /\ i < Len(Batch(u, c)')
  <2>1. <<u, c, i>> \in TakenOut' <=> c \in 0 .. Len(taken'[u]) - 1 /\ i \in 0 .. Len(Batch(u, c)') - 1
    BY DEF TakenOut
  <2> QED
    BY <1>1, <2>1
<1>3. ASSUME NEW p \in TakenOut' PROVE \E u \in Threads : \E c, i \in Nat : p = <<u, c, i>>
  <2>1. PICK u \in Threads : \E c \in 0 .. Len(taken'[u]) - 1 : p \in {u} \X {c} \X (0 .. Len(Batch(u, c)') - 1)
    BY DEF TakenOut
  <2>2. PICK c \in 0 .. Len(taken'[u]) - 1 : p \in {u} \X {c} \X (0 .. Len(Batch(u, c)') - 1)
    BY Zenon, <2>1
  <2>3. PICK i \in 0 .. Len(Batch(u, c)') - 1 : p = <<u, c, i>>
    BY <2>2
  <2>4. c \in Nat /\ i \in Nat
    BY <1>1
  <2> QED
    BY Zenon, <2>3, <2>4
<1> QED
  BY <1>2, <1>3

(* A step of t that leaves its first k calls as they are. *)
LEMMA KeptBatches ==
  ASSUME TakenType, TakenType', NEW t \in Threads, NEW k \in Nat,
         k <= Len(taken[t]), k <= Len(taken'[t]),
         \A d \in Nat : d < k => Batch(t, d)' = Batch(t, d),
         \A u \in Threads \ {t} : taken'[u] = taken[u]
  PROVE  \A u \in Threads : \A c, i \in Nat :
           ~(u = t /\ c >= k) => /\ <<u, c, i>> \in TakenOut' <=> <<u, c, i>> \in TakenOut
                                /\ EntryAt(<<u, c, i>>)' = EntryAt(<<u, c, i>>)
<1> SUFFICES ASSUME NEW u \in Threads, NEW c \in Nat, NEW i \in Nat, ~(u = t /\ c >= k)
             PROVE  /\ <<u, c, i>> \in TakenOut' <=> <<u, c, i>> \in TakenOut
                    /\ EntryAt(<<u, c, i>>)' = EntryAt(<<u, c, i>>)
  BY Zenon
<1>1. /\ <<u, c, i>> \in TakenOut <=> c < Len(taken[u]) /\ i < Len(Batch(u, c))
      /\ <<u, c, i>> \in TakenOut' <=> c < Len(taken'[u]) /\ i < Len(Batch(u, c)')
  BY ZenonT(40), InTakenOut, InTakenOutNext
<1>2. Batch(u, c)' = Batch(u, c)
  <2>1. CASE u = t
    <3>1. c < k
      BY <2>1
    <3> QED
      BY <2>1, <3>1
  <2>2. CASE u # t
    BY Zenon, <2>2 DEF Batch
  <2> QED
    BY <2>1, <2>2
<1>3. EntryAt(<<u, c, i>>)' = EntryAt(<<u, c, i>>)
  BY Zenon, <1>2 DEF EntryAt
<1>4. c < Len(taken'[u]) <=> c < Len(taken[u])
  <2>1. CASE u = t
    <3>1. c < k /\ Len(taken[t]) \in Nat /\ Len(taken'[t]) \in Nat
      BY <2>1 DEF TakenType
    <3> QED
      BY <2>1, <3>1
  <2> QED
    BY <2>1
<1> QED
  BY <1>1, <1>2, <1>3, <1>4

(* A swap puts the entries in places that nothing had. *)
LEMMA TakeBatch ==
  ASSUME TakenType, NEW t \in Threads, NEW s \in Seq(Entries),
         NEW n, n = Len(taken[t]), taken' = [taken EXCEPT ![t] = <<s>> \o @]
  PROVE  /\ TakenType' /\ n \in Nat
         /\ TakenOut' = TakenOut \union ({t} \X {n} \X (0 .. Len(s) - 1))
         /\ \A i \in Nat : <<t, n, i>> \notin TakenOut
         /\ \A p \in TakenOut : EntryAt(p)' = EntryAt(p)
         /\ \A i \in 0 .. Len(s) - 1 : EntryAt(<<t, n, i>>)' = s[Len(s) - i]
<1>1. /\ TakenType' /\ n \in Nat /\ Len(s) \in Nat
      /\ Len(taken'[t]) = n + 1 /\ taken'[t][1] = s
      /\ \A d \in 0 .. n - 1 : taken'[t][n + 1 - d] = taken[t][n - d]
      /\ \A u \in Threads \ {t} : taken'[u] = taken[u]
  BY SMTT(30), StackCons DEF TakenType
<1>2. /\ Batch(t, n)' = s
      /\ \A d \in Nat : d < n => Batch(t, d)' = Batch(t, d)
  BY <1>1 DEF Batch
<1>3. n <= Len(taken[t]) /\ n <= Len(taken'[t])
  BY <1>1
<1>4. \A u \in Threads : \A c, i \in Nat :
        ~(u = t /\ c >= n) => /\ <<u, c, i>> \in TakenOut' <=> <<u, c, i>> \in TakenOut
                             /\ EntryAt(<<u, c, i>>)' = EntryAt(<<u, c, i>>)
  BY Zenon, <1>1, <1>2, <1>3, KeptBatches
<1>5. \A c, i \in Nat : /\ <<t, c, i>> \in TakenOut => c < n
                        /\ <<t, c, i>> \in TakenOut' <=> c < n + 1 /\ i < Len(Batch(t, c)')
  BY ZenonT(40), <1>1, InTakenOut, InTakenOutNext
<1>6. \A i \in 0 .. Len(s) - 1 : EntryAt(<<t, n, i>>)' = s[Len(s) - i]
  BY Zenon, <1>2 DEF EntryAt
<1>7. /\ \A p \in TakenOut : \E u \in Threads : \E c, i \in Nat : p = <<u, c, i>>
      /\ \A p \in TakenOut' : \E u \in Threads : \E c, i \in Nat : p = <<u, c, i>>
  BY Zenon, <1>1, InTakenOut, InTakenOutNext
<1> HIDE DEF TakenType
<1>8. ASSUME NEW p \in TakenOut PROVE EntryAt(p)' = EntryAt(p) /\ p \in TakenOut'
  <2>1. PICK u \in Threads, c \in Nat, i \in Nat : p = <<u, c, i>>
    BY Zenon, <1>7
  <2>2. ~(u = t /\ c >= n)
    BY <2>1, <1>1, <1>5
  <2> QED
    BY Zenon, <2>1, <2>2, <1>4
<1>9. ASSUME NEW i \in 0 .. Len(s) - 1 PROVE <<t, n, i>> \in TakenOut'
  <2>1. i \in Nat /\ i < Len(s) /\ n < n + 1
    BY ONLY <1>1, i \in 0 .. Len(s) - 1
  <2> QED
    BY Zenon, <2>1, <1>1, <1>2, <1>5
<1>10. ASSUME NEW p \in TakenOut' PROVE p \in TakenOut \union ({t} \X {n} \X (0 .. Len(s) - 1))
  <2>1. PICK u \in Threads, c \in Nat, i \in Nat : p = <<u, c, i>>
    BY <1>7
  <2>2. CASE u = t /\ c >= n
    <3>1. c = n /\ i \in 0 .. Len(s) - 1
      BY <2>1, <2>2, <1>1, <1>2, <1>5
    <3> QED
      BY <2>1, <2>2, <3>1
  <2>3. CASE ~(u = t /\ c >= n)
    BY <2>1, <2>3, <1>4
  <2> QED
    BY <2>2, <2>3
<1>11. \A i \in Nat : <<t, n, i>> \notin TakenOut
  BY <1>1, <1>5
<1>12. TakenOut' = TakenOut \union ({t} \X {n} \X (0 .. Len(s) - 1))
  BY <1>8, <1>9, <1>10
<1> QED
  BY <1>1, <1>6, <1>8, <1>11, <1>12

(* The innermost call begins its next entry: one place is given up. *)
LEMMA BeginEntry ==
  ASSUME TakenType, NEW t \in Threads, taken[t] # <<>>, taken[t][1] # <<>>,
         NEW n, n = Len(taken[t]) - 1, NEW m, m = Len(taken[t][1]) - 1,
         taken' = [taken EXCEPT ![t] = <<Tail(@[1])>> \o Tail(@)]
  PROVE  /\ TakenType'
         /\ <<t, n, m>> \in TakenOut /\ TakenOut' = TakenOut \ {<<t, n, m>>}
         /\ EntryAt(<<t, n, m>>) = taken[t][1][1] /\ taken[t][1][1] \in Entries
         /\ \A p \in TakenOut' : EntryAt(p)' = EntryAt(p)
<1>0. PICK s : s = taken[t][1]
  BY Zenon
<1>1. /\ s \in Seq(Entries) /\ n \in Nat /\ m \in Nat /\ Len(s) = m + 1 /\ Len(taken[t]) = n + 1
      /\ Tail(s) \in Seq(Entries) /\ Len(Tail(s)) = m /\ s[1] \in Entries
      /\ \A d \in 0 .. m - 1 : Tail(s)[m - d] = s[m + 1 - d]
  <2>1. taken[t] \in Seq(Seq(Entries))
    BY DEF TakenType
  <2>2. s \in Seq(Entries) /\ Len(taken[t]) \in Nat \ {0}
    BY <1>0, <2>1, StackTail
  <2>3. /\ Tail(s) \in Seq(Entries) /\ Len(Tail(s)) = Len(s) - 1 /\ s[1] \in Entries
        /\ Len(s) \in Nat \ {0}
        /\ \A d \in 0 .. Len(s) - 2 : Tail(s)[Len(s) - 1 - d] = s[Len(s) - d]
    BY <1>0, <2>2, StackTail
  <2> QED
    BY <1>0, <2>2, <2>3
<1>2. /\ TakenType'
      /\ Len(taken'[t]) = n + 1 /\ taken'[t][1] = Tail(s)
      /\ \A d \in 0 .. n - 1 : taken'[t][n + 1 - d] = taken[t][n + 1 - d]
      /\ \A u \in Threads \ {t} : taken'[u] = taken[u]
  <2>1. /\ Tail(taken[t]) \in Seq(Seq(Entries)) /\ Len(Tail(taken[t])) = n
        /\ \A d \in 0 .. n - 1 : Tail(taken[t])[n - d] = taken[t][n + 1 - d]
    BY <1>1, StackTail DEF TakenType
  <2>2. taken'[t] = <<Tail(s)>> \o Tail(taken[t])
    BY Zenon, <1>0 DEF TakenType
  <2>3. PICK x, r : x = Tail(s) /\ r = Tail(taken[t])
    BY Zenon
  <2>4. /\ <<x>> \o r \in Seq(Seq(Entries)) /\ Len(<<x>> \o r) = Len(r) + 1 /\ (<<x>> \o r)[1] = x
        /\ \A d \in 0 .. Len(r) - 1 : (<<x>> \o r)[Len(r) + 1 - d] = r[Len(r) - d]
    <3>1. x \in Seq(Entries) /\ r \in Seq(Seq(Entries))
      BY Zenon, <1>1, <2>1, <2>3
    <3> QED
      BY ONLY <3>1, StackCons
  <2>5. taken'[t] = <<x>> \o r /\ Len(r) = n
    BY Zenon, <2>1, <2>2, <2>3
  <2>6. /\ taken'[t] \in Seq(Seq(Entries)) /\ Len(taken'[t]) = n + 1 /\ taken'[t][1] = Tail(s)
        /\ \A d \in 0 .. n - 1 : taken'[t][n + 1 - d] = Tail(taken[t])[n - d]
    BY ONLY Zenon, <2>3, <2>4, <2>5
  <2>7. TakenType' /\ \A u \in Threads \ {t} : taken'[u] = taken[u]
    BY Zenon, <2>6 DEF TakenType
  <2> QED
    BY ONLY Zenon, <2>1, <2>6, <2>7
<1>3. (n + 1) - n = 1
  BY <1>1
<1>4. Batch(t, n) = s /\ Batch(t, n)' = Tail(s)
  BY Zenon, <1>0, <1>1, <1>2, <1>3 DEF Batch
<1>5. \A d \in Nat : d < n => Batch(t, d)' = Batch(t, d)
  BY <1>1, <1>2 DEF Batch
<1>6. n <= Len(taken[t]) /\ n <= Len(taken'[t])
  BY <1>1, <1>2
<1>7. \A u \in Threads : \A c, i \in Nat :
        ~(u = t /\ c >= n) => /\ <<u, c, i>> \in TakenOut' <=> <<u, c, i>> \in TakenOut
                             /\ EntryAt(<<u, c, i>>)' = EntryAt(<<u, c, i>>)
  BY Zenon, <1>1, <1>2, <1>5, <1>6, KeptBatches
<1>8. \A c, i \in Nat : /\ <<t, c, i>> \in TakenOut <=> c < n + 1 /\ i < Len(Batch(t, c))
                        /\ <<t, c, i>> \in TakenOut' <=> c < n + 1 /\ i < Len(Batch(t, c)')
  <2>1. TakenType /\ TakenType' /\ Len(taken[t]) = n + 1 /\ Len(taken'[t]) = n + 1
    BY Zenon, <1>1, <1>2
  <2>2. \A c, i \in Nat : <<t, c, i>> \in TakenOut <=> c < n + 1 /\ i < Len(Batch(t, c))
    BY Zenon, <2>1, InTakenOut
  <2>3. \A c, i \in Nat : <<t, c, i>> \in TakenOut' <=> c < n + 1 /\ i < Len(Batch(t, c)')
    BY Zenon, <2>1, InTakenOutNext
  <2> QED
    BY ONLY Zenon, <2>2, <2>3
<1>9. \A i \in Nat : /\ <<t, n, i>> \in TakenOut <=> i < m + 1
                     /\ <<t, n, i>> \in TakenOut' <=> i < m
                     /\ i < m => EntryAt(<<t, n, i>>)' = EntryAt(<<t, n, i>>)
  <2>0. Len(Batch(t, n)) = m + 1 /\ Len(Batch(t, n)') = m /\ n < n + 1
    BY ONLY <1>1, <1>4
  <2>1. \A i \in Nat : /\ <<t, n, i>> \in TakenOut <=> i < m + 1
                       /\ <<t, n, i>> \in TakenOut' <=> i < m
    BY ONLY <1>1, <1>8, <2>0
  <2>2. \A i \in Nat : i < m => Tail(s)[m - i] = s[(m + 1) - i]
    <3>1. \A i \in Nat : i < m => i \in 0 .. m - 1 /\ m + 1 - i = (m + 1) - i
      BY <1>1
    <3> QED
      BY Zenon, <1>1, <3>1
  <2>3. \A i \in Nat : EntryAt(<<t, n, i>>) = s[(m + 1) - i] /\ EntryAt(<<t, n, i>>)' = Tail(s)[m - i]
    <3>1. \A i \in Nat : EntryAt(<<t, n, i>>) = Batch(t, n)[Len(Batch(t, n)) - i]
      BY ONLY Zenon DEF EntryAt
    <3>2. \A i \in Nat : EntryAt(<<t, n, i>>)' = Batch(t, n)'[Len(Batch(t, n)') - i]
      BY ONLY Zenon DEF EntryAt
    <3> QED
      BY ONLY Zenon, <1>4, <2>0, <3>1, <3>2
  <2> QED
    BY ONLY Zenon, <2>1, <2>2, <2>3
<1>10. /\ \A p \in TakenOut : \E u \in Threads : \E c, i \in Nat : p = <<u, c, i>>
       /\ \A p \in TakenOut' : \E u \in Threads : \E c, i \in Nat : p = <<u, c, i>>
  BY <1>2, InTakenOut, InTakenOutNext
<1>11. <<t, n, m>> \in TakenOut /\ <<t, n, m>> \notin TakenOut' /\ EntryAt(<<t, n, m>>) = s[1]
  <2>1. EntryAt(<<t, n, m>>) = s[Len(s) - m] /\ Len(s) - m = 1
    BY ONLY <1>1, <1>4 DEF EntryAt
  <2> QED
    BY SMTT(30), <1>1, <1>9, <2>1
<1>12. ASSUME NEW u \in Threads, NEW c \in Nat, NEW i \in Nat
       PROVE  /\ <<u, c, i>> \in TakenOut' => <<u, c, i>> \in TakenOut
                                            /\ EntryAt(<<u, c, i>>)' = EntryAt(<<u, c, i>>)
              /\ <<u, c, i>> \in TakenOut => <<u, c, i>> \in TakenOut' \/ <<u, c, i>> = <<t, n, m>>
  <2>1. CASE u = t /\ c = n
    <3>1. i < m + 1 => i < m \/ i = m
      BY <1>1
    <3> QED
      BY SMTT(30), <2>1, <3>1, <1>1, <1>9
  <2>2. CASE ~(u = t /\ c >= n)
    BY Zenon, <2>2, <1>7
  <2>3. CASE u = t /\ c >= n /\ c # n
    <3>1. ~(c < n + 1)
      BY <2>3, <1>1
    <3> QED
      BY <2>3, <3>1, <1>8
  <2> QED
    BY SMTT(30), <2>1, <2>2, <2>3
<1>13. \A p \in TakenOut' : p \in TakenOut /\ EntryAt(p)' = EntryAt(p)
  BY <1>10, <1>12
<1>14. ASSUME NEW p \in TakenOut PROVE p \in TakenOut' \/ p = <<t, n, m>>
  <2>1. PICK u \in Threads, c \in Nat, i \in Nat : p = <<u, c, i>>
    BY Zenon, <1>10
  <2> QED
    BY Zenon, <2>1, <1>12
<1> QED
  BY Zenon, <1>0, <1>1, <1>2, <1>11, <1>13, <1>14

(* A call that has nothing left to begin ends. *)
LEMMA EndBatch ==
  ASSUME TakenType, NEW t \in Threads,
         taken[t] # <<>>, taken[t][1] = <<>>, taken' = [taken EXCEPT ![t] = Tail(@)]
  PROVE  /\ TakenType' /\ TakenOut' = TakenOut
         /\ \A p \in TakenOut : EntryAt(p)' = EntryAt(p)
<1>0. PICK n \in Nat : Len(taken[t]) = n + 1
  <2>1. Len(taken[t]) \in Nat \ {0}
    BY Zenon, StackTail DEF TakenType
  <2>2. Len(taken[t]) - 1 \in Nat /\ Len(taken[t]) = (Len(taken[t]) - 1) + 1
    BY <2>1
  <2> QED
    BY Zenon, <2>2
<1>1. /\ TakenType' /\ Len(taken'[t]) = n
      /\ \A d \in 0 .. n - 1 : taken'[t][n - d] = taken[t][n + 1 - d]
      /\ \A u \in Threads \ {t} : taken'[u] = taken[u]
  <2>1. /\ Tail(taken[t]) \in Seq(Seq(Entries)) /\ Len(Tail(taken[t])) = n
        /\ \A d \in 0 .. n - 1 : Tail(taken[t])[n - d] = taken[t][n + 1 - d]
    BY <1>0, StackTail DEF TakenType
  <2> QED
    BY Zenon, <2>1 DEF TakenType
<1>2. Batch(t, n) = <<>>
  <2>1. (n + 1) - n = 1
    BY <1>0
  <2> QED
    BY Zenon, <1>0, <2>1 DEF Batch
<1>3. \A d \in Nat : d < n => Batch(t, d)' = Batch(t, d)
  BY <1>0, <1>1 DEF Batch
<1>4. n <= Len(taken[t]) /\ n <= Len(taken'[t])
  BY <1>0, <1>1
<1>5. \A u \in Threads : \A c, i \in Nat :
        ~(u = t /\ c >= n) => /\ <<u, c, i>> \in TakenOut' <=> <<u, c, i>> \in TakenOut
                             /\ EntryAt(<<u, c, i>>)' = EntryAt(<<u, c, i>>)
  BY ZenonT(40), <1>1, <1>3, <1>4, KeptBatches
<1>6. \A c, i \in Nat : /\ <<t, c, i>> \in TakenOut <=> c < n + 1 /\ i < Len(Batch(t, c))
                        /\ <<t, c, i>> \in TakenOut' => c < n
  BY <1>0, <1>1, InTakenOut, InTakenOutNext
<1>7. /\ \A p \in TakenOut : \E u \in Threads : \E c, i \in Nat : p = <<u, c, i>>
      /\ \A p \in TakenOut' : \E u \in Threads : \E c, i \in Nat : p = <<u, c, i>>
  BY <1>1, InTakenOut, InTakenOutNext
<1>8. ASSUME NEW u \in Threads, NEW c \in Nat, NEW i \in Nat
      PROVE  /\ <<u, c, i>> \in TakenOut' <=> <<u, c, i>> \in TakenOut
             /\ <<u, c, i>> \in TakenOut => EntryAt(<<u, c, i>>)' = EntryAt(<<u, c, i>>)
  <2>1. CASE ~(u = t /\ c >= n)
    BY <2>1, <1>5
  <2>2. CASE u = t /\ c >= n
    <3>1. <<u, c, i>> \notin TakenOut'
      BY <2>2, <1>0, <1>6
    <3>2. <<u, c, i>> \notin TakenOut
      <4>1. Len(Batch(t, n)) = 0
        BY <1>2
      <4>2. c < n + 1 => c = n
        BY <2>2, <1>0
      <4> QED
        BY <2>2, <4>1, <4>2, <1>6
    <3> QED
      BY Zenon, <3>1, <3>2
  <2> QED
    BY <2>1, <2>2
<1>9. \A p \in TakenOut : p \in TakenOut' /\ EntryAt(p)' = EntryAt(p)
  BY <1>7, <1>8
<1>10. \A p \in TakenOut' : p \in TakenOut
  BY <1>7, <1>8
<1> QED
  BY Zenon, <1>1, <1>9, <1>10

-----------------------------------------------------------------------------
(* Nothing is lost *)

(* What the proofs use of the cardinalities of finite sets. CountingHolds   *)
(* shows at the end that it is so, once, from the library's theorems.      *)
Counting ==
  /\ IsFiniteSet({}) /\ Cardinality({}) = 0
  /\ \A S : IsFiniteSet(S) => Cardinality(S) \in Nat /\ (Cardinality(S) = 0 => S = {})
  /\ \A S, x : IsFiniteSet(S) /\ x \notin S =>
       IsFiniteSet(S \union {x}) /\ Cardinality(S \union {x}) = Cardinality(S) + 1
  /\ \A S, x : IsFiniteSet(S) /\ x \in S =>
       IsFiniteSet(S \ {x}) /\ Cardinality(S \ {x}) = Cardinality(S) - 1

(* As much of it as moving a whole batch needs. *)
CountingUnions ==
  \A S, T : IsFiniteSet(S) /\ IsFiniteSet(T) /\ S \intersect T = {} =>
    IsFiniteSet(S \union T) /\ Cardinality(S \union T) = Cardinality(S) + Cardinality(T)

CountingImages ==
  \A S, T, f : /\ IsFiniteSet(S) /\ f \in [S -> T]
               /\ \A x, y \in S : f[x] = f[y] => x = y
               /\ \A z \in T : \E x \in S : f[x] = z
               => IsFiniteSet(T) /\ Cardinality(T) = Cardinality(S)

(* The lemmas about counts cite it in these forms. *)
LEMMA CountNat == ASSUME Counting, NEW S, IsFiniteSet(S) PROVE Cardinality(S) \in Nat
BY Zenon DEF Counting

(* Nothing is none. *)
LEMMA CountNone == ASSUME Counting PROVE IsFiniteSet({}) /\ Cardinality({}) = 0
BY Zenon DEF Counting

(* One more. *)
LEMMA CountAdd ==
  ASSUME Counting, NEW S, IsFiniteSet(S), NEW x, x \notin S, NEW T, T = S \union {x}
  PROVE  IsFiniteSet(T) /\ Cardinality(T) = Cardinality(S) + 1 /\ Cardinality(S) \in Nat
BY Zenon DEF Counting

(* One less. *)
LEMMA CountRemove ==
  ASSUME Counting, NEW S, IsFiniteSet(S), NEW x \in S, NEW T, T = S \ {x}
  PROVE  /\ IsFiniteSet(T) /\ Cardinality(T) = Cardinality(S) - 1
         /\ Cardinality(S) \in Nat /\ Cardinality(T) \in Nat /\ Cardinality(S) >= 1
<1>1. IsFiniteSet(T) /\ Cardinality(T) = Cardinality(S) - 1
  BY Zenon DEF Counting
<1>2. Cardinality(S) \in Nat /\ Cardinality(T) \in Nat
  BY Zenon, <1>1, CountNat
<1> QED
  BY <1>1, <1>2

(* As many in another place. *)
LEMMA CountImage ==
  ASSUME CountingImages, NEW S, IsFiniteSet(S), NEW T, NEW f \in [S -> T],
         \A x, y \in S : f[x] = f[y] => x = y, \A z \in T : \E x \in S : f[x] = z
  PROVE  IsFiniteSet(T) /\ Cardinality(T) = Cardinality(S)
BY DEF CountingImages

(* The releases of e are where they wait, and as many as are owed. *)
Counted(e) ==
  /\ IsFiniteSet(Queued(e)) /\ IsFiniteSet(Asking(e)) /\ IsFiniteSet(Swapped(e))
  /\ owed[e] = Cardinality(Queued(e)) + Cardinality(Asking(e)) + Cardinality(Swapped(e))

(* Every release that is owed waits in one place. *)
WaitOK ==
  /\ entries \in Seq(Entries) /\ TakenType /\ owed \in [Entries -> Nat]
  /\ arg \in [Threads -> Entries \union {None}]
  /\ \A t \in Threads : arg[t] # None <=> place[t] = "push"
  /\ \A e \in Entries : Counted(e)

(* The inductive invariant of the queue. *)
QueueInv == FlagInv /\ WaitOK

(* Nothing waits at the start. *)
LEMMA InitQueueInv == ASSUME Counting PROVE QueueInit => QueueInv
<1> SUFFICES ASSUME QueueInit PROVE WaitOK
  BY Zenon, InitFlagInv DEF QueueInv
<1>1. \A e \in Entries : Queued(e) = {} /\ Asking(e) = {} /\ Swapped(e) = {}
  <2>1. TakenOut = {}
    BY DEF QueueInit, TakenOut
  <2> QED
    BY <2>1, NoneIsNoEntry DEF QueueInit, Queued, Asking, Swapped
<1>2. \A e \in Entries : Counted(e)
  <2>1. IsFiniteSet({}) /\ Cardinality({}) = 0
    BY Zenon, CountNone
  <2>2. \A e \in Entries : owed[e] = 0
    BY Zenon DEF QueueInit
  <2> QED
    BY ONLY <1>1, <2>1, <2>2 DEF Counted
<1> QED
  BY <1>2 DEF QueueInit, WaitOK, TakenType

(* What a step leaves alone *)
LEMMA SameQueued == ASSUME entries' = entries, NEW e PROVE Queued(e)' = Queued(e)
BY Zenon DEF Queued

(* the threads that ask, *)
LEMMA SameAsking == ASSUME arg' = arg, NEW e PROVE Asking(e)' = Asking(e)
BY Zenon DEF Asking

(* what is swapped out, *)
LEMMA SameSwapped == ASSUME taken' = taken, NEW e PROVE Swapped(e)' = Swapped(e)
BY DEF Swapped, TakenOut, EntryAt, Batch

(* and the releases of an entry. *)
LEMMA SameCounted ==
  ASSUME WaitOK, entries' = entries, arg' = arg, taken' = taken, owed' = owed,
         NEW e \in Entries
  PROVE  Counted(e)'
BY Zenon, SameQueued, SameAsking, SameSwapped DEF WaitOK, Counted

(* A thread asks for the release of e. *)
LEMMA AskMore ==
  ASSUME QueueInv, NEW t \in Threads, NEW e \in Entries, place[t] # "push",
         arg' = [arg EXCEPT ![t] = e]
  PROVE  /\ t \notin Asking(e) /\ Asking(e)' = Asking(e) \union {t}
         /\ \A f \in Entries \ {e} : Asking(f)' = Asking(f)
BY Zenon, NoneIsNoEntry DEF QueueInv, WaitOK, Asking

(* A thread asks no longer. *)
LEMMA AskLess ==
  ASSUME QueueInv, NEW t \in Threads, NEW e \in Entries, arg[t] = e,
         arg' = [arg EXCEPT ![t] = None]
  PROVE  /\ t \in Asking(e) /\ Asking(e)' = Asking(e) \ {t}
         /\ \A f \in Entries \ {e} : Asking(f)' = Asking(f)
BY Zenon, NoneIsNoEntry DEF QueueInv, WaitOK, Asking

(* deferRelease is called. *)
LEMMA WaitDefer == ASSUME Counting, QueueInv, NEW t \in Threads, NEW e \in Entries, Defer(t, e) PROVE WaitOK'
<1>1. /\ place[t] = "out" /\ place' = [place EXCEPT ![t] = "push"] /\ arg' = [arg EXCEPT ![t] = e]
      /\ owed' = [owed EXCEPT ![e] = @ + 1] /\ entries' = entries /\ taken' = taken
      /\ place \in [Threads -> {"out", "push", "flag", "lock", "swap", "clear"}]
  BY Zenon DEF Defer, At, QueueInv, FlagInv, MutexOK
<1>2. /\ t \notin Asking(e) /\ Asking(e)' = Asking(e) \union {t}
      /\ \A f \in Entries \ {e} : Asking(f)' = Asking(f)
  BY Zenon, <1>1, AskMore
<1>3. \A f : Queued(f)' = Queued(f) /\ Swapped(f)' = Swapped(f)
  BY <1>1, SameQueued, SameSwapped
<1>4. owed' \in [Entries -> Nat] /\ \A f \in Entries : owed'[f] = IF f = e THEN owed[e] + 1 ELSE owed[f]
  BY <1>1 DEF QueueInv, WaitOK
<1>5. Counted(e)'
  <2>1. IsFiniteSet(Asking(e)') /\ Cardinality(Asking(e)') = Cardinality(Asking(e)) + 1
    BY <1>2, CountAdd DEF QueueInv, WaitOK, Counted
  <2>2. Cardinality(Queued(e)) \in Nat /\ Cardinality(Asking(e)) \in Nat /\ Cardinality(Swapped(e)) \in Nat
    BY Zenon, CountNat DEF QueueInv, WaitOK, Counted
  <2> QED
    BY SMTT(30), <1>3, <1>4, <2>1, <2>2 DEF QueueInv, WaitOK, Counted
<1>6. \A f \in Entries \ {e} : Counted(f)'
  BY <1>2, <1>3, <1>4 DEF QueueInv, WaitOK, Counted
<1>7. \A u \in Threads : arg'[u] # None <=> place'[u] = "push"
  BY Zenon, <1>1, NoneIsNoEntry DEF QueueInv, WaitOK
<1> QED
  BY SMTT(30), <1>1, <1>4, <1>5, <1>6, <1>7 DEF QueueInv, WaitOK, TakenType

(* The release is queued. *)
LEMMA WaitPush == ASSUME Counting, QueueInv, NEW t \in Threads, Push(t) PROVE WaitOK'
<1>1. PICK e : e = arg[t]
  BY Zenon
<1>2. /\ place[t] = "push" /\ place' = [place EXCEPT ![t] = "flag"] /\ arg' = [arg EXCEPT ![t] = None]
      /\ owed' = owed /\ entries' = Append(entries, e) /\ taken' = taken
      /\ place \in [Threads -> {"out", "push", "flag", "lock", "swap", "clear"}]
  BY Zenon, <1>1 DEF Push, At, QueueInv, FlagInv, MutexOK
<1>3. e \in Entries /\ arg[t] = e
  BY <1>1, <1>2 DEF QueueInv, WaitOK
<1>4. /\ t \in Asking(e) /\ Asking(e)' = Asking(e) \ {t}
      /\ \A f \in Entries \ {e} : Asking(f)' = Asking(f)
  BY Zenon, <1>2, <1>3, AskLess
<1>5. PICK n \in Nat : n = Len(entries)
  BY DEF QueueInv, WaitOK
<1>6. /\ entries' \in Seq(Entries) /\ Len(entries') = n + 1 /\ entries'[n + 1] = e
      /\ \A i \in 1 .. n : entries'[i] = entries[i]
  BY <1>2, <1>3, <1>5 DEF QueueInv, WaitOK
<1>7. /\ n + 1 \notin Queued(e) /\ Queued(e)' = Queued(e) \union {n + 1}
      /\ \A f \in Entries \ {e} : Queued(f)' = Queued(f)
  <2>1. DOMAIN entries = 1 .. n /\ DOMAIN entries' = 1 .. n + 1
    BY <1>5, <1>6 DEF QueueInv, WaitOK
  <2>2. 1 .. n + 1 = (1 .. n) \union {n + 1} /\ n + 1 \notin 1 .. n
    BY <1>5
  <2> QED
    BY <1>6, <2>1, <2>2 DEF Queued
<1>8. \A f : Swapped(f)' = Swapped(f)
  BY SMTT(30), <1>2, SameSwapped
<1>9. Counted(e)'
  <2>1. IsFiniteSet(Asking(e)') /\ Cardinality(Asking(e)') = Cardinality(Asking(e)) - 1
    BY <1>3, <1>4, CountRemove DEF QueueInv, WaitOK, Counted
  <2>2. IsFiniteSet(Queued(e)') /\ Cardinality(Queued(e)') = Cardinality(Queued(e)) + 1
    BY <1>7, <1>3, CountAdd DEF QueueInv, WaitOK, Counted
  <2>3. Cardinality(Queued(e)) \in Nat /\ Cardinality(Asking(e)) \in Nat /\ Cardinality(Swapped(e)) \in Nat
    BY Zenon, <1>3, CountNat DEF QueueInv, WaitOK, Counted
  <2> QED
    BY SMTT(30), <1>2, <1>3, <1>8, <2>1, <2>2, <2>3 DEF QueueInv, WaitOK, Counted
<1>10. \A f \in Entries \ {e} : Counted(f)'
  BY <1>2, <1>4, <1>7, <1>8 DEF QueueInv, WaitOK, Counted
<1>11. \A u \in Threads : arg'[u] # None <=> place'[u] = "push"
  BY Zenon, <1>2 DEF QueueInv, WaitOK
<1>12. arg' \in [Threads -> Entries \union {None}]
  BY <1>2 DEF QueueInv, WaitOK
<1> QED
  BY SMTT(30), <1>2, <1>6, <1>9, <1>10, <1>11, <1>12 DEF QueueInv, WaitOK, TakenType

(* The release could not be queued, and its caller makes it. *)
LEMMA WaitPushFails == ASSUME Counting, QueueInv, NEW t \in Threads, PushFails(t) PROVE WaitOK'
<1>1. PICK e : e = arg[t]
  BY Zenon
<1>2. /\ place[t] = "push" /\ place' = [place EXCEPT ![t] = "out"] /\ arg' = [arg EXCEPT ![t] = None]
      /\ owed' = [owed EXCEPT ![e] = @ - 1] /\ entries' = entries /\ taken' = taken
      /\ place \in [Threads -> {"out", "push", "flag", "lock", "swap", "clear"}]
  BY Zenon, <1>1 DEF PushFails, At, QueueInv, FlagInv, MutexOK
<1>3. e \in Entries /\ arg[t] = e
  BY <1>1, <1>2 DEF QueueInv, WaitOK
<1>4. /\ t \in Asking(e) /\ Asking(e)' = Asking(e) \ {t}
      /\ \A f \in Entries \ {e} : Asking(f)' = Asking(f)
  BY Zenon, <1>2, <1>3, AskLess
<1>5. \A f : Queued(f)' = Queued(f) /\ Swapped(f)' = Swapped(f)
  BY <1>2, SameQueued, SameSwapped
<1>6. \A f \in Entries : owed[f] \in Nat /\ owed'[f] = IF f = e THEN owed[e] - 1 ELSE owed[f]
  BY <1>2 DEF QueueInv, WaitOK
<1>7. Counted(e)' /\ owed'[e] \in Nat
  <2>1. /\ IsFiniteSet(Asking(e)') /\ Cardinality(Asking(e)') = Cardinality(Asking(e)) - 1
        /\ Cardinality(Asking(e)') \in Nat
    BY SMTT(30), <1>3, <1>4, CountRemove DEF QueueInv, WaitOK, Counted
  <2>2. Cardinality(Queued(e)) \in Nat /\ Cardinality(Asking(e)) \in Nat /\ Cardinality(Swapped(e)) \in Nat
    BY SMTT(30), <1>3, CountNat DEF QueueInv, WaitOK, Counted
  <2> QED
    BY SMTT(30), <1>3, <1>5, <1>6, <2>1, <2>2 DEF QueueInv, WaitOK, Counted
<1>8. \A f \in Entries \ {e} : Counted(f)'
  BY <1>4, <1>5, <1>6 DEF QueueInv, WaitOK, Counted
<1>9. \A u \in Threads : arg'[u] # None <=> place'[u] = "push"
  BY Zenon, <1>2 DEF QueueInv, WaitOK
<1>10. arg' \in [Threads -> Entries \union {None}] /\ owed' \in [Entries -> Nat]
  BY Zenon, <1>2, <1>6, <1>7 DEF QueueInv, WaitOK
<1> QED
  BY SMTT(30), <1>2, <1>7, <1>8, <1>9, <1>10 DEF QueueInv, WaitOK, TakenType

(* A swap moves the entries, each to a place of its own. *)
LEMMA WaitSwap ==
  ASSUME Counting, CountingUnions, CountingImages, QueueInv, NEW t \in Threads, Swap(t)
  PROVE  WaitOK'
<1>1. PICK n, k, s : n = Len(taken[t]) /\ k = Len(s) /\ s = entries
  BY Zenon
<1>2. /\ place[t] = "swap" /\ place' = [place EXCEPT ![t] = "clear"] /\ arg' = arg
      /\ owed' = owed /\ entries' = <<>> /\ taken' = [taken EXCEPT ![t] = <<entries>> \o @]
      /\ place \in [Threads -> {"out", "push", "flag", "lock", "swap", "clear"}]
  BY Zenon DEF Swap, At, QueueInv, FlagInv, MutexOK
<1>3. /\ TakenType' /\ n \in Nat
      /\ TakenOut' = TakenOut \union ({t} \X {n} \X (0 .. k - 1))
      /\ \A i \in Nat : <<t, n, i>> \notin TakenOut
      /\ \A p \in TakenOut : EntryAt(p)' = EntryAt(p)
      /\ \A i \in 0 .. k - 1 : EntryAt(<<t, n, i>>)' = entries[k - i]
  <2>1. /\ TakenType /\ t \in Threads /\ s \in Seq(Entries) /\ n = Len(taken[t])
        /\ taken' = [taken EXCEPT ![t] = <<s>> \o @]
    BY Zenon, <1>1, <1>2 DEF QueueInv, WaitOK
  <2>2. /\ TakenType' /\ n \in Nat
        /\ TakenOut' = TakenOut \union ({t} \X {n} \X (0 .. Len(s) - 1))
        /\ \A i \in Nat : <<t, n, i>> \notin TakenOut
        /\ \A p \in TakenOut : EntryAt(p)' = EntryAt(p)
        /\ \A i \in 0 .. Len(s) - 1 : EntryAt(<<t, n, i>>)' = s[Len(s) - i]
    BY ONLY ZenonT(40), <2>1, TakeBatch
  <2> QED
    BY Zenon, <1>1, <2>2
<1>4. k \in Nat /\ DOMAIN entries = 1 .. k
  BY <1>1 DEF QueueInv, WaitOK
<1>5. \A e : Queued(e)' = {} /\ Asking(e)' = Asking(e)
  BY <1>2, SameAsking DEF Queued
<1>6. ASSUME NEW e \in Entries PROVE Counted(e)'
  <2> DEFINE F == [i \in Queued(e) |-> <<t, n, k - i>>]
             M == {<<t, n, k - i>> : i \in Queued(e)}
  <2>1. Queued(e) \subseteq 1 .. k /\ \A i \in Queued(e) : k - i \in 0 .. k - 1 /\ k - i \in Nat
    BY <1>4 DEF Queued
  <2>2. /\ F \in [Queued(e) -> M] /\ \A p \in M : \E i \in Queued(e) : F[i] = p
        /\ \A i, j \in Queued(e) : F[i] = F[j] => i = j
    <3>1. F \in [Queued(e) -> M]
      BY Zenon
    <3>2. \A i, j \in Queued(e) : F[i] = F[j] => i = j
      BY <2>1, <1>4
    <3>3. \A p \in M : \E i \in Queued(e) : F[i] = p
      BY Zenon
    <3> QED
      BY Zenon, <3>1, <3>2, <3>3
  <2>3. IsFiniteSet(M) /\ Cardinality(M) = Cardinality(Queued(e))
    <3> HIDE DEF F, M
    <3>1. IsFiniteSet(Queued(e))
      BY Zenon DEF QueueInv, WaitOK, Counted
    <3> QED
      BY <2>2, <3>1, CountImage
  <2>4. M \intersect Swapped(e) = {}
    BY Zenon, <2>1, <1>3 DEF Swapped
  <2>5. Swapped(e)' = Swapped(e) \union M
    <3>1. \A p \in Swapped(e) : p \in Swapped(e)'
      BY Zenon, <1>3 DEF Swapped
    <3>2. \A i \in Queued(e) : <<t, n, k - i>> \in Swapped(e)'
      <4> SUFFICES ASSUME NEW i \in Queued(e) PROVE <<t, n, k - i>> \in Swapped(e)'
        BY Zenon
      <4>1. i \in 1 .. k /\ k - i \in 0 .. k - 1 /\ k - (k - i) = i
        BY <2>1, <1>4
      <4>2. EntryAt(<<t, n, k - i>>)' = entries[i]
        BY Zenon, <4>1, <1>3
      <4>3. <<t, n, k - i>> \in TakenOut'
        BY Zenon, <4>1, <1>3
      <4> QED
        BY Zenon, <4>2, <4>3 DEF Swapped, Queued
    <3>3. ASSUME NEW p \in Swapped(e)', p \notin Swapped(e) PROVE p \in M
      <4>1. p \in TakenOut' /\ EntryAt(p)' = e /\ p \notin TakenOut
        BY Zenon, <3>3, <1>3 DEF Swapped
      <4>2. PICK i \in 0 .. k - 1 : p = <<t, n, i>>
        BY <4>1, <1>3
      <4>3. entries[k - i] = e /\ k - i \in 1 .. k /\ k - (k - i) = i
        BY SMTT(30), <4>1, <4>2, <1>3, <1>4
      <4>4. k - i \in Queued(e)
        BY Zenon, <4>3, <1>4 DEF Queued
      <4> QED
        BY <4>2, <4>3, <4>4
    <3> QED
      BY Zenon, <3>1, <3>2, <3>3
  <2>6. /\ IsFiniteSet(Swapped(e)')
        /\ Cardinality(Swapped(e)') = Cardinality(Swapped(e)) + Cardinality(Queued(e))
    <3> HIDE DEF M
    <3>1. IsFiniteSet(Swapped(e)) /\ Cardinality(Swapped(e)) \in Nat /\ Cardinality(M) \in Nat
      BY Zenon, <2>3, CountNat DEF QueueInv, WaitOK, Counted
    <3>2. Swapped(e) \intersect M = {}
      BY Zenon, <2>4
    <3>3. /\ IsFiniteSet(Swapped(e) \union M)
          /\ Cardinality(Swapped(e) \union M) = Cardinality(Swapped(e)) + Cardinality(M)
      BY Zenon, <2>3, <3>1, <3>2 DEF CountingUnions
    <3> QED
      BY SMTT(30), <2>3, <2>5, <3>1, <3>2, <3>3
  <2>7. Cardinality(Queued(e)) \in Nat /\ Cardinality(Asking(e)) \in Nat /\ Cardinality(Swapped(e)) \in Nat
    BY Zenon, CountNat DEF QueueInv, WaitOK, Counted
  <2> HIDE DEF F, M
  <2>8. IsFiniteSet(Queued(e)') /\ Cardinality(Queued(e)') = 0
    BY <1>5, CountNone
  <2> QED
    BY <1>2, <1>5, <2>6, <2>7, <2>8 DEF QueueInv, WaitOK, Counted
<1>7. \A u \in Threads : arg'[u] # None <=> place'[u] = "push"
  BY Zenon, <1>2 DEF QueueInv, WaitOK
<1> QED
  BY <1>2, <1>3, <1>6, <1>7 DEF QueueInv, WaitOK

(* The release that is begun leaves its place, and nothing else does. *)
LEMMA WaitRunEntry == ASSUME Counting, QueueInv, NEW t \in Threads, RunEntry(t) PROVE WaitOK'
<1>1. PICK e, n, m : e = taken[t][1][1] /\ n = Len(taken[t]) - 1 /\ m = Len(taken[t][1]) - 1
  BY Zenon
<1>2. /\ taken[t] # <<>> /\ taken[t][1] # <<>>
      /\ place' = place /\ arg' = arg /\ entries' = entries
      /\ owed' = [owed EXCEPT ![e] = @ - 1]
      /\ taken' = [taken EXCEPT ![t] = <<Tail(@[1])>> \o Tail(@)]
  BY Zenon, <1>1 DEF RunEntry
<1>3. /\ TakenType' /\ e \in Entries
      /\ <<t, n, m>> \in TakenOut /\ TakenOut' = TakenOut \ {<<t, n, m>>}
      /\ EntryAt(<<t, n, m>>) = e
      /\ \A p \in TakenOut' : EntryAt(p)' = EntryAt(p)
  BY Zenon, <1>1, <1>2, BeginEntry DEF QueueInv, WaitOK
<1>4. /\ <<t, n, m>> \in Swapped(e) /\ Swapped(e)' = Swapped(e) \ {<<t, n, m>>}
      /\ \A f \in Entries \ {e} : Swapped(f)' = Swapped(f)
  BY Zenon, <1>3 DEF Swapped
<1>5. \A f : Queued(f)' = Queued(f) /\ Asking(f)' = Asking(f)
  BY <1>2, SameQueued, SameAsking
<1>6. \A f \in Entries : owed[f] \in Nat /\ owed'[f] = IF f = e THEN owed[e] - 1 ELSE owed[f]
  BY Zenon, <1>2 DEF QueueInv, WaitOK
<1>7. Counted(e)' /\ owed'[e] \in Nat
  <2>1. /\ IsFiniteSet(Swapped(e)') /\ Cardinality(Swapped(e)') = Cardinality(Swapped(e)) - 1
        /\ Cardinality(Swapped(e)') \in Nat
    BY Zenon, <1>3, <1>4, CountRemove DEF QueueInv, WaitOK, Counted
  <2>2. Cardinality(Queued(e)) \in Nat /\ Cardinality(Asking(e)) \in Nat /\ Cardinality(Swapped(e)) \in Nat
    BY Zenon, <1>3, CountNat DEF QueueInv, WaitOK, Counted
  <2> QED
    BY SMTT(30), <1>3, <1>5, <1>6, <2>1, <2>2 DEF QueueInv, WaitOK, Counted
<1>8. \A f \in Entries \ {e} : Counted(f)'
  BY Zenon, <1>4, <1>5, <1>6 DEF QueueInv, WaitOK, Counted
<1>9. owed' \in [Entries -> Nat]
  BY Zenon, <1>2, <1>6, <1>7 DEF QueueInv, WaitOK
<1> QED
  BY SMTT(30), <1>2, <1>3, <1>7, <1>8, <1>9 DEF QueueInv, WaitOK

(* A batch that is done holds no release. *)
LEMMA WaitEndRun == ASSUME QueueInv, NEW t \in Threads, EndRun(t) PROVE WaitOK'
<1>1. /\ taken[t] # <<>> /\ taken[t][1] = <<>> /\ taken' = [taken EXCEPT ![t] = Tail(@)]
      /\ place' = place /\ arg' = arg /\ entries' = entries /\ owed' = owed
  BY Zenon DEF EndRun
<1>2. TakenType' /\ TakenOut' = TakenOut /\ \A p \in TakenOut : EntryAt(p)' = EntryAt(p)
  BY ZenonT(40), <1>1, EndBatch DEF QueueInv, WaitOK
<1>3. \A e : Queued(e)' = Queued(e) /\ Asking(e)' = Asking(e) /\ Swapped(e)' = Swapped(e)
  BY <1>1, <1>2, SameQueued, SameAsking DEF Swapped
<1> QED
  BY <1>1, <1>2, <1>3 DEF QueueInv, WaitOK, Counted

(* The other steps move no release. *)
LEMMA WaitSame ==
  ASSUME QueueInv, entries' = entries, arg' = arg, taken' = taken, owed' = owed,
         \A t \in Threads : place'[t] = "push" <=> place[t] = "push"
  PROVE  WaitOK'
<1>1. \A e \in Entries : Counted(e)'
  BY Zenon, SameCounted DEF QueueInv
<1> QED
  BY ZenonT(40), <1>1 DEF QueueInv, WaitOK, TakenType

(* Every step of the queue keeps its invariant. *)
LEMMA StepQueueInv ==
  ASSUME Counting, CountingUnions, CountingImages PROVE QueueInv /\ [QueueNext]_queueVars => QueueInv'
<1> SUFFICES ASSUME QueueInv, [QueueNext]_queueVars PROVE QueueInv'
  BY Zenon
<1>1. FlagInv'
  BY Zenon, StepFlagInv DEF QueueInv
<1>2. CASE UNCHANGED queueVars
  BY SMTT(30), <1>1, <1>2, WaitSame DEF queueVars, QueueInv
<1>3. ASSUME NEW t \in Threads, Deferring(t) PROVE WaitOK'
  <2>1. CASE Flag(t)
    BY Zenon, <2>1, WaitSame DEF Flag, At, QueueInv, FlagInv, MutexOK
  <2> QED
    BY SMTT(30), <1>3, <2>1, WaitDefer, WaitPush, WaitPushFails DEF Deferring
<1>4. ASSUME NEW t \in Threads, Running(t) PROVE WaitOK'
  <2>1. CASE Look(t)
    BY Zenon, <2>1, WaitSame DEF Look, At, QueueInv, FlagInv, MutexOK
  <2>2. CASE Lock(t)
    BY Zenon, <2>2, WaitSame DEF Lock, At, QueueInv, FlagInv, MutexOK
  <2>3. CASE Clear(t)
    BY Zenon, <2>3, WaitSame DEF Clear, At, QueueInv, FlagInv, MutexOK
  <2> QED
    BY SMTT(30), <1>4, <2>1, <2>2, <2>3, WaitSwap, WaitRunEntry, WaitEndRun DEF Running
<1> QED
  BY SMTT(30), <1>1, <1>2, <1>3, <1>4 DEF QueueInv, QueueNext

-----------------------------------------------------------------------------
(* The references that are counted *)

(* The count of b is exact. *)
RefsOK(b) ==
  IsFiniteSet(Wrapping(b)) /\ IsFiniteSet(Dropping(b)) /\ ctl[b].refs = References(b)
CountOK == \A b \in Blocks : RefsOK(b)

(* What is owed of each block. *)
OwedType == owed \in [Blocks -> Nat]

(* It stays exact when nothing moves. *)
LEMMA SameRefs ==
  ASSUME NEW b \in Blocks, RefsOK(b), Wrapping(b)' = Wrapping(b), Dropping(b)' = Dropping(b),
         owed'[b] = owed[b], b \in held' <=> b \in held, ctl'[b].refs = ctl[b].refs
  PROVE  RefsOK(b)'
  BY Zenon DEF RefsOK, References

(* Whatever refers to b is counted. *)
LEMMA CountedRefs ==
  ASSUME Counting, TypesOK, OwedType, NEW b \in Blocks, RefsOK(b)
  PROVE  /\ Cardinality(Wrapping(b)) \in Nat /\ Cardinality(Dropping(b)) \in Nat
         /\ ctl[b].refs \in Nat /\ owed[b] \in Nat
         /\ ctl[b].refs = Cardinality(Wrapping(b)) + owed[b] + Cardinality(Dropping(b))
                            + (IF b \in held THEN 1 ELSE 0)
         /\ (Wrapping(b) # {} \/ Dropping(b) # {} \/ b \in held) => ctl[b].refs > 0
<1>1. /\ Cardinality(Wrapping(b)) \in Nat /\ (Wrapping(b) # {} => Cardinality(Wrapping(b)) # 0)
      /\ Cardinality(Dropping(b)) \in Nat /\ (Dropping(b) # {} => Cardinality(Dropping(b)) # 0)
  BY Zenon DEF RefsOK, Counting
<1>2. ctl[b].refs \in Nat /\ owed[b] \in Nat
  BY Zenon DEF TypesOK, ControlType, OwedType
<1>3. ctl[b].refs = Cardinality(Wrapping(b)) + owed[b] + Cardinality(Dropping(b))
                      + (IF b \in held THEN 1 ELSE 0)
  BY Zenon DEF RefsOK, References
<1>4. (Wrapping(b) # {} \/ Dropping(b) # {} \/ b \in held) => ctl[b].refs > 0
  <2>1. PICK i \in Nat, j \in Nat, k \in Nat :
          i = Cardinality(Wrapping(b)) /\ j = owed[b] /\ k = Cardinality(Dropping(b))
    BY Zenon, <1>1, <1>2
  <2>2. CASE b \in held
    <3>1. ctl[b].refs = i + j + k + 1
      BY <1>3, <2>1, <2>2
    <3> QED
      BY <3>1
  <2>3. CASE b \notin held
    <3>1. ctl[b].refs = i + j + k + 0
      BY <1>3, <2>1, <2>3
    <3>2. (Wrapping(b) # {} => i # 0) /\ (Dropping(b) # {} => k # 0)
      BY Zenon, <1>1, <2>1
    <3> QED
      BY <2>3, <3>1, <3>2
  <2> QED
    BY <2>2, <2>3
<1> QED
  BY SMTT(30), <1>1, <1>2, <1>3, <1>4

(* It stays exact when it moves by what the references move by. *)
LEMMA RefsChange ==
  ASSUME Counting, NEW b \in Blocks, TypesOK, OwedType, RefsOK(b),
         IsFiniteSet(Wrapping(b)'), IsFiniteSet(Dropping(b)'),
         NEW dw \in Int, NEW do \in Int, NEW dd \in Int, NEW dh \in Int,
         Cardinality(Wrapping(b)') = Cardinality(Wrapping(b)) + dw, owed'[b] = owed[b] + do,
         Cardinality(Dropping(b)') = Cardinality(Dropping(b)) + dd,
         (IF b \in held' THEN 1 ELSE 0) = (IF b \in held THEN 1 ELSE 0) + dh,
         ctl'[b].refs = ctl[b].refs + (dw + do + dd + dh)
  PROVE  RefsOK(b)'
<1>1. PICK i \in Nat, j \in Nat, k \in Nat, m \in Nat :
        i = Cardinality(Wrapping(b)) /\ j = owed[b] /\ k = Cardinality(Dropping(b))
          /\ m = (IF b \in held THEN 1 ELSE 0)
  BY Zenon, CountedRefs
<1>2. ctl[b].refs = i + j + k + m
  BY SMTT(30), <1>1, CountedRefs
<1>3. i + j + k + m + (dw + do + dd + dh) = (i + dw) + (j + do) + (k + dd) + (m + dh)
  BY <1>1
<1>4. ctl'[b].refs = Cardinality(Wrapping(b)') + owed'[b] + Cardinality(Dropping(b)')
                       + (IF b \in held' THEN 1 ELSE 0)
  BY <1>1, <1>2, <1>3, Zenon
<1> QED
  BY Zenon, <1>4 DEF RefsOK, References

(* A set of references loses one (d = -1), stays or gains one (d = 1). *)
Moved(S, T, d) ==
  \/ d = 0 /\ T = S
  \/ d = 1 /\ \E x : x \notin S /\ T = S \union {x}
  \/ d = -1 /\ \E x \in S : T = S \ {x}

(* And its cardinality moves with it. *)
LEMMA CountMoved ==
  ASSUME Counting, NEW S, IsFiniteSet(S), NEW T, NEW d \in Int, Moved(S, T, d)
  PROVE  IsFiniteSet(T) /\ Cardinality(T) = Cardinality(S) + d
<1>0. Cardinality(S) \in Nat
  BY Zenon, CountNat
<1>1. CASE d = 0 /\ T = S
  BY <1>0, <1>1
<1>2. CASE d = 1 /\ \E x : x \notin S /\ T = S \union {x}
  <2>1. PICK x : x \notin S /\ T = S \union {x}
    BY Zenon, <1>2
  <2>2. IsFiniteSet(T) /\ Cardinality(T) = Cardinality(S) + 1
    BY <2>1, CountAdd
  <2> QED
    BY <1>2, <2>2
<1>3. CASE d = -1 /\ \E x \in S : T = S \ {x}
  <2>1. PICK x \in S : T = S \ {x}
    BY Zenon, <1>3
  <2>2. IsFiniteSet(T) /\ Cardinality(T) = Cardinality(S) - 1
    BY SMTT(30), <2>1, CountRemove
  <2> QED
    BY <1>0, <1>3, <2>2
<1> QED
  BY <1>1, <1>2, <1>3 DEF Moved

(* The same from the sets. *)
LEMMA RefsMoved ==
  ASSUME Counting, TypesOK, OwedType, NEW b \in Blocks, RefsOK(b),
         NEW dw \in Int, NEW do \in Int, NEW dd \in Int, NEW dh \in Int,
         Moved(Wrapping(b), Wrapping(b)', dw), owed'[b] = owed[b] + do,
         Moved(Dropping(b), Dropping(b)', dd),
         (IF b \in held' THEN 1 ELSE 0) = (IF b \in held THEN 1 ELSE 0) + dh,
         ctl'[b].refs = ctl[b].refs + (dw + do + dd + dh)
  PROVE  RefsOK(b)'
<1>1. PICK S, T : S = Dropping(b) /\ T = Dropping(b)'
  BY Zenon
<1>2. IsFiniteSet(S) /\ Moved(S, T, dd)
  BY Zenon, <1>1 DEF RefsOK
<1>3. IsFiniteSet(T) /\ Cardinality(T) = Cardinality(S) + dd
  BY Zenon, <1>2, CountMoved
<1>4. IsFiniteSet(Dropping(b)') /\ Cardinality(Dropping(b)') = Cardinality(Dropping(b)) + dd
  BY ZenonT(40), <1>1, <1>3
<1>5. PICK U, V : U = Wrapping(b) /\ V = Wrapping(b)'
  BY Zenon
<1>6. IsFiniteSet(U) /\ Moved(U, V, dw)
  BY Zenon, <1>5 DEF RefsOK
<1>7. IsFiniteSet(V) /\ Cardinality(V) = Cardinality(U) + dw
  BY SMTT(30), <1>6, CountMoved
<1>8. IsFiniteSet(Wrapping(b)') /\ Cardinality(Wrapping(b)') = Cardinality(Wrapping(b)) + dw
  BY <1>5, <1>7
<1> QED
  BY ZenonT(40), <1>4, <1>8, RefsChange

(* One block's references move, and the others' stay. *)
LEMMA OthersCount ==
  ASSUME CountOK, NEW b \in Blocks, RefsOK(b)', \A c \in Blocks \ {b} : SameRef(c)
  PROVE  CountOK'
<1>1. ASSUME NEW c \in Blocks \ {b} PROVE RefsOK(c)'
  BY Zenon, <1>1, SameRefs DEF CountOK, SameRef
<1> QED
  BY Zenon, <1>1 DEF CountOK

(* A release gives its reference up. *)
LEMMA CountDropped ==
  ASSUME Counting, TypesOK, OwedType, CountOK, OneDropped PROVE CountOK'
<1>1. PICK b \in Blocks :
         /\ \E p \in Dropping(b) : Dropping(b)' = Dropping(b) \ {p}
         /\ wrapper' = wrapper /\ owed' = owed /\ held' = held /\ ctl'[b].refs = ctl[b].refs - 1
         /\ \A c \in Blocks \ {b} : SameRef(c)
  BY Zenon DEF OneDropped
<1>2. RefsOK(b) /\ ctl[b].refs \in Nat /\ owed[b] \in Nat
  BY Zenon DEF CountOK, TypesOK, ControlType, OwedType
<1>3. PICK m \in Int, z \in Int, o \in Int : m = -1 /\ z = 0 /\ o = 1
  OBVIOUS
<1>4. Moved(Wrapping(b), Wrapping(b)', z)
  BY SMTT(30), <1>1, <1>3, SameWrapping DEF Moved
<1>5. Moved(Dropping(b), Dropping(b)', m)
  BY SMTT(30), <1>1, <1>3 DEF Moved
<1>6. owed'[b] = owed[b] + z
  BY SMTT(30), <1>1, <1>2, <1>3
<1>7. (IF b \in held' THEN 1 ELSE 0) = (IF b \in held THEN 1 ELSE 0) + z
  BY SMTT(30), <1>1, <1>3
<1>8. ctl'[b].refs = ctl[b].refs + (z + z + m + z)
  BY SMTT(30), <1>1, <1>2, <1>3
<1>9. RefsOK(b)'
  BY ZenonT(40), <1>2, <1>4, <1>5, <1>6, <1>7, <1>8, RefsMoved
<1> QED
  BY SMTT(30), <1>1, <1>9, OthersCount

(* A release that was owed begins. *)
LEMMA CountBegun ==
  ASSUME Counting, TypesOK, OwedType, CountOK, OneBegun PROVE CountOK'
<1>1. PICK b \in Blocks :
         /\ \E p : p \notin Dropping(b) /\ Dropping(b)' = Dropping(b) \union {p}
         /\ wrapper' = wrapper /\ held' = held /\ ctl'[b].refs = ctl[b].refs /\ owed'[b] = owed[b] - 1
         /\ \A c \in Blocks \ {b} : SameRef(c)
  BY DEF OneBegun
<1>2. RefsOK(b) /\ ctl[b].refs \in Nat /\ owed[b] \in Nat
  BY Zenon DEF CountOK, TypesOK, ControlType, OwedType
<1>3. PICK m \in Int, z \in Int, o \in Int : m = -1 /\ z = 0 /\ o = 1
  OBVIOUS
<1>4. Moved(Wrapping(b), Wrapping(b)', z)
  BY SMTT(30), <1>1, <1>3, SameWrapping DEF Moved
<1>5. Moved(Dropping(b), Dropping(b)', o)
  BY <1>1, <1>3 DEF Moved
<1>6. owed'[b] = owed[b] + m
  BY <1>1, <1>2, <1>3
<1>7. (IF b \in held' THEN 1 ELSE 0) = (IF b \in held THEN 1 ELSE 0) + z
  BY <1>1, <1>3
<1>8. ctl'[b].refs = ctl[b].refs + (z + m + o + z)
  BY SMTT(30), <1>1, <1>2, <1>3
<1>9. RefsOK(b)'
  BY ZenonT(40), <1>2, <1>4, <1>5, <1>6, <1>7, <1>8, RefsMoved
<1> QED
  BY <1>1, <1>9, OthersCount

(* A wrapper hands its reference to the queue. *)
LEMMA CountDeferred ==
  ASSUME Counting, TypesOK, OwedType, CountOK, OneDeferred PROVE CountOK'
<1>1. PICK b \in Blocks :
         /\ \E w \in Wrapping(b) : Wrapping(b)' = Wrapping(b) \ {w}
         /\ Dropping(b)' = Dropping(b) /\ held' = held /\ ctl'[b].refs = ctl[b].refs
         /\ owed'[b] = owed[b] + 1
         /\ \A c \in Blocks \ {b} : SameRef(c)
  BY DEF OneDeferred
<1>2. RefsOK(b) /\ ctl[b].refs \in Nat /\ owed[b] \in Nat
  BY Zenon DEF CountOK, TypesOK, ControlType, OwedType
<1>3. PICK m \in Int, z \in Int, o \in Int : m = -1 /\ z = 0 /\ o = 1
  OBVIOUS
<1>4. Moved(Wrapping(b), Wrapping(b)', m)
  BY Zenon, <1>1, <1>3 DEF Moved
<1>5. Moved(Dropping(b), Dropping(b)', z)
  BY Zenon, <1>1, <1>3 DEF Moved
<1>6. owed'[b] = owed[b] + o
  BY Zenon, <1>1, <1>2, <1>3
<1>7. (IF b \in held' THEN 1 ELSE 0) = (IF b \in held THEN 1 ELSE 0) + z
  BY SMTT(30), <1>1, <1>3
<1>8. ctl'[b].refs = ctl[b].refs + (m + o + z + z)
  BY SMTT(30), <1>1, <1>2, <1>3
<1>9. RefsOK(b)'
  BY Zenon, <1>2, <1>4, <1>5, <1>6, <1>7, <1>8, RefsMoved
<1> QED
  BY <1>1, <1>9, OthersCount

(* The loop hands its reference to a release. *)
LEMMA CountLetGo ==
  ASSUME Counting, TypesOK, OwedType, CountOK, OneLetGo PROVE CountOK'
<1>1. PICK b \in Blocks :
         /\ \E p : p \notin Dropping(b) /\ Dropping(b)' = Dropping(b) \union {p}
         /\ wrapper' = wrapper /\ b \in held /\ b \notin held' /\ ctl'[b].refs = ctl[b].refs
         /\ owed'[b] = owed[b]
         /\ \A c \in Blocks \ {b} : SameRef(c)
  BY DEF OneLetGo
<1>2. RefsOK(b) /\ ctl[b].refs \in Nat /\ owed[b] \in Nat
  BY Zenon DEF CountOK, TypesOK, ControlType, OwedType
<1>3. PICK m \in Int, z \in Int, o \in Int : m = -1 /\ z = 0 /\ o = 1
  OBVIOUS
<1>4. Moved(Wrapping(b), Wrapping(b)', z)
  BY SMTT(30), <1>1, <1>3, SameWrapping DEF Moved
<1>5. Moved(Dropping(b), Dropping(b)', o)
  BY Zenon, <1>1, <1>3 DEF Moved
<1>6. owed'[b] = owed[b] + z
  BY <1>1, <1>2, <1>3
<1>7. (IF b \in held' THEN 1 ELSE 0) = (IF b \in held THEN 1 ELSE 0) + m
  BY <1>1, <1>3
<1>8. ctl'[b].refs = ctl[b].refs + (z + z + o + m)
  BY SMTT(30), <1>1, <1>2, <1>3
<1>9. RefsOK(b)'
  BY ZenonT(40), <1>2, <1>4, <1>5, <1>6, <1>7, <1>8, RefsMoved
<1> QED
  BY <1>1, <1>9, OthersCount

(* There is one reference more. *)
LEMMA CountAdded ==
  ASSUME Counting, TypesOK, OwedType, CountOK, OneAdded PROVE CountOK'
<1>1. PICK b \in Blocks :
         /\ \E w : w \notin Wrapping(b) /\ Wrapping(b)' = Wrapping(b) \union {w}
         /\ Dropping(b)' = Dropping(b)
         /\ held' = held /\ owed'[b] = owed[b] /\ ctl'[b].refs = ctl[b].refs + 1
         /\ \A c \in Blocks \ {b} : SameRef(c)
  BY Zenon DEF OneAdded
<1>2. RefsOK(b) /\ ctl[b].refs \in Nat /\ owed[b] \in Nat
  BY Zenon DEF CountOK, TypesOK, ControlType, OwedType
<1>3. PICK z \in Int, o \in Int : z = 0 /\ o = 1
  OBVIOUS
<1>4. Moved(Wrapping(b), Wrapping(b)', o) /\ Moved(Dropping(b), Dropping(b)', z)
  BY ZenonT(40), <1>1, <1>3 DEF Moved
<1>5. owed'[b] = owed[b] + z
  BY SMTT(30), <1>1, <1>2, <1>3
<1>6. (IF b \in held' THEN 1 ELSE 0) = (IF b \in held THEN 1 ELSE 0) + z
  BY SMTT(30), <1>1, <1>3
<1>7. ctl'[b].refs = ctl[b].refs + (o + z + z + z)
  BY SMTT(30), <1>1, <1>2, <1>3
<1>8. RefsOK(b)'
  BY Zenon, <1>2, <1>4, <1>5, <1>6, <1>7, RefsMoved
<1> QED
  BY <1>1, <1>8, OthersCount

(* The loop refers to every block it has found. *)
LEMMA CountGathered ==
  ASSUME Counting, TypesOK, OwedType, CountOK, Gathered PROVE CountOK'
<1> SUFFICES ASSUME NEW b \in Blocks PROVE RefsOK(b)'
  BY Zenon DEF CountOK
<1>1. RefsOK(b) /\ ctl[b].refs \in Nat /\ owed[b] \in Nat
  BY Zenon DEF CountOK, TypesOK, ControlType, OwedType
<1>2. PICK z \in Int, h \in Int : z = 0 /\ h = IF b \in held' THEN 1 ELSE 0
  OBVIOUS
<1>3. Moved(Wrapping(b), Wrapping(b)', z) /\ Moved(Dropping(b), Dropping(b)', z)
  BY Zenon, <1>2 DEF Gathered, Moved
<1>4. owed'[b] = owed[b] + z
  BY <1>1, <1>2 DEF Gathered
<1>5. (IF b \in held' THEN 1 ELSE 0) = (IF b \in held THEN 1 ELSE 0) + h
  BY <1>2 DEF Gathered
<1>6. ctl'[b].refs = ctl[b].refs + (z + z + z + h)
  BY SMTT(30), <1>1, <1>2 DEF Gathered
<1> QED
  BY Zenon, <1>1, <1>3, <1>4, <1>5, <1>6, RefsMoved

(* No reference moves. *)
LEMMA CountKept ==
  ASSUME CountOK, KeepsRefs PROVE CountOK'
BY Zenon, SameRefs DEF CountOK, KeepsRefs, SameRef

-----------------------------------------------------------------------------
(* The invariant of the whole *)

(* What is referred to is counted, so it is live. *)
LEMMA CountsRefer == ASSUME Counting, TypesOK, OwedType, CountOK PROVE Referred /\ OwedIsLive
<1>1. ASSUME NEW b \in Blocks, Wrapping(b) # {} \/ Dropping(b) # {} \/ b \in held PROVE ctl[b].refs > 0
  BY Zenon, <1>1, CountedRefs DEF CountOK
<1>2. ASSUME NEW b \in Blocks, owed[b] > 0 PROVE ctl[b].refs > 0
  <2>1. PICK i \in Nat, j \in Nat, k \in Nat, h \in Nat :
          /\ i = Cardinality(Wrapping(b)) /\ j = owed[b] /\ k = Cardinality(Dropping(b))
          /\ h = IF b \in held THEN 1 ELSE 0
    BY Zenon, CountedRefs DEF CountOK
  <2>2. ctl[b].refs = i + j + k + h /\ j > 0
    BY Zenon, <1>2, <2>1, CountedRefs DEF CountOK
  <2> QED
    BY ONLY SMTT(30), <2>2, i \in Nat, j \in Nat, k \in Nat, h \in Nat
<1> QED
  BY SMTT(30), <1>1, <1>2 DEF Referred, OwedIsLive

(* The inductive invariant of the whole. *)
ResourceInv == ForeignInv /\ CountOK /\ QueueInv

(* The invariant of the queue types what it shares. *)
LEMMA Shaped == QueueInv => QueueShape
BY Zenon DEF QueueInv, FlagInv, MutexOK, WaitOK, TakenType, QueueShape

(* The same in the next state. *)
LEMMA ShapedNext == QueueInv' => QueueShape'
BY Zenon DEF QueueInv, FlagInv, MutexOK, WaitOK, TakenType, QueueShape

(* What is owed is counted. *)
LEMMA OwedTyped == QueueShape => OwedType
BY Zenon DEF QueueShape, OwedType, Blocks

(* It holds at the start. *)
LEMMA InitResourceInv == ASSUME Counting PROVE Init => ResourceInv
<1> SUFFICES ASSUME Init PROVE ForeignInv /\ CountOK
  BY Zenon, InitQueueInv DEF Init, ResourceInv
<1>1. /\ ctl = [b \in Blocks |-> Control("none", 0, FALSE, FALSE, 0)] /\ registry = {}
      /\ wrapper = [w \in Wrappers |-> "none"] /\ job = [t \in Threads |-> <<>>]
      /\ phase = "running" /\ held = {} /\ gathered = {} /\ disposed = {}
      /\ deleted = [b \in Blocks |-> 0] /\ place = [t \in Threads |-> "out"]
      /\ owed = [b \in Blocks |-> 0]
  BY Zenon DEF Init, QueueInit, Blocks
<1>2. PICK r : r = Control("none", 0, FALSE, FALSE, 0)
  BY Zenon
<1>3. r \in ControlType /\ r.refs = 0 /\ r.life = "none"
  BY Zenon, <1>2 DEF Control, ControlType
<1>4. ~r.disposed
  BY Zenon, <1>2 DEF Control
<1>5. \A b \in Blocks : ctl[b] = r /\ deleted[b] = 0 /\ owed[b] = 0
  BY Zenon, <1>1, <1>2
<1>6. JobsType
  BY <1>1 DEF JobsType
<1>7. Calls = {}
  <2>1. \A t \in Threads : Len(job[t]) = 0
    BY Zenon, <1>1
  <2>2. \A n \in Nat : ~(n < 0)
    OBVIOUS
  <2> QED
    BY SMTT(30), <1>6, <2>1, <2>2, InCalls
<1>8. TypesOK
  <2>1. {b \in Blocks : ctl[b].refs > 0} = {}
    BY <1>3, <1>5
  <2>2. ctl \in [Blocks -> ControlType]
    BY Zenon, <1>1, <1>2, <1>3
  <2> QED
    BY Zenon, <1>1, <1>6, <2>1, <2>2 DEF TypesOK
<1>9. FramesOK /\ CallsOK
  BY Zenon, <1>7 DEF FramesOK, CallsOK
<1>10. StagesOK
  BY Zenon, <1>1, <1>7 DEF StagesOK
<1>11. BlocksOK
  BY <1>3, <1>4, <1>5 DEF BlocksOK
<1>12. UsableOK
  BY Zenon, <1>4, <1>5 DEF UsableOK
<1>13. Created = {}
  BY <1>3, <1>5 DEF Created
<1>14. IdsOK
  BY <1>13, CountNone DEF IdsOK
<1>15. EndOK
  BY Zenon, <1>1 DEF EndOK
<1>16. CountOK
  <2> SUFFICES ASSUME NEW b \in Blocks PROVE RefsOK(b)
    BY Zenon DEF CountOK
  <2>1. Wrapping(b) = {}
    BY <1>1, ForeignConstants DEF Wrapping
  <2>2. Dropping(b) = {}
    BY Zenon, <1>7 DEF Dropping
  <2>3. IsFiniteSet({}) /\ Cardinality({}) = 0
    BY Zenon, CountNone
  <2>4. References(b) = 0
    BY SMTT(30), <1>1, <2>1, <2>2, <2>3 DEF References
  <2> QED
    BY SMTT(30), <1>3, <1>5, <2>1, <2>2, <2>3, <2>4 DEF RefsOK
<1> QED
  BY SMTT(30), <1>8, <1>9, <1>10, <1>11, <1>12, <1>14, <1>15, <1>16 DEF ForeignInv

(* The new block has the highest id. *)
LEMMA CreatedIds ==
  ASSUME Counting, ForeignInv, NEW b \in Blocks \ Created, Created' = Created \union {b},
         ctl'[b].debugId = Cardinality(Created) + 1, \A c \in Blocks \ {b} : ctl'[c] = ctl[c]
  PROVE  IdsOK'
<1>1. PICK S, T : S = Created /\ T = Created'
  BY Zenon
<1>2. IsFiniteSet(S) /\ b \notin S /\ T = S \union {b} /\ S \subseteq Blocks
  BY ZenonT(40), <1>1 DEF ForeignInv, IdsOK, Created
<1>3. IsFiniteSet(T) /\ Cardinality(T) = Cardinality(S) + 1 /\ Cardinality(S) \in Nat
  BY <1>2, CountAdd
<1>4. PICK n \in Nat : n = Cardinality(S) /\ Cardinality(T) = n + 1 /\ ctl'[b].debugId = n + 1
  BY SMTT(30), <1>1, <1>3
<1>5. ASSUME NEW c \in S PROVE ctl'[c].debugId = ctl[c].debugId /\ ctl[c].debugId \in Nat /\ ctl[c].debugId <= n
  BY ZenonT(40), <1>1, <1>2, <1>4 DEF ForeignInv, IdsOK, TypesOK, ControlType
<1>6. \A c \in T : ctl'[c].debugId <= Cardinality(T)
  BY <1>2, <1>4, <1>5
<1>7. \A m \in Nat : m <= n => m # n + 1
  BY <1>4
<1>8. \A c, d \in T : ctl'[c].debugId = ctl'[d].debugId => c = d
  <2>1. \A c, d \in S : ctl[c].debugId = ctl[d].debugId => c = d
    BY Zenon, <1>1 DEF ForeignInv, IdsOK
  <2>2. \A c \in S : ctl'[c].debugId # ctl'[b].debugId
    BY SMTT(30), <1>4, <1>5, <1>7
  <2> QED
    BY SMTT(30), <1>2, <1>5, <2>1, <2>2
<1> QED
  BY Zenon, <1>1, <1>3, <1>6, <1>8 DEF IdsOK

(* It is kept by what the program does with wrappers, *)
LEMMA StepProgram ==
  ASSUME Counting, ResourceInv, QueueShape, QueueShape', NEW t \in Threads, ProgramStep(t)
  PROVE  ForeignInv' /\ CountOK'
<1>1. ForeignInv /\ CountOK /\ QueueShape /\ OwedType /\ TypesOK
  BY Zenon, OwedTyped DEF ResourceInv, ForeignInv
<1>2. Referred /\ OwedIsLive
  BY <1>1, CountsRefer
<1>3. ASSUME NEW w \in Wrappers, Create(t, w) PROVE ForeignInv' /\ CountOK'
  <2>1. Cardinality(Created) \in Nat
    BY SMTT(30), <1>1, CountNat DEF ForeignInv, IdsOK
  <2>2. /\ TypesOK' /\ FramesOK' /\ StagesOK' /\ BlocksOK' /\ CallsOK' /\ UsableOK' /\ EndOK' /\ OneAdded
        /\ \E b \in Blocks \ Created :
             /\ Created' = Created \union {b} /\ ctl'[b].debugId = Cardinality(Created) + 1
             /\ \A c \in Blocks \ {b} : ctl'[c] = ctl[c]
    BY SMTT(30), <1>1, <1>2, <1>3, <2>1, InvCreate
  <2>3. IdsOK'
    BY <1>1, <2>2, CreatedIds
  <2> QED
    BY SMTT(30), <1>1, <2>2, <2>3, CountAdded DEF ForeignInv
<1>4. ASSUME NEW w \in Wrappers, DisposeWrapper(t, w) PROVE ForeignInv' /\ CountOK'
  BY SMTT(30), <1>1, <1>2, <1>4, InvDisposeWrapper, CountKept
<1>5. ASSUME NEW w \in Wrappers, Finalize(t, w) PROVE ForeignInv' /\ CountOK'
  BY <1>1, <1>5, InvFinalize, CountDeferred
<1>6. ASSUME Collect(t) PROVE ForeignInv' /\ CountOK'
  BY SMTT(30), <1>1, <1>2, <1>6, InvCollect, CountKept
<1>7. ASSUME NEW w \in Wrappers, NEW from \in Wrappers, Clone(t, from, w) PROVE ForeignInv' /\ CountOK'
  BY SMTT(30), <1>1, <1>2, <1>7, InvClone, CountAdded
<1> QED
  BY SMTT(30), <1>3, <1>4, <1>5, <1>6, <1>7 DEF ProgramStep

(* by the steps of release and dispose, *)
LEMMA StepBlock ==
  ASSUME Counting, ResourceInv, QueueShape, QueueShape', NEW t \in Threads, BlockStep(t)
  PROVE  ForeignInv' /\ CountOK'
<1>1. ForeignInv /\ CountOK /\ QueueShape /\ OwedType /\ TypesOK
  BY Zenon, OwedTyped DEF ResourceInv, ForeignInv
<1>2. Referred
  BY <1>1, CountsRefer
<1>3. ASSUME Drop(t) PROVE ForeignInv' /\ CountOK'
  <2>1. ForeignInv' /\ OneDropped
    BY SMTT(30), <1>1, <1>2, <1>3, InvDrop, InvDropLast
  <2> QED
    BY SMTT(30), <1>1, <2>1, CountDropped
<1>4. ASSUME Claim(t) PROVE ForeignInv' /\ KeepsRefs
  BY SMTT(30), <1>1, <1>2, <1>4, InvClaim, InvClaimedReturns, InvClaimedFrees
<1>5. ASSUME Take(t) PROVE ForeignInv' /\ KeepsRefs
  BY SMTT(30), <1>1, <1>2, <1>5, InvTake
<1>6. ASSUME Deleted(t) PROVE ForeignInv' /\ KeepsRefs
  BY SMTT(30), <1>1, <1>2, <1>6, InvDeletedReturns, InvDeletedFrees
<1>7. ASSUME Free(t) PROVE ForeignInv' /\ KeepsRefs
  BY Zenon, <1>1, <1>2, <1>7, InvFree
<1> QED
  BY SMTT(30), <1>1, <1>3, <1>4, <1>5, <1>6, <1>7, CountKept DEF BlockStep

(* by the queue and the collections, *)
LEMMA StepOfRelease ==
  ASSUME Counting, ResourceInv, QueueShape, QueueShape', NEW t \in Threads,
         QueueStep(t) \/ RunRelease(t) \/ EndCollection(t) \/ CollectionThrows(t)
  PROVE  ForeignInv' /\ CountOK'
<1>1. ForeignInv /\ CountOK /\ QueueShape /\ OwedType /\ TypesOK
  BY Zenon, OwedTyped DEF ResourceInv, ForeignInv
<1>2. Referred /\ OwedIsLive
  BY <1>1, CountsRefer
<1>3. ASSUME QueueStep(t) PROVE ForeignInv' /\ CountOK'
  <2>1. CASE PushFails(t) /\ Call(t, Job("in place", arg[t], "drop", None))
    BY ZenonT(40), <1>1, <1>2, <1>3, <2>1, InvPushFails, CountBegun
  <2>2. CASE Push(t) \/ Flag(t) \/ Lock(t) \/ Clear(t) \/ Swap(t)
    <3>1. ~PushFails(t)
      <4>1. place \in [Threads -> {"out", "push", "flag", "lock", "swap", "clear"}]
        BY Zenon, <1>1 DEF QueueShape
      <4>2. PushFails(t) => place[t] = "push" /\ place'[t] = "out"
        BY Zenon, <4>1 DEF PushFails, At
      <4>3. Push(t) => place'[t] = "flag"
        BY Zenon, <4>1 DEF Push, At
      <4>4. Flag(t) \/ Lock(t) \/ Clear(t) \/ Swap(t) => place[t] # "push"
        BY Zenon DEF Flag, Lock, Clear, Swap, At
      <4> QED
        BY ZenonT(40), <2>2, <4>2, <4>3, <4>4
    <3> QED
      BY SMTT(30), <1>1, <1>2, <1>3, <3>1, InvQueue, CountKept
  <2> QED
    BY Zenon, <1>3, <2>1, <2>2 DEF QueueStep
<1>4. ASSUME RunRelease(t) PROVE ForeignInv' /\ CountOK'
  <2>1. CASE RunEntry(t) /\ Call(t, Release(taken[t][1][1]))
    BY ZenonT(40), <1>1, <1>2, <1>4, <2>1, InvRunEntry, CountBegun
  <2>2. CASE EndRun(t) /\ Return(t)
    BY SMTT(30), <1>1, <1>2, <1>4, <2>2, InvEndRun, CountKept
  <2> QED
    BY ZenonT(40), <1>4, <2>1, <2>2 DEF RunRelease
<1>5. ASSUME EndCollection(t) \/ CollectionThrows(t) PROVE ForeignInv' /\ CountOK'
  BY SMTT(30), <1>1, <1>2, <1>5, InvCollectionEnds, CountKept
<1> QED
  BY <1>3, <1>4, <1>5

(* by the end of the run, *)
LEMMA StepEnd ==
  ASSUME Counting, ResourceInv, QueueShape, QueueShape', EndProgram \/ EndStep
  PROVE  ForeignInv' /\ CountOK'
<1>1. ForeignInv /\ CountOK /\ QueueShape /\ OwedType /\ TypesOK
  BY Zenon, OwedTyped DEF ResourceInv, ForeignInv
<1>2. Referred
  BY Zenon, <1>1, CountsRefer
<1>3. CASE EndProgram
  BY <1>1, <1>2, <1>3, InvEndProgram, CountKept
<1>4. CASE Gather
  BY Zenon, <1>1, <1>4, InvGather, CountGathered
<1>5. CASE DisposeHeld
  BY SMTT(30), <1>1, <1>2, <1>5, InvDisposeHeld, CountKept
<1>6. CASE ReleaseHeld
  BY SMTT(30), <1>1, <1>2, <1>6, InvReleaseHeld, CountLetGo
<1>7. CASE AllDisposed
  BY Zenon, <1>1, <1>2, <1>7, InvAllDisposed, CountKept
<1>8. CASE EndContext
  BY Zenon, <1>1, <1>2, <1>8, InvEndContext, CountKept
<1> QED
  BY SMTT(30), <1>3, <1>4, <1>5, <1>6, <1>7, <1>8 DEF EndStep

(* and by a step that changes nothing. *)
LEMMA StepNothing == ASSUME ResourceInv, UNCHANGED vars PROVE ForeignInv' /\ CountOK'
<1>1. /\ ctl' = ctl /\ registry' = registry /\ wrapper' = wrapper /\ job' = job /\ phase' = phase
      /\ held' = held /\ gathered' = gathered /\ disposed' = disposed /\ deleted' = deleted
      /\ owed' = owed /\ place' = place
  BY Zenon DEF vars, endVars, queueVars
<1>2. Calls' = Calls /\ First' = First /\ \A q \in Calls : Frame(q)' = Frame(q)
  BY Zenon, <1>1 DEF Calls, First, Frame
<1>3. SameStates /\ SameNames
  BY Zenon, <1>1 DEF SameStates, SameNames
<1>4. \A b \in Blocks : (ctl[b].refs = 0 => ctl'[b].refs = 0) /\ (ctl'[b].refs > 0 => ctl[b].life = "live")
  BY Zenon, <1>1 DEF ResourceInv, ForeignInv, BlocksOK
<1>5. FramesOK' /\ BlocksOK' /\ CallsOK' /\ UsableOK' /\ IdsOK' /\ EndOK'
  BY ZenonT(40), <1>1, <1>2, <1>3, <1>4, CallsGrow DEF ResourceInv
<1>6. TypesOK' /\ StagesOK'
  BY ZenonT(40), <1>1, <1>2 DEF ResourceInv, ForeignInv, TypesOK, JobsType, StagesOK
<1>7. KeepsRefs
  BY Zenon, <1>1, <1>2 DEF KeepsRefs, SameRef, Wrapping, Dropping
<1> QED
  BY SMTT(30), <1>5, <1>6, <1>7, CountKept DEF ResourceInv, ForeignInv

(* So every step keeps it. *)
LEMMA StepResourceInv ==
  ASSUME Counting, CountingUnions, CountingImages PROVE ResourceInv /\ [Next]_vars => ResourceInv'
<1> SUFFICES ASSUME ResourceInv, [Next]_vars PROVE ResourceInv'
  BY Zenon
<1>0. QueueInv'
  BY Zenon, StepOfQueue, StepQueueInv DEF ResourceInv
<1>1. QueueShape /\ QueueShape'
  BY Zenon, <1>0, Shaped, ShapedNext DEF ResourceInv
<1>2. CASE UNCHANGED vars
  BY Zenon, <1>0, <1>2, StepNothing DEF ResourceInv
<1>3. CASE Next
  BY ZenonT(40), <1>0, <1>1, <1>3, StepEnd, StepProgram, StepOfRelease, StepBlock DEF Next, ResourceInv
<1> QED
  BY Zenon, <1>2, <1>3

-----------------------------------------------------------------------------
(* The theorems *)

INSTANCE FiniteSetTheorems

(* What was used of cardinalities, from the library. *)
LEMMA CountingHolds == Counting /\ CountingUnions /\ CountingImages
<1>1. Counting
  <2>1. IsFiniteSet({}) /\ Cardinality({}) = 0
    BY FS_EmptySet
  <2>2. ASSUME NEW S, IsFiniteSet(S) PROVE Cardinality(S) \in Nat /\ (Cardinality(S) = 0 => S = {})
    BY SMTT(30), <2>2, FS_CardinalityType, FS_EmptySet
  <2>3. ASSUME NEW S, NEW x, IsFiniteSet(S), x \notin S
        PROVE  IsFiniteSet(S \union {x}) /\ Cardinality(S \union {x}) = Cardinality(S) + 1
    BY <2>3, FS_AddElement
  <2>4. ASSUME NEW S, NEW x \in S, IsFiniteSet(S)
        PROVE  IsFiniteSet(S \ {x}) /\ Cardinality(S \ {x}) = Cardinality(S) - 1
    BY SMTT(30), <2>4, FS_RemoveElement
  <2> QED
    BY Zenon, <2>1, <2>2, <2>3, <2>4 DEF Counting
<1>2. CountingUnions
  <2> SUFFICES ASSUME NEW S, NEW T, IsFiniteSet(S), IsFiniteSet(T), S \intersect T = {}
               PROVE  IsFiniteSet(S \union T) /\ Cardinality(S \union T) = Cardinality(S) + Cardinality(T)
    BY Zenon DEF CountingUnions
  <2>1. Cardinality(S) \in Nat /\ Cardinality(T) \in Nat /\ Cardinality(S \intersect T) = 0
    BY ZenonT(40), FS_CardinalityType, FS_EmptySet
  <2>2. /\ IsFiniteSet(S \union T)
        /\ Cardinality(S \union T) = Cardinality(S) + Cardinality(T) - Cardinality(S \intersect T)
    BY FS_Union
  <2> QED
    BY <2>1, <2>2
<1>3. CountingImages
  <2> SUFFICES ASSUME NEW S, NEW T, NEW f \in [S -> T], IsFiniteSet(S),
                      \A x, y \in S : f[x] = f[y] => x = y, \A z \in T : \E x \in S : f[x] = z
               PROVE  IsFiniteSet(T) /\ Cardinality(T) = Cardinality(S)
    BY Zenon DEF CountingImages
  <2>1. f \in Bijection(S, T)
    BY Zenon DEF Bijection, Injection, Surjection, IsInjective
  <2>2. ExistsBijection(S, T)
    BY <2>1 DEF ExistsBijection
  <2> QED
    BY <2>2, FS_Bijection
<1> QED
  BY SMTT(30), <1>1, <1>2, <1>3

(* However threads defer and run releases, also from within a release: one *)
(* that was asked for and is not begun is in exactly one place, the queue, *)
(* the hands of the thread that asks, or those of one that swapped it out. *)
THEOREM NoReleaseIsLost == QueueSpec => []NothingLost
<1>1. QueueInv => NothingLost
  BY Zenon DEF QueueInv, WaitOK, Counted, NothingLost
<1>2. QueueInit => QueueInv
  BY CountingHolds, InitQueueInv
<1>3. QueueInv /\ [QueueNext]_queueVars => QueueInv'
  BY CountingHolds, StepQueueInv
<1> QED
  BY <1>1, <1>2, <1>3, PTL DEF QueueSpec

(* The calls and releases of ForeignResources drive the queue of deferred  *)
(* releases (deferred.cpp) only as its own specification allows.   *)
THEOREM UsesTheQueue == Spec => QueueSpec
<1>1. Init => QueueInit
  BY Zenon DEF Init
<1> QED
  BY <1>1, StepOfQueue, PTL DEF Spec, QueueSpec

(* The blocks, the calls on them, their counts and the queue satisfy the   *)
(* inductive invariant in every reachable state (foreign.cpp,              *)
(* deferred.cpp).                                                  *)
THEOREM ResourcesAreSound == Spec => []ResourceInv
<1>1. Init => ResourceInv
  BY Zenon, CountingHolds, InitResourceInv
<1>2. ResourceInv /\ [Next]_vars => ResourceInv'
  BY Zenon, CountingHolds, StepResourceInv
<1> QED
  BY <1>1, <1>2, PTL DEF Spec

(* refCount_ counts the references there are, and no call is ever inside a *)
(* block that is freed (foreign.cpp: retainReference, releaseReference,    *)
(* dispose), however finalizers, drains and the end of the run interleave. *)
THEOREM RefCountIsExact == Spec => []CountsReferences
<1>1. ResourceInv => CountsReferences
  <2> SUFFICES ASSUME ResourceInv PROVE CountsReferences
    BY Zenon
  <2>1. \A b \in Blocks : ctl[b].refs = References(b)
    BY Zenon DEF ResourceInv, CountOK, RefsOK
  <2>2. \A p \in Calls : Frame(p).block # None => ctl[Frame(p).block].life = "live"
    BY SMTT(30), CallIsOnALiveBlock DEF ResourceInv
  <2> QED
    BY <2>1, <2>2 DEF CountsReferences
<1> QED
  BY <1>1, ResourcesAreSound, PTL

(* The deleter of a resource runs at most once, and has run when the block *)
(* is deleted: the exchange of disposed_ picks one dispose, and the block  *)
(* is freed only behind it.                                                *)
THEOREM DeleterRunsOnce == Spec => []DeletedOnce
<1>1. ResourceInv => DeletedOnce
  BY ZenonT(40) DEF ResourceInv, ForeignInv, BlocksOK, DeletedOnce
<1> QED
  BY <1>1, ResourcesAreSound, PTL

(* While the program runs a wrapper's resource is there, unless an operator *)
(* has disposed it (ForeignResourceObject::resource, isDisposed).           *)
THEOREM WrappedIsUsable == Spec => []ReachableIsUsable
<1>1. ResourceInv => ReachableIsUsable
  <2> SUFFICES ASSUME ResourceInv, NEW w \in Wrappers, wrapper[w] \in Blocks \ disposed, phase = "running"
               PROVE  /\ ctl[wrapper[w]].resource /\ ~ctl[wrapper[w]].disposed
                      /\ deleted[wrapper[w]] = 0
    BY Zenon DEF ReachableIsUsable
  <2>1. PICK b \in Blocks : b = wrapper[w]
    BY Zenon
  <2>2. ForeignInv /\ Referred
    BY SMTT(30), Shaped, OwedTyped, CountingHolds, CountsRefer DEF ResourceInv, ForeignInv
  <2>3. ctl[b].refs > 0
    BY SMTT(30), <2>1, <2>2 DEF Referred, Wrapping
  <2>4. ctl[b].refs \in Nat /\ ctl[b].refs # 0
    BY SMTT(30), <2>2, <2>3 DEF ForeignInv, TypesOK, ControlType
  <2>5. ~ctl[b].disposed
    BY Zenon, <2>1, <2>2, <2>4 DEF ForeignInv, UsableOK
  <2>6. ctl[b].life = "live"
    BY ZenonT(40), <2>2, <2>3 DEF ForeignInv, BlocksOK
  <2> QED
    BY ZenonT(40), <2>1, <2>2, <2>5, <2>6 DEF ForeignInv, BlocksOK
<1> QED
  BY <1>1, ResourcesAreSound, PTL

(* disposeAllForeignResources deletes what it has found newest first.      *)
THEOREM NewestIsDeletedFirst == Spec => []NewerDeletedFirst
<1>1. ResourceInv => NewerDeletedFirst
  <2> SUFFICES ASSUME ResourceInv, NEW b \in gathered, NEW c \in gathered,
                      ctl[b].debugId > ctl[c].debugId, deleted[c] = 1
               PROVE  deleted[b] = 1
    BY DEF NewerDeletedFirst
  <2>0. ForeignInv /\ b \in Blocks /\ c \in Blocks
    BY Zenon DEF ResourceInv, ForeignInv, TypesOK
  <2>1. CASE b \notin held
    BY ZenonT(40), <2>0, <2>1 DEF ForeignInv, EndOK
  <2>2. CASE b \in held
    <3>1. ctl[b].debugId \in Nat /\ ctl[c].debugId \in Nat
      BY ZenonT(40), <2>0 DEF ForeignInv, TypesOK, ControlType
    <3>2. CASE c \notin held
      <4>1. ctl[b].debugId < ctl[c].debugId
        BY ZenonT(40), <2>0, <2>2, <3>2 DEF ForeignInv, EndOK
      <4> QED
        BY SMTT(30), <3>1, <4>1
    <3>3. CASE c \in held
      <4>1. ctl[c].disposed
        BY SMTT(30), <2>0 DEF ForeignInv, BlocksOK
      <4>2. NextHeld(c)
        BY Zenon, <2>0, <3>3, <4>1 DEF ForeignInv, EndOK
      <4>3. ctl[b].debugId <= ctl[c].debugId
        BY SMTT(30), <2>2, <4>2 DEF NextHeld
      <4> QED
        BY SMTT(30), <3>1, <4>3
    <3> QED
      BY ZenonT(40), <3>2, <3>3
  <2> QED
    BY ZenonT(40), <2>1, <2>2
<1> QED
  BY <1>1, ResourcesAreSound, PTL

(* No deferred release is lost on its way through the queue, as the        *)
(* finalizers, safepoints and deleters of ForeignResources use it.         *)
THEOREM DeferredReleasesArrive == Spec => [](FlagTells /\ NothingLost)
BY UsesTheQueue, FlagIsReliable, NoReleaseIsLost, PTL

=============================================================================
