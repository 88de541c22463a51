-------------------------- MODULE AsyncAtomicHooks --------------------------
(***************************************************************************)
(* What holds of AsyncAtomic for a program that leaves transactions to     *)
(* aatomic() (Managed): which blocks can only be taken back; that the      *)
(* server's frames hold the work of the blocks the program is in; that the *)
(* hooks that wait are those of pending work, and a hook runs only when    *)
(* its work is durable.  With that, AsyncAtomic implements                 *)
(* NestedTransaction.                                                      *)
(***************************************************************************)
EXTENDS AsyncAtomicProofs

\* What the program did in its q outermost blocks.
Done(q) == UNION {open[j].work : j \in 1 .. q}

\* The pending effects below the p-th savepoint of the server.
Below(p) == UNION {frames[i] : i \in 1 .. p}

-----------------------------------------------------------------------------
(* The ledger, element by element.                                         *)

\* Every block of the ledger is a record of work and doom.
LEMMA LedgerBlocks ==
  ASSUME open \in Seq(Ledger)
  PROVE  /\ Len(open) \in Nat /\ DOMAIN open = 1 .. Len(open)
         /\ open # <<>> => Len(open) >= 1 /\ Last(open) = open[Len(open)]
         /\ \A j \in DOMAIN open : /\ open[j] \in Ledger
                                   /\ open[j].work \in SUBSET Effect
                                   /\ open[j].doomed \in BOOLEAN
<1>1. \A j \in DOMAIN open : open[j] \in Ledger
  BY ElementOfSeq, LenProperties
<1> QED
  BY <1>1, EmptySeq, LenProperties DEF Ledger, Last

\* Entering a block adds it on top; what was done before stays below it.
LEMMA PushBlock ==
  ASSUME open \in Seq(Ledger), NEW n, n = Len(open), OpenBlock
  PROVE  /\ open' \in Seq(Ledger) /\ Len(open') = n + 1
         /\ \A j \in DOMAIN open : open'[j] = open[j]
         /\ open'[n + 1] = [work |-> {}, doomed |-> open # <<>> /\ Last(open).doomed]
         /\ \A q \in 0 .. n : Done(q)' = Done(q)
         /\ Done(n + 1)' = Done(n)
<1> DEFINE top == [work |-> {}, doomed |-> open # <<>> /\ Last(open).doomed]
<1>1. n \in Nat /\ DOMAIN open = 1 .. n /\ top \in Ledger
  BY LedgerBlocks DEF Ledger
<1>2. /\ open' \in Seq(Ledger) /\ Len(open') = n + 1
      /\ \A j \in 1 .. n : open'[j] = open[j]
      /\ open'[n + 1] = top
  BY <1>1, AppendProperties DEF OpenBlock
<1>3. top.work = {}
  OBVIOUS
<1> HIDE DEF top
<1>4. ASSUME NEW q \in 0 .. n
      PROVE  Done(q)' = Done(q)
  <2>1. \A j \in 1 .. q : open'[j] = open[j]
    BY <1>1, <1>2
  <2> QED
    BY <2>1 DEF Done
<1>5. Done(n + 1)' = Done(n)
  <2>1. \A j \in 1 .. n + 1 : j \in 1 .. n \/ j = n + 1
    BY <1>1
  <2>2. \A j \in 1 .. n : j \in 1 .. n + 1
    BY <1>1
  <2> QED
    <3>1. \A x : x \in Done(n + 1)' <=> \E j \in 1 .. n + 1 : x \in open'[j].work
      BY DEF Done
    <3>2. \A x : x \in Done(n) <=> \E j \in 1 .. n : x \in open[j].work
      BY DEF Done
    <3>3. \A j \in 1 .. n : open'[j].work = open[j].work
      BY <1>2
    <3>4. \A x : x \in Done(n + 1)' <=> x \in Done(n)
      BY <1>2, <1>3, <2>1, <2>2, <3>1, <3>2, <3>3
    <3> QED
      BY <3>4
<1> QED
  BY <1>1, <1>2, <1>4, <1>5 DEF top

\* Working in the innermost block leaves those around it alone.
LEMMA OwnBlock ==
  ASSUME open \in Seq(Ledger), open # <<>>, NEW n, n = Len(open), NEW e \in Effect, Own(e)
  PROVE  /\ open' \in Seq(Ledger) /\ Len(open') = n
         /\ \A j \in DOMAIN open : j # n => open'[j] = open[j]
         /\ \A j \in DOMAIN open : open'[j].doomed = open[j].doomed
         /\ \A q \in 0 .. n - 1 : Done(q)' = Done(q)
         /\ Done(n)' = Done(n) \union {e}
<1>1. n \in DOMAIN open /\ n \in Nat /\ n >= 1 /\ DOMAIN open = 1 .. n
  BY LedgerBlocks
<1>2. open' \in Seq(Ledger) /\ Len(open') = n
  BY TopType, TopLen DEF Own
<1>3. open' = [open EXCEPT ![n].work = @ \union {e}] /\ open[n] \in Ledger
  BY <1>1, LedgerBlocks DEF Own
<1>4. /\ \A j \in DOMAIN open : j # n => open'[j] = open[j]
      /\ \A j \in DOMAIN open : open'[j].doomed = open[j].doomed
      /\ open'[n].work = open[n].work \union {e}
  BY <1>1, <1>3 DEF Ledger
<1>5. ASSUME NEW q \in 0 .. n - 1
      PROVE  Done(q)' = Done(q)
  <2>1. \A j \in 1 .. q : open'[j] = open[j]
    BY <1>1, <1>4
  <2> QED
    BY <2>1 DEF Done
<1>6. Done(n)' = Done(n) \union {e}
  <2>1. \A j \in 1 .. n : open'[j].work = IF j = n THEN open[n].work \union {e} ELSE open[j].work
    BY <1>1, <1>4
  <2>2. n \in 1 .. n
    BY <1>1
  <2> QED
    <3>1. \A x : x \in Done(n)' <=> \E j \in 1 .. n : x \in open'[j].work
      BY DEF Done
    <3>2. \A x : x \in Done(n) <=> \E j \in 1 .. n : x \in open[j].work
      BY DEF Done
    <3>3. \A x : x \in Done(n)' <=> x \in Done(n) \union {e}
      BY <2>1, <2>2, <3>1, <3>2
    <3> QED
      BY <3>3
<1> QED
  BY <1>2, <1>4, <1>5, <1>6

\* Dooming the innermost block changes nothing else in the ledger.
LEMMA DoomBlock ==
  ASSUME open \in Seq(Ledger), open # <<>>, NEW n, n = Len(open), DoomTop
  PROVE  /\ open' \in Seq(Ledger) /\ Len(open') = n
         /\ \A j \in DOMAIN open : j # n => open'[j] = open[j]
         /\ open'[n].doomed = TRUE
         /\ \A q \in 0 .. n : Done(q)' = Done(q)
<1>1. n \in DOMAIN open /\ n \in Nat /\ n >= 1 /\ DOMAIN open = 1 .. n
  BY LedgerBlocks
<1>2. open' \in Seq(Ledger) /\ Len(open') = n
  BY TopType, TopLen DEF DoomTop
<1>3. open' = [open EXCEPT ![n].doomed = TRUE] /\ open[n] \in Ledger
  BY <1>1, LedgerBlocks DEF DoomTop
<1>4. /\ \A j \in DOMAIN open : j # n => open'[j] = open[j]
      /\ \A j \in DOMAIN open : open'[j].work = open[j].work
      /\ open'[n].doomed = TRUE
  BY <1>1, <1>3 DEF Ledger
<1>5. ASSUME NEW q \in 0 .. n
      PROVE  Done(q)' = Done(q)
  <2>1. \A j \in 1 .. q : open'[j].work = open[j].work
    BY <1>1, <1>4
  <2> QED
    BY <2>1 DEF Done
<1> QED
  BY <1>2, <1>4, <1>5

\* Leaving a nested block and keeping its work hands the work to the parent.
LEMMA KeepParent ==
  ASSUME open \in Seq(Ledger), NEW m \in Nat, Len(open) = m + 1, m >= 1, KeepBlock
  PROVE  /\ open' \in Seq(Ledger) /\ Len(open') = m
         /\ \A j \in 1 .. m : open'[j].doomed = open[j].doomed
         /\ \A q \in 0 .. m - 1 : Done(q)' = Done(q)
         /\ Done(m)' = Done(m + 1)
<1> DEFINE n == m + 1
<1>1. n \in Nat /\ n = m + 1 /\ Len(open) = n /\ DOMAIN open = 1 .. n /\ open # <<>>
      /\ Len(open) - 1 = m /\ Len(open) # 1
  BY LedgerBlocks
<1>2. Front(open) \in Seq(Ledger) /\ Len(Front(open)) = m /\ \A j \in 1 .. m : Front(open)[j] = open[j]
  BY <1>1, FrontProp
<1>3. open' \in Seq(Ledger) /\ Len(open') = m
  <2>1. open' \in Seq(Ledger) /\ Len(open') = Len(open) - 1
    BY <1>1, LedgerLen
  <2> HIDE DEF n
  <2> QED
    BY <1>1, <2>1
<1>4. open' = [Front(open) EXCEPT ![m].work = @ \union Last(open).work] /\ Last(open) = open[n]
  <2>1. open' = [Front(open) EXCEPT ![Len(open) - 1].work = @ \union Last(open).work]
    BY <1>1, Zenon DEF KeepBlock
  <2>2. Last(open) = open[Len(open)]
    BY DEF Last
  <2> HIDE DEF n
  <2> QED
    BY <1>1, <2>1, <2>2
<1>5. DOMAIN Front(open) = 1 .. m /\ DOMAIN open' = 1 .. m
  BY <1>2, <1>3, LenProperties
<1>6. \A j \in DOMAIN open : open[j] \in Ledger
  BY LedgerBlocks
<1> HIDE DEF n
<1>7. m \in 1 .. m /\ \A j \in 1 .. m : j \in DOMAIN open
  BY <1>1
<1>8. /\ \A j \in 1 .. m : j # m => open'[j] = open[j]
      /\ \A j \in 1 .. m : open'[j].doomed = open[j].doomed
      /\ open'[m].work = open[m].work \union open[n].work
  BY <1>2, <1>4, <1>5, <1>6, <1>7 DEF Ledger
<1>9. ASSUME NEW q \in 0 .. m - 1
      PROVE  Done(q)' = Done(q)
  <2>1. \A j \in 1 .. q : open'[j] = open[j]
    BY <1>1, <1>8
  <2> QED
    BY <2>1 DEF Done
<1>10. Done(m)' = Done(n)
  <2>1. \A j \in 1 .. n : j \in 1 .. m \/ j = n
    BY <1>1
  <2>2. n \in 1 .. n /\ \A j \in 1 .. m : j \in 1 .. n
    BY <1>1
  <2>3. \A j \in 1 .. m : open'[j].work = IF j = m THEN open[m].work \union open[n].work ELSE open[j].work
    BY <1>8
  <2> QED
    <3>1. \A x : x \in Done(m)' <=> \E j \in 1 .. m : x \in open'[j].work
      BY DEF Done
    <3>2. \A x : x \in Done(n) <=> \E j \in 1 .. n : x \in open[j].work
      BY DEF Done
    <3>3. \A x : x \in Done(m)' <=> x \in Done(n)
      BY <1>7, <2>1, <2>2, <2>3, <3>1, <3>2
    <3> QED
      BY <3>3
<1> QED
  BY <1>3, <1>8, <1>9, <1>10 DEF n

\* Leaving a nested block and giving its work up leaves the parent's work alone.
LEMMA DiscardParent ==
  ASSUME open \in Seq(Ledger), NEW m \in Nat, Len(open) = m + 1, m >= 1,
         NEW d \in BOOLEAN, DiscardBlock(d)
  PROVE  /\ open' \in Seq(Ledger) /\ Len(open') = m
         /\ \A j \in 1 .. m : j # m => open'[j].doomed = open[j].doomed
         /\ open'[m].doomed = (open[m].doomed \/ d)
         /\ \A q \in 0 .. m : Done(q)' = Done(q)
<1> DEFINE n == m + 1
<1>1. n \in Nat /\ n = m + 1 /\ Len(open) = n /\ DOMAIN open = 1 .. n /\ open # <<>>
      /\ Len(open) - 1 = m /\ Len(open) # 1
  BY LedgerBlocks
<1>2. Front(open) \in Seq(Ledger) /\ Len(Front(open)) = m /\ \A j \in 1 .. m : Front(open)[j] = open[j]
  BY <1>1, FrontProp
<1>3. open' \in Seq(Ledger) /\ Len(open') = m
  <2>1. open' \in Seq(Ledger) /\ Len(open') = Len(open) - 1
    BY <1>1, LedgerLen
  <2> HIDE DEF n
  <2> QED
    BY <1>1, <2>1
<1>4. open' = [Front(open) EXCEPT ![m].doomed = @ \/ d]
  <2>1. open' = [Front(open) EXCEPT ![Len(open) - 1].doomed = @ \/ d]
    BY <1>1, Zenon DEF DiscardBlock
  <2> HIDE DEF n
  <2> QED
    BY <1>1, <2>1
<1>5. DOMAIN Front(open) = 1 .. m /\ DOMAIN open' = 1 .. m
  BY <1>2, <1>3, LenProperties
<1>6. \A j \in DOMAIN open : open[j] \in Ledger
  BY LedgerBlocks
<1> HIDE DEF n
<1>7. m \in 1 .. m /\ \A j \in 1 .. m : j \in DOMAIN open
  BY <1>1
<1>8. /\ \A j \in 1 .. m : j # m => open'[j].doomed = open[j].doomed
      /\ \A j \in 1 .. m : open'[j].work = open[j].work
      /\ open'[m].doomed = (open[m].doomed \/ d)
  BY <1>2, <1>4, <1>5, <1>6, <1>7 DEF Ledger
<1>9. ASSUME NEW q \in 0 .. m
      PROVE  Done(q)' = Done(q)
  <2>1. \A j \in 1 .. q : open'[j].work = open[j].work
    BY <1>1, <1>8
  <2> QED
    BY <2>1 DEF Done
<1> QED
  BY <1>3, <1>8, <1>9

-----------------------------------------------------------------------------
(* The server's frames, savepoint by savepoint.                            *)

\* Pending is what all the frames hold.
LEMMA PendingIsBelow ==
  ASSUME TypeOK
  PROVE  /\ Pending = Below(Len(frames))
         /\ Len(frames) = Len(marks) + 1 /\ Len(marks) \in Nat
         /\ DOMAIN marks = 1 .. Len(marks) /\ DOMAIN frames = 1 .. Len(frames)
         /\ frames \in Seq(SUBSET Effect) /\ marks \in Seq(1 .. MaxSid)
<1>1. /\ frames \in Seq(SUBSET Effect) /\ marks \in Seq(1 .. MaxSid)
      /\ Len(frames) = Len(marks) + 1
  BY DEF TypeOK, SessionTypeOK
<1>2. DOMAIN frames = 1 .. Len(frames) /\ DOMAIN marks = 1 .. Len(marks) /\ Len(marks) \in Nat
  BY <1>1, LenProperties
<1> QED
  BY <1>1, <1>2 DEF Pending, Below

\* A new effect lands above every savepoint.
LEMMA AddAbove ==
  ASSUME TypeOK, NEW e \in Effect, AddToTop(e), UNCHANGED marks
  PROVE  /\ \A p \in DOMAIN marks : Below(p)' = Below(p)
         /\ Pending' = Pending \union {e}
<1> DEFINE n == Len(frames)
           m == Len(marks)
<1>1. n = m + 1 /\ m \in Nat /\ DOMAIN marks = 1 .. m /\ DOMAIN frames = 1 .. n
  BY PendingIsBelow
<1>2. frames' = [frames EXCEPT ![n] = @ \union {e}]
  BY DEF AddToTop
<1> HIDE DEF n, m
<1>3. n \in DOMAIN frames
  BY <1>1
<1>4. DOMAIN frames' = DOMAIN frames
      /\ \A i \in DOMAIN frames : frames'[i] = IF i = n THEN frames[n] \union {e} ELSE frames[i]
  BY <1>2, <1>3
<1>5. ASSUME NEW p \in DOMAIN marks
      PROVE  Below(p)' = Below(p)
  <2>1. \A i \in 1 .. p : i \in DOMAIN frames /\ i # n
    BY <1>1
  <2>2. \A i \in 1 .. p : frames'[i] = frames[i]
    BY <1>4, <2>1
  <2> QED
    BY <2>2 DEF Below
<1>6. Pending' = Pending \union {e}
  <2>1. \A x : x \in Pending' <=> \E i \in DOMAIN frames : x \in frames'[i]
    BY <1>4 DEF Pending
  <2>2. \A x : x \in Pending <=> \E i \in DOMAIN frames : x \in frames[i]
    BY DEF Pending
  <2>3. \A x : x \in Pending' <=> x \in Pending \union {e}
    BY <1>3, <1>4, <2>1, <2>2
  <2> QED
    BY <2>3
<1> QED
  BY <1>5, <1>6

\* A new savepoint: everything pending is below it.
LEMMA SavepointAbove ==
  ASSUME TypeOK, NEW sid \in 1 .. MaxSid, NEW m, m = Len(marks), Savepoint(sid)
  PROVE  /\ DOMAIN marks' = 1 .. m + 1
         /\ \A p \in DOMAIN marks : marks'[p] = marks[p] /\ Below(p)' = Below(p)
         /\ marks'[m + 1] = sid /\ Below(m + 1)' = Pending
         /\ Pending' = Pending
<1> DEFINE n == m + 1
<1>1. /\ n = m + 1 /\ n = Len(frames) /\ m \in Nat /\ DOMAIN marks = 1 .. m /\ DOMAIN frames = 1 .. n
      /\ frames \in Seq(SUBSET Effect) /\ marks \in Seq(1 .. MaxSid) /\ Pending = Below(n)
  BY PendingIsBelow
<1>2. DOMAIN marks' = 1 .. m + 1 /\ marks'[m + 1] = sid /\ \A p \in 1 .. m : marks'[p] = marks[p]
  BY <1>1, AppendProperties, LenProperties DEF Savepoint
<1>3. {} \in SUBSET Effect
  OBVIOUS
<1>4. DOMAIN frames' = 1 .. n + 1 /\ frames'[n + 1] = {} /\ \A p \in 1 .. n : frames'[p] = frames[p]
  BY <1>1, <1>3, AppendProperties, LenProperties DEF Savepoint
<1> HIDE DEF n
<1>5. ASSUME NEW p \in 1 .. n
      PROVE  Below(p)' = Below(p)
  <2>1. \A i \in 1 .. p : frames'[i] = frames[i]
    BY <1>1, <1>4
  <2> QED
    BY <2>1 DEF Below
<1>6. Pending' = Pending
  <2>1. \A x : x \in Pending' <=> \E i \in 1 .. n + 1 : x \in frames'[i]
    BY <1>4 DEF Pending
  <2>2. \A x : x \in Pending <=> \E i \in 1 .. n : x \in frames[i]
    BY <1>1 DEF Pending
  <2>3. (\A i \in 1 .. n + 1 : i \in 1 .. n \/ i = n + 1) /\ (\A i \in 1 .. n : i \in 1 .. n + 1)
    BY <1>1
  <2>4. \A x : x \in Pending' <=> x \in Pending
    BY <1>4, <2>1, <2>2, <2>3
  <2> QED
    BY <2>4
<1>7. \A p \in DOMAIN marks : marks'[p] = marks[p] /\ Below(p)' = Below(p)
  <2>1. \A p \in DOMAIN marks : p \in 1 .. n
    BY <1>1
  <2> QED
    BY <1>1, <1>2, <1>5, <2>1
<1>8. Below(n)' = Pending
  <2>1. n \in 1 .. n
    BY <1>1
  <2> QED
    BY <1>1, <1>5, <2>1
<1> QED
  BY <1>1, <1>2, <1>6, <1>7, <1>8

\* The savepoints older than the one that goes, and what is below them, stay.
LEMMA CutBelow ==
  ASSUME TypeOK, NEW i \in DOMAIN marks, marks' = SubSeq(marks, 1, i - 1),
         \A j \in 1 .. i - 1 : frames'[j] = frames[j]
  PROVE  /\ DOMAIN marks' = 1 .. i - 1
         /\ \A p \in DOMAIN marks' : /\ p \in DOMAIN marks /\ marks'[p] = marks[p]
                                     /\ Below(p)' = Below(p)
<1>1. i \in 1 .. Len(marks) /\ Len(marks) \in Nat /\ DOMAIN marks = 1 .. Len(marks)
      /\ marks \in Seq(1 .. MaxSid)
  BY PendingIsBelow
<1>2. i - 1 \in Nat /\ i - 1 <= Len(marks)
  BY <1>1
<1>3. marks' \in Seq(1 .. MaxSid) /\ Len(marks') = i - 1 /\ \A p \in 1 .. i - 1 : marks'[p] = marks[p]
  BY <1>1, <1>2, PrefixType
<1>4. DOMAIN marks' = 1 .. i - 1
  BY <1>3, LenProperties
<1>5. ASSUME NEW p \in 1 .. i - 1
      PROVE  p \in DOMAIN marks /\ Below(p)' = Below(p)
  <2>1. \A j \in 1 .. p : frames'[j] = frames[j]
    BY <1>1
  <2>2. p \in DOMAIN marks
    BY <1>1
  <2> QED
    BY <2>1, <2>2 DEF Below
<1> QED
  BY <1>3, <1>4, <1>5

\* RELEASE keeps everything pending.
LEMMA ReleaseBelow ==
  ASSUME TypeOK, NEW sid, Release(sid)
  PROVE  /\ \A p \in DOMAIN marks' : /\ p \in DOMAIN marks /\ marks'[p] = marks[p]
                                     /\ Below(p)' = Below(p)
         /\ Pending' = Pending
<1> DEFINE n == Len(frames)
           m == Len(marks)
<1>1. /\ n = m + 1 /\ m \in Nat /\ DOMAIN marks = 1 .. m /\ DOMAIN frames = 1 .. n
      /\ frames \in Seq(SUBSET Effect)
  BY PendingIsBelow
<1>2. PICK i \in DOMAIN marks :
         /\ marks' = SubSeq(marks, 1, i - 1)
         /\ frames' = Append(SubSeq(frames, 1, i - 1), UNION {frames[j] : j \in i .. n})
  BY DEF Release
<1> DEFINE rest == UNION {frames[j] : j \in i .. n}
           kept == SubSeq(frames, 1, i - 1)
<1>3. i \in 1 .. m /\ i - 1 \in Nat /\ i - 1 <= n
  BY <1>1, <1>2
<1>4. kept \in Seq(SUBSET Effect) /\ Len(kept) = i - 1 /\ \A j \in 1 .. i - 1 : kept[j] = frames[j]
  BY <1>1, <1>3, PrefixType
<1>5. rest \in SUBSET Effect
  <2>1. \A j \in i .. n : j \in DOMAIN frames
    BY <1>1, <1>3
  <2>2. \A j \in i .. n : frames[j] \in SUBSET Effect
    BY <1>1, <2>1, ElementOfSeq
  <2> QED
    BY <2>2
<1>6. \A x : x \in rest <=> \E j \in i .. n : x \in frames[j]
  OBVIOUS
<1> HIDE DEF rest, kept, n, m
<1>7. frames' = Append(kept, rest)
  BY <1>2 DEF rest, kept, n
<1>8. /\ DOMAIN frames' = 1 .. i
      /\ \A j \in 1 .. i - 1 : frames'[j] = frames[j]
      /\ frames'[i] = rest
  <2>1. Len(frames') = i - 1 + 1 /\ frames' \in Seq(SUBSET Effect)
    BY <1>4, <1>5, <1>7, AppendProperties
  <2>2. i - 1 + 1 = i
    BY <1>3
  <2>3. DOMAIN frames' = 1 .. i
    BY <2>1, <2>2, LenProperties
  <2>4. (\A j \in 1 .. i - 1 : frames'[j] = kept[j]) /\ frames'[i] = rest
    BY <1>4, <1>5, <1>7, <2>2, AppendProperties
  <2> QED
    BY <1>4, <2>3, <2>4
<1>9. Pending' = Pending
  <2>1. \A x : x \in Pending' <=> \E j \in 1 .. i : x \in frames'[j]
    BY <1>8 DEF Pending
  <2>2. \A x : x \in Pending <=> \E j \in 1 .. n : x \in frames[j]
    BY <1>1 DEF Pending
  <2>3. /\ \A j \in 1 .. i : j \in 1 .. i - 1 \/ j = i
        /\ \A j \in 1 .. n : j \in 1 .. i - 1 \/ j \in i .. n
        /\ \A j \in 1 .. i - 1 : j \in 1 .. i /\ j \in 1 .. n
        /\ \A j \in i .. n : j \in 1 .. n
        /\ i \in 1 .. i
    BY <1>1, <1>3
  <2>4. ASSUME NEW x, x \in Pending'
        PROVE  x \in Pending
    BY <1>6, <1>8, <2>1, <2>2, <2>3, <2>4
  <2>5. ASSUME NEW x, x \in Pending
        PROVE  x \in Pending'
    BY <1>6, <1>8, <2>1, <2>2, <2>3, <2>5
  <2> QED
    BY <2>4, <2>5
<1> QED
  BY <1>2, <1>8, <1>9, CutBelow

\* ROLLBACK TO takes back exactly what is above the savepoint.
LEMMA RollbackBelow ==
  ASSUME TypeOK, NEW sid, RollbackTo(sid)
  PROVE  /\ \A p \in DOMAIN marks' : /\ p \in DOMAIN marks /\ marks'[p] = marks[p]
                                     /\ Below(p)' = Below(p)
         /\ \E i \in DOMAIN marks : marks[i] = sid /\ Pending' = Below(i)
<1> DEFINE n == Len(frames)
           m == Len(marks)
<1>1. /\ n = m + 1 /\ m \in Nat /\ DOMAIN marks = 1 .. m /\ DOMAIN frames = 1 .. n
      /\ frames \in Seq(SUBSET Effect)
  BY PendingIsBelow
<1>2. PICK i \in DOMAIN marks : /\ marks[i] = sid /\ marks' = SubSeq(marks, 1, i - 1)
                                /\ frames' = SubSeq(frames, 1, i)
  BY DEF RollbackTo
<1> HIDE DEF n, m
<1>3. i \in 1 .. m /\ i \in Nat /\ i <= n
  BY <1>1, <1>2
<1>4. frames' \in Seq(SUBSET Effect) /\ Len(frames') = i /\ \A j \in 1 .. i : frames'[j] = frames[j]
  BY <1>1, <1>2, <1>3, PrefixType DEF n
<1>5. DOMAIN frames' = 1 .. i /\ \A j \in 1 .. i - 1 : j \in 1 .. i
  BY <1>3, <1>4, LenProperties
<1>6. Pending' = Below(i)
  <2>1. \A x : x \in Pending' <=> \E j \in 1 .. i : x \in frames'[j]
    BY <1>5 DEF Pending
  <2>2. \A x : x \in Below(i) <=> \E j \in 1 .. i : x \in frames[j]
    BY DEF Below
  <2>3. \A x : x \in Pending' <=> x \in Below(i)
    BY <1>4, <2>1, <2>2
  <2> QED
    BY <2>3
<1> QED
  BY <1>2, <1>4, <1>5, <1>6, CutBelow

-----------------------------------------------------------------------------
(* needs_rollback against the program's blocks.                            *)

\* A block that can only be taken back dooms every block inside it, and none of
\* those has a savepoint of its own; needs_rollback says so of the innermost.
Dooms ==
  /\ closed_in_transaction /\ in_atomic_block => needs_rollback
  /\ \A j, k \in DOMAIN open : j < k /\ open[j].doomed =>
       open[k].doomed /\ savepoint_ids[k - 1] = None
  /\ open # <<>> => (Last(open).doomed <=> needs_rollback)

\* While needs_rollback is down nothing in the ledger is doomed.
LEMMA NothingDoomed ==
  ASSUME TypeOK, Dooms, ~needs_rollback
  PROVE  \A j \in DOMAIN open : ~open[j].doomed
<1> SUFFICES ASSUME NEW j \in DOMAIN open, open[j].doomed PROVE FALSE
  OBVIOUS
<1>1. /\ Len(open) \in Nat /\ DOMAIN open = 1 .. Len(open)
      /\ open # <<>> /\ Len(open) >= 1 /\ Last(open) = open[Len(open)]
  BY LedgerBlocks DEF TypeOK, StackTypeOK
<1>2. ~open[Len(open)].doomed
  BY <1>1 DEF Dooms
<1>3. j < Len(open) /\ Len(open) \in DOMAIN open
  BY <1>1, <1>2
<1> QED
  BY <1>2, <1>3 DEF Dooms

\* A block entered while the transaction waits for a rollback gets no savepoint.
LEMMA EnterDooms ==
  ASSUME TypeOK, Control, Dooms, Managed, NEW b \in Kinds, AEnter(b)
  PROVE  Dooms'
<1> PICK n \in Nat : n = Len(open)
  BY LedgerBlocks DEF TypeOK, StackTypeOK
<1>1. /\ open \in Seq(Ledger) /\ DOMAIN open = 1 .. n /\ (open # <<>> => n >= 1 /\ Last(open) = open[n])
      /\ savepoint_ids \in Seq(SidOrNone)
  BY LedgerBlocks DEF TypeOK, StackTypeOK
<1>2. Inside => in_atomic_block /\ open # <<>> /\ Len(savepoint_ids) = n - 1
  BY LenProperties, <1>1 DEF Inside, Control, Modes, Stacks
<1>3. OpenBlock => /\ DOMAIN open' = 1 .. n + 1 /\ open' # <<>> /\ Last(open') = open'[n + 1]
                   /\ \A j \in 1 .. n : open'[j] = open[j]
                   /\ open'[n + 1].doomed <=> open # <<>> /\ Last(open).doomed
  <2> SUFFICES ASSUME OpenBlock
               PROVE  /\ DOMAIN open' = 1 .. n + 1 /\ open' # <<>> /\ Last(open') = open'[n + 1]
                      /\ \A j \in 1 .. n : open'[j] = open[j]
                      /\ open'[n + 1].doomed <=> open # <<>> /\ Last(open).doomed
    OBVIOUS
  <2>1. /\ open' \in Seq(Ledger) /\ Len(open') = n + 1
        /\ \A j \in DOMAIN open : open'[j] = open[j]
        /\ open'[n + 1] = [work |-> {}, doomed |-> open # <<>> /\ Last(open).doomed]
    BY <1>1, PushBlock
  <2>2. open'[n + 1].doomed <=> open # <<>> /\ Last(open).doomed
    <3> DEFINE d == open # <<>> /\ Last(open).doomed
    <3>1. open'[n + 1] = [work |-> {}, doomed |-> d]
      BY <2>1
    <3> HIDE DEF d
    <3>2. open'[n + 1].doomed = d
      BY <3>1
    <3>3. open'[n + 1].doomed <=> d
      BY <3>2
    <3> QED
      BY <3>3 DEF d
  <2>3. DOMAIN open' = 1 .. n + 1 /\ open' # <<>> /\ Last(open') = open'[n + 1]
    BY <2>1, LenProperties, EmptyLen DEF Last
  <2> QED
    BY <1>1, <2>1, <2>2, <2>3
<1>4. CASE EnterSavepoint(b)
  <2>1. Inside /\ ~needs_rollback /\ OpenBlock /\ needs_rollback' = FALSE
        /\ closed_in_transaction' = closed_in_transaction
    BY <1>2, <1>4 DEF EnterSavepoint, WantsSavepoint, Entered, PretendAtomic
  <2>2. \A j \in 1 .. n : ~open[j].doomed
    BY <1>1, <2>1, NothingDoomed
  <2>3. ~open'[n + 1].doomed
    BY <1>1, <1>2, <1>3, <2>1, <2>2
  <2>4. \A j \in 1 .. n + 1 : ~open'[j].doomed
    <3>1. \A j \in 1 .. n + 1 : j \in 1 .. n \/ j = n + 1
      OBVIOUS
    <3> QED
      BY <1>3, <2>1, <2>2, <2>3, <3>1
  <2>5. ~closed_in_transaction
    BY <1>2, <2>1 DEF Dooms
  <2> QED
    BY <1>3, <2>1, <2>3, <2>4, <2>5 DEF Dooms
<1>5. CASE EnterWithoutSavepoint(b)
  <2>1. /\ Inside /\ OpenBlock /\ needs_rollback' = needs_rollback
        /\ closed_in_transaction' = closed_in_transaction
        /\ savepoint_ids' = Append(savepoint_ids, None)
    BY <1>2, <1>5 DEF EnterWithoutSavepoint, Entered, PretendAtomic, TypeOK, FlagsTypeOK
  <2>2. None \in SidOrNone
    BY ConstantsAssumption DEF None, SidOrNone
  <2>3. n - 1 \in Nat /\ Len(savepoint_ids) = n - 1 /\ n \in 1 .. n
    BY <1>1, <1>2, <2>1
  <2>4. savepoint_ids'[n] = None /\ \A i \in 1 .. n - 1 : savepoint_ids'[i] = savepoint_ids[i]
    <3>1. savepoint_ids'[Len(savepoint_ids) + 1] = None
          /\ \A i \in 1 .. Len(savepoint_ids) : savepoint_ids'[i] = savepoint_ids[i]
      BY <1>1, <2>1, <2>2, AppendProperties
    <3> QED
      BY <2>3, <3>1
  <2>5. (open'[n + 1].doomed <=> open[n].doomed) /\ (open[n].doomed <=> needs_rollback)
    BY <1>1, <1>2, <1>3, <2>1 DEF Dooms
  <2>6. ASSUME NEW j \in 1 .. n + 1, NEW k \in 1 .. n + 1, j < k, open'[j].doomed
        PROVE  open'[k].doomed /\ savepoint_ids'[k - 1] = None
    <3>1. j \in 1 .. n /\ open[j].doomed
      BY <1>3, <2>1, <2>6
    <3>2. CASE k = n + 1
      <4>1. open[n].doomed
        BY <1>1, <2>3, <3>1 DEF Dooms
      <4>2. k - 1 = n
        BY <3>2
      <4> QED
        BY <2>4, <2>5, <3>2, <4>1, <4>2
    <3>3. CASE k # n + 1
      <4>1. k \in 1 .. n /\ k - 1 \in 1 .. n - 1
        BY <2>6, <3>1, <3>3
      <4>2. open[k].doomed /\ savepoint_ids[k - 1] = None
        BY <1>1, <2>6, <3>1, <4>1 DEF Dooms
      <4> QED
        BY <1>3, <2>1, <2>4, <4>1, <4>2
    <3> QED
      BY <3>2, <3>3
  <2>7. closed_in_transaction' => needs_rollback'
    BY <1>2, <2>1 DEF Dooms
  <2> QED
    BY <1>3, <2>1, <2>5, <2>6, <2>7 DEF Dooms
<1>6. CASE EnterSavepointFails(b)
  BY <1>2, <1>6 DEF EnterSavepointFails, PretendAtomic, stack, Dooms
<1>7. CASE EnterTransaction(b)
  <2>1. /\ n = 0 /\ open = <<>> /\ OpenBlock /\ needs_rollback' = FALSE
        /\ ~closed_in_transaction'
    BY <1>7 DEF EnterTransaction, Quiet, Control, Stacks, Modes
  <2>2. DOMAIN open' = 1 .. 1 /\ ~Last(open').doomed
    BY <1>3, <2>1
  <2> QED
    BY <2>1, <2>2 DEF Dooms
<1>8. CASE EnterTransactionFails(b)
  BY <1>8 DEF EnterTransactionFails, stack, Control, Stacks, Dooms
<1> QED
  BY <1>4, <1>5, <1>6, <1>7, <1>8 DEF AEnter

\* What a nested block leaves is a ledger one shorter, with an entry less.
LEMMA NestedShape ==
  ASSUME TypeOK, Control, Leave, savepoint_ids # <<>>
  PROVE  \E m \in Nat : /\ m >= 1 /\ Len(open) = m + 1 /\ Len(savepoint_ids) = m
                        /\ DOMAIN open = 1 .. m + 1 /\ DOMAIN savepoint_ids = 1 .. m
                        /\ Last(open) = open[m + 1] /\ Sid = savepoint_ids[m]
                        /\ DOMAIN Front(savepoint_ids) = 1 .. m - 1
                        /\ \A i \in 1 .. m - 1 : Front(savepoint_ids)[i] = savepoint_ids[i]
                        /\ open \in Seq(Ledger)
<1>1. open \in Seq(Ledger) /\ savepoint_ids \in Seq(SidOrNone) /\ open # <<>>
  BY DEF TypeOK, StackTypeOK, Leave
<1>2. PICK m \in Nat : m = Len(savepoint_ids) /\ m >= 1
  BY <1>1, EmptySeq, LenProperties
<1>3. Len(open) = m + 1
  BY <1>1, <1>2 DEF Control, Stacks
<1>4. DOMAIN Front(savepoint_ids) = 1 .. m - 1 /\ \A i \in 1 .. m - 1 : Front(savepoint_ids)[i] = savepoint_ids[i]
  BY <1>1, <1>2, FrontProp, LenProperties
<1>5. DOMAIN open = 1 .. m + 1 /\ DOMAIN savepoint_ids = 1 .. m
  BY <1>1, <1>2, <1>3, LenProperties
<1>6. Last(open) = open[m + 1] /\ Sid = savepoint_ids[m]
  BY <1>2, <1>3 DEF Last, Sid
<1> QED
  BY <1>1, <1>2, <1>3, <1>4, <1>5, <1>6

\* What makes needs_rollback go down or up when a block is left.
LEMMA ExitDooms ==
  ASSUME TypeOK, Control, Dooms, Managed, NEW raised \in BOOLEAN, AExit(raised)
  PROVE  Dooms'
<1>1. Leave /\ in_atomic_block /\ commit_on_exit /\ Ways
  BY ExitWays DEF Leave, Control, Stacks, Modes
<1>2. CASE savepoint_ids = <<>>
  <2>1. in_atomic_block' = FALSE
    BY <1>1, <1>2 DEF Ways, ExitClosed, LeaveNested, LeaveOutermost
  <2>2. open' = <<>>
    <3>1. Len(open) = 1
      BY <1>1, <1>2 DEF Leave, Control, Stacks
    <3> QED
      BY <3>1, ExitWays, EmptyLen
  <2> QED
    BY <2>1, <2>2 DEF Dooms
<1>3. CASE savepoint_ids # <<>>
  <2> PICK m \in Nat : /\ m >= 1 /\ Len(open) = m + 1 /\ Len(savepoint_ids) = m
                       /\ DOMAIN open = 1 .. m + 1 /\ DOMAIN savepoint_ids = 1 .. m
                       /\ Last(open) = open[m + 1] /\ Sid = savepoint_ids[m]
                       /\ DOMAIN Front(savepoint_ids) = 1 .. m - 1
                       /\ \A i \in 1 .. m - 1 : Front(savepoint_ids)[i] = savepoint_ids[i]
                       /\ open \in Seq(Ledger)
    BY <1>1, <1>3, NestedShape
  <2>1. savepoint_ids' = Front(savepoint_ids)
    BY <1>1, <1>3 DEF Ways, ExitClosed, LeaveNested, LeaveOutermost
  <2>2. DOMAIN open' = 1 .. m /\ open' # <<>> /\ Last(open') = open'[m] /\ open[m].doomed \in BOOLEAN
    <3>1. Len(open') = m /\ open' \in Seq(Ledger)
      BY ExitWays
    <3>2. m \in DOMAIN open
      OBVIOUS
    <3> QED
      BY <3>1, <3>2, LedgerBlocks, LenProperties, EmptyLen DEF Last
  \* The parent's doom is what its own needs_rollback was, or the child's.
  <2>3. ASSUME \A j \in 1 .. m : j # m => (open'[j].doomed <=> open[j].doomed),
               open[m].doomed => open'[m].doomed,
               open'[m].doomed <=> needs_rollback',
               closed_in_transaction' => needs_rollback'
        PROVE  Dooms'
    <3>1. ASSUME NEW j \in 1 .. m, NEW k \in 1 .. m, j < k, open'[j].doomed
          PROVE  open'[k].doomed /\ savepoint_ids'[k - 1] = None
      <4>1. j \in DOMAIN open /\ k \in DOMAIN open /\ j # m /\ k - 1 \in 1 .. m - 1
        BY <3>1
      <4>2. open[j].doomed
        BY <2>3, <3>1, <4>1
      <4>3. open[k].doomed /\ savepoint_ids[k - 1] = None
        BY <3>1, <4>1, <4>2 DEF Dooms
      <4> QED
        BY <2>1, <2>3, <4>1, <4>3
    <3> QED
      BY <2>2, <2>3, <3>1 DEF Dooms
  <2>4. CASE Cleanly(raised) /\ (ExitKeep \/ ExitRelease)
    <3>1. ~needs_rollback /\ ~needs_rollback' /\ ~closed_in_transaction' /\ KeepBlock
      BY <2>4 DEF Cleanly, ExitKeep, ExitRelease, LeaveNested
    <3>2. \A j \in 1 .. m : open'[j].doomed = open[j].doomed
      BY <3>1, KeepParent
    <3>3. \A j \in 1 .. m : ~open[j].doomed
      BY <3>1, NothingDoomed
    <3>4. m \in 1 .. m
      OBVIOUS
    <3>5. ~open'[m].doomed /\ ~open[m].doomed
      BY <3>2, <3>3, <3>4
    <3> QED
      BY <2>3, <3>1, <3>2, <3>5
  <2>5. CASE (Cleanly(raised) /\ ExitReleaseRefused) \/ ExitRollbackTo
    <3>1. ~needs_rollback' /\ ~closed_in_transaction' /\ DiscardBlock(FALSE) /\ Sid # None
      <4>1. LeaveNested /\ DiscardBlock(FALSE) /\ Sid # None
        BY <2>5 DEF ExitReleaseRefused, ExitRollbackTo
      <4>2. ~closed_in_transaction'
        BY <4>1 DEF LeaveNested
      <4>3. ~needs_rollback'
        BY <2>5 DEF Cleanly, ExitReleaseRefused, ExitRollbackTo
      <4> QED
        BY <4>1, <4>2, <4>3
    <3>2. /\ \A j \in 1 .. m : j # m => open'[j].doomed = open[j].doomed
          /\ open'[m].doomed = (open[m].doomed \/ FALSE)
      BY <3>1, DiscardParent
    <3>3. ~open[m].doomed
      <4>1. m \in DOMAIN open /\ m + 1 \in DOMAIN open /\ m < m + 1 /\ (m + 1) - 1 = m
        OBVIOUS
      <4> QED
        BY <3>1, <4>1 DEF Dooms
    <3>4. ~open'[m].doomed
      BY <3>2, <3>3
    <3> QED
      BY <2>3, <3>1, <3>2, <3>3, <3>4
  <2>6. CASE ExitMark \/ ExitSavepointLost \/ ExitClosed
    <3>1. needs_rollback' /\ DiscardBlock(TRUE)
      BY <1>1, <2>6 DEF ExitMark, ExitSavepointLost, ExitClosed, Dooms
    <3>2. /\ \A j \in 1 .. m : j # m => open'[j].doomed = open[j].doomed
          /\ open'[m].doomed = (open[m].doomed \/ TRUE)
      BY <3>1, DiscardParent
    <3>3. open'[m].doomed
      BY <3>2
    <3> QED
      BY <2>3, <3>1, <3>2, <3>3
  <2> QED
    BY <1>3, <2>4, <2>5, <2>6
       DEF AExit, ExitCommit, ExitCommitRefused, ExitCommitUnacknowledged, ExitRollback,
           ExitConnectionLost, LeaveOutermost
<1> QED
  BY <1>2, <1>3

\* A statement that fails dooms the innermost block as it marks the transaction.
LEMMA BodyDooms ==
  ASSUME TypeOK, Control, Dooms,
         \/ WriteRow \/ AOnCommitNow \/ AClose \/ ServerLost
         \/ \E marked \in BOOLEAN : StatementFails(marked)
         \/ \E robust \in BOOLEAN : AOnCommit(robust)
  PROVE  Dooms'
<1> PICK n \in Nat : n = Len(open)
  BY LedgerBlocks DEF TypeOK, StackTypeOK
<1>1. /\ open \in Seq(Ledger) /\ DOMAIN open = 1 .. n
      /\ \A j \in DOMAIN open : open[j].doomed \in BOOLEAN
      /\ open # <<>> => n >= 1 /\ n \in DOMAIN open /\ Last(open) = open[n]
  BY LedgerBlocks DEF TypeOK, StackTypeOK
<1>2. UNCHANGED <<savepoint_ids, in_atomic_block>>
  BY DEF WriteRow, AOnCommitNow, AClose, ServerLost, StatementFails, AOnCommit, stack, flags
<1>3. New <= MaxEffect => New \in Effect
  BY ConstantsAssumption DEF New, Effect, TypeOK, HooksTypeOK
<1>4. CASE open' = open /\ needs_rollback' = needs_rollback /\ closed_in_transaction' = closed_in_transaction
  BY <1>2, <1>4 DEF Dooms
<1>5. CASE open # <<>> /\ (WriteRow \/ \E robust \in BOOLEAN : AOnCommit(robust))
  <2>1. PICK e \in Effect : Own(e)
    BY <1>3, <1>5 DEF WriteRow, AOnCommit
  <2>2. /\ open' \in Seq(Ledger) /\ Len(open') = n
        /\ \A j \in DOMAIN open : open'[j].doomed = open[j].doomed
    BY <1>1, <1>5, <2>1, OwnBlock
  <2>3. DOMAIN open' = DOMAIN open /\ Last(open') = open'[n]
    BY <1>1, <2>2, LenProperties DEF Last
  <2>4. needs_rollback' = needs_rollback /\ closed_in_transaction' = closed_in_transaction
    BY <1>5 DEF WriteRow, AOnCommit, flags
  <2>5. Last(open').doomed = Last(open).doomed
    BY <1>1, <1>5, <2>2, <2>3
  <2> QED
    BY <1>2, <1>5, <2>2, <2>3, <2>4, <2>5 DEF Dooms
<1>6. CASE open # <<>> /\ DoomTop /\ (AClose \/ StatementFails(TRUE))
  <2>1. /\ open' \in Seq(Ledger) /\ Len(open') = n
        /\ \A j \in DOMAIN open : j # n => open'[j] = open[j]
        /\ open'[n].doomed = TRUE
    BY <1>1, <1>6, DoomBlock
  <2>2. DOMAIN open' = DOMAIN open /\ Last(open') = open'[n]
    BY <1>1, <2>1, LenProperties DEF Last
  <2>3. in_atomic_block /\ needs_rollback' = TRUE
    <3>1. in_atomic_block
      BY <1>6 DEF Control, Stacks
    <3>2. CASE AClose
      BY <3>1, <3>2 DEF AClose, Control, Modes, Dooms, TypeOK, FlagsTypeOK
    <3> QED
      BY <1>6, <3>1, <3>2 DEF StatementFails
  <2>4. ASSUME NEW j \in DOMAIN open, NEW k \in DOMAIN open, j < k, open'[j].doomed
        PROVE  open'[k].doomed /\ savepoint_ids'[k - 1] = None
    <3>1. j # n
      BY <1>1, <2>4
    <3>2. open[k].doomed /\ savepoint_ids[k - 1] = None
      BY <2>1, <2>4, <3>1 DEF Dooms
    <3> QED
      BY <1>2, <2>1, <3>2
  <2> QED
    BY <2>1, <2>2, <2>3, <2>4 DEF Dooms
<1>7. CASE AOnCommitNow \/ ServerLost
  BY <1>4, <1>7 DEF AOnCommitNow, ServerLost, flags
<1>8. CASE StatementFails(FALSE)
  <2>1. open' = open /\ ~needs_rollback /\ needs_rollback' = FALSE
        /\ closed_in_transaction' = closed_in_transaction
    BY <1>8 DEF StatementFails
  <2> QED
    BY <1>2, <2>1 DEF Dooms
<1>9. CASE open = <<>> /\ (WriteRow \/ AClose \/ StatementFails(TRUE) \/ \E robust \in BOOLEAN : AOnCommit(robust))
  <2>1. open' = <<>> /\ in_atomic_block' = FALSE
    BY <1>2, <1>9 DEF WriteRow, AClose, StatementFails, AOnCommit, Own, DoomTop, Control, Stacks,
                      TypeOK, FlagsTypeOK
  <2> QED
    BY <2>1 DEF Dooms
<1>10. AClose \/ StatementFails(TRUE) => DoomTop
  BY DEF AClose, StatementFails
<1>11. (\E marked \in BOOLEAN : StatementFails(marked)) => StatementFails(TRUE) \/ StatementFails(FALSE)
  OBVIOUS
<1> QED
  BY <1>5, <1>6, <1>7, <1>8, <1>9, <1>10, <1>11

(* Dooms holds of every reachable state.                                   *)
LEMMA DoomsInvariant ==
  ASSUME Managed
  PROVE  Spec => []Dooms
<1>1. Init => Dooms
  BY DEF Init, Dooms
<1>2. TypeOK /\ Control /\ Dooms /\ [Next]_vars => Dooms'
  <2> SUFFICES ASSUME TypeOK, Control, Dooms, [Next]_vars PROVE Dooms'
    OBVIOUS
  <2>1. CASE Next
    <3>1. ~(ACommit \/ ACommitFails \/ ARollback \/ \E on \in BOOLEAN : ASetAutocommit(on))
      BY DEF Managed, ACommit, ACommitFails, ARollback, ASetAutocommit, Unmanaged
    <3>2. ASSUME Connect \/ ConnectRefused PROVE Dooms'
      <4>1. open = <<>> /\ open' = <<>> /\ in_atomic_block' = FALSE
        BY <3>2 DEF Connect, ConnectRefused, MayConnect, ResetByConnect, Control, Modes, Stacks
      <4> QED
        BY <4>1 DEF Dooms
    <3> QED
      BY <2>1, <3>1, <3>2, EnterDooms, ExitDooms, BodyDooms DEF Next
  <2>2. CASE UNCHANGED vars
    BY <2>2 DEF vars, stack, flags, Dooms
  <2> QED
    BY <2>1, <2>2
<1> QED
  BY <1>1, <1>2, TypeCorrect, ControlInvariant, PTL DEF Spec

-----------------------------------------------------------------------------
(* The server's frames against the work in the program's blocks.  Below a  *)
(* savepoint lies what was done before its block was entered: this is why  *)
(* rolling back to it takes back that block and nothing else.              *)

AllDone == Done(Len(open))

Works ==
  Alive /\ in_atomic_block =>
    /\ \A p \in DOMAIN marks, q \in DOMAIN savepoint_ids :
         marks[p] = savepoint_ids[q] => Below(p) = Done(q)
    /\ tx # "inerror" /\ ~needs_rollback => Pending = AllDone

\* Inside a block there is an entry in savepoint_ids for every block but one.
LEMMA BlockShape ==
  ASSUME TypeOK, Control, in_atomic_block
  PROVE  \E n \in Nat : /\ n >= 1 /\ Len(open) = n /\ open # <<>> /\ open \in Seq(Ledger)
                        /\ savepoint_ids \in Seq(SidOrNone) /\ Len(savepoint_ids) = n - 1
                        /\ DOMAIN savepoint_ids = 1 .. n - 1 /\ AllDone = Done(n)
<1>1. open \in Seq(Ledger) /\ savepoint_ids \in Seq(SidOrNone) /\ open # <<>>
  BY DEF TypeOK, StackTypeOK, Control, Stacks
<1>2. PICK n \in Nat : n = Len(open) /\ n >= 1
  BY <1>1, EmptySeq, LenProperties
<1>3. Len(savepoint_ids) + 1 = n /\ Len(savepoint_ids) \in Nat
  BY <1>1, <1>2, EmptyLen DEF Control, Stacks
<1>4. Len(savepoint_ids) = n - 1
  BY <1>3
<1> QED
  BY <1>1, <1>2, <1>4, LenProperties DEF AllDone

\* After a step the ledger's length is a number again.
LEMMA AllDoneNext ==
  ASSUME NEW n, Len(open') = n
  PROVE  AllDone' = Done(n)'
BY DEF AllDone, Done

\* A savepoint is made when the pending work is all the work there is.
LEMMA EnterWorks ==
  ASSUME TypeOK, Control, Sids, Match, Works, Managed, NEW b \in Kinds, AEnter(b)
  PROVE  Works'
<1>1. Inside => in_atomic_block /\ ~autocommit
  BY DEF Inside, Control, Modes
<1>2. marks \in Seq(1 .. MaxSid) /\ \A p \in DOMAIN marks : marks[p] \in 1 .. MaxSid
  BY ElementOfSeq, LenProperties DEF TypeOK, SessionTypeOK
<1>3. CASE EnterSavepoint(b) \/ EnterWithoutSavepoint(b)
  <2>1. in_atomic_block
    BY <1>1, <1>3 DEF EnterSavepoint, EnterWithoutSavepoint
  <2> PICK n \in Nat : /\ n >= 1 /\ Len(open) = n /\ open # <<>> /\ open \in Seq(Ledger)
                       /\ savepoint_ids \in Seq(SidOrNone) /\ Len(savepoint_ids) = n - 1
                       /\ DOMAIN savepoint_ids = 1 .. n - 1 /\ AllDone = Done(n)
    BY <2>1, BlockShape
  <2>2. OpenBlock
    BY <1>3 DEF EnterSavepoint, EnterWithoutSavepoint, Entered
  <2>3. /\ \A q \in 0 .. n : Done(q)' = Done(q)
        /\ Done(n + 1)' = Done(n) /\ AllDone' = Done(n + 1)'
    BY <2>2, PushBlock, AllDoneNext
  <2>4. n \in 0 .. n /\ \A q \in 1 .. n : q \in 0 .. n /\ (q # n => q \in 1 .. n - 1)
    OBVIOUS
  <2>5. ASSUME NEW sid \in SidOrNone, savepoint_ids' = Append(savepoint_ids, sid)
        PROVE  /\ DOMAIN savepoint_ids' = 1 .. n /\ savepoint_ids'[n] = sid
               /\ \A q \in 1 .. n - 1 : savepoint_ids'[q] = savepoint_ids[q]
    <3>1. /\ Len(savepoint_ids') = n - 1 + 1 /\ savepoint_ids' \in Seq(SidOrNone)
          /\ savepoint_ids'[n - 1 + 1] = sid
          /\ \A q \in 1 .. n - 1 : savepoint_ids'[q] = savepoint_ids[q]
      BY <2>5, AppendProperties
    <3>2. n - 1 + 1 = n
      OBVIOUS
    <3> QED
      BY <3>1, <3>2, LenProperties
  <2>6. CASE EnterSavepoint(b)
    <3>1. /\ NextSid \in 1 .. MaxSid /\ NextSid \in SidOrNone
          /\ savepoint_state \in Nat /\ NextSid > savepoint_state
      BY <2>6, ConstantsAssumption DEF EnterSavepoint, NextSid, SidOrNone, TypeOK, StackTypeOK
    <3>2. /\ savepoint_ids' = Append(savepoint_ids, NextSid) /\ Savepoint(NextSid)
          /\ Alive /\ tx # "inerror" /\ ~needs_rollback
      BY <2>1, <2>6 DEF EnterSavepoint, Entered, Savepoint, Usable, Alive, WantsSavepoint
    <3>3. Pending = Done(n)
      BY <2>1, <3>2 DEF Works
    <3>4. PICK k \in Nat : k = Len(marks)
      BY <1>2, LenProperties
    <3>5. /\ DOMAIN marks' = 1 .. k + 1 /\ DOMAIN marks = 1 .. k
          /\ \A p \in DOMAIN marks : marks'[p] = marks[p] /\ Below(p)' = Below(p)
          /\ marks'[k + 1] = NextSid /\ Below(k + 1)' = Pending
          /\ Pending' = Pending
      BY <1>2, <3>1, <3>2, <3>4, SavepointAbove, LenProperties
    <3>6. /\ DOMAIN savepoint_ids' = 1 .. n /\ savepoint_ids'[n] = NextSid
          /\ \A q \in 1 .. n - 1 : savepoint_ids'[q] = savepoint_ids[q]
      BY <2>5, <3>1, <3>2
    <3>7. \A q \in 1 .. n - 1 : savepoint_ids[q] # NextSid
      <4>1. \A q \in 1 .. n - 1 : savepoint_ids[q] \in Nat
        <5>1. \A q \in 1 .. n - 1 : savepoint_ids[q] \in SidOrNone
          BY ElementOfSeq
        <5> QED
          BY <5>1 DEF SidOrNone
      <4> QED
        BY <3>1, <4>1 DEF Sids
    <3>8. \A p \in 1 .. k : marks[p] # NextSid
      <4>1. \A p \in 1 .. k : marks[p] \in ToSet(savepoint_ids)
        BY <3>2, <3>5 DEF Match, ToSet
      <4> QED
        BY <3>7, <4>1 DEF ToSet
    <3>9. ASSUME NEW p \in DOMAIN marks', NEW q \in DOMAIN savepoint_ids', marks'[p] = savepoint_ids'[q]
          PROVE  Below(p)' = Done(q)'
      <4>1. CASE p \in 1 .. k /\ q \in 1 .. n - 1
        <5>1. marks[p] = savepoint_ids[q]
          BY <3>5, <3>6, <3>9, <4>1
        <5>2. Below(p) = Done(q)
          BY <2>1, <3>2, <3>5, <4>1, <5>1 DEF Works
        <5>3. Below(p)' = Below(p)
          BY <3>5, <4>1
        <5>4. q \in 0 .. n
          BY <2>4, <3>6
        <5>5. Done(q)' = Done(q)
          BY <2>3, <5>4
        <5> QED
          BY <5>2, <5>3, <5>5
      <4>2. CASE p = k + 1 /\ q = n
        BY <2>3, <2>4, <3>3, <3>5, <4>2
      <4>3. p \in 1 .. k \/ p = k + 1
        BY <3>5
      <4>4. q \in 1 .. n - 1 \/ q = n
        BY <2>4, <3>6
      <4>5. p = k + 1 => q = n
        BY <3>5, <3>6, <3>7, <3>9, <4>4
      <4>6. q = n => p = k + 1
        BY <3>5, <3>6, <3>8, <3>9, <4>3
      <4> QED
        BY <4>1, <4>2, <4>3, <4>4, <4>5, <4>6
    <3>10. Pending' = AllDone'
      BY <2>3, <3>3, <3>5
    <3> QED
      BY <3>9, <3>10 DEF Works
  <2>7. CASE EnterWithoutSavepoint(b)
    <3>1. /\ savepoint_ids' = Append(savepoint_ids, None) /\ needs_rollback' = needs_rollback
          /\ UNCHANGED <<connection, tx, marks, frames>> /\ None \in SidOrNone
      BY <2>1, <2>7, ConstantsAssumption
         DEF EnterWithoutSavepoint, Entered, PretendAtomic, session, None, SidOrNone, TypeOK, FlagsTypeOK
    <3>2. /\ DOMAIN savepoint_ids' = 1 .. n /\ savepoint_ids'[n] = None
          /\ \A q \in 1 .. n - 1 : savepoint_ids'[q] = savepoint_ids[q]
      BY <2>5, <3>1
    <3>3. (Alive' <=> Alive) /\ Pending' = Pending /\ \A p \in DOMAIN marks : Below(p)' = Below(p)
      BY <3>1 DEF Alive, Quiet, Pending, Below
    <3>4. ASSUME Alive, NEW p \in DOMAIN marks, NEW q \in 1 .. n, marks[p] = savepoint_ids'[q]
          PROVE  Below(p)' = Done(q)'
      <4>1. q # n
        BY <1>2, <3>2, <3>4 DEF None
      <4>2. q \in 1 .. n - 1 /\ q \in 0 .. n
        BY <2>4, <4>1
      <4>3. Below(p) = Done(q)
        BY <2>1, <3>2, <3>4, <4>2 DEF Works
      <4> QED
        BY <2>3, <3>3, <4>2, <4>3
    <3>5. Alive /\ tx # "inerror" /\ ~needs_rollback => Pending' = AllDone'
      BY <2>1, <2>3, <3>3 DEF Works
    <3> QED
      BY <3>1, <3>2, <3>3, <3>4, <3>5 DEF Works
  <2> QED
    BY <1>3, <2>6, <2>7
<1>4. CASE EnterSavepointFails(b)
  <2>1. in_atomic_block /\ ~autocommit /\ UNCHANGED <<savepoint_ids, open>>
    BY <1>1, <1>4 DEF EnterSavepointFails, stack
  <2>2. CASE Fail
    BY <2>2 DEF Fail, Broken, Works, Alive, Quiet
  <2>3. CASE Reject(autocommit)
    <3>1. tx' = "inerror" /\ UNCHANGED <<connection, marks, frames>> /\ Alive
      BY <2>1, <2>3 DEF Reject, Alive
    <3> QED
      BY <2>1, <3>1 DEF Works, Below, Done
  <2> QED
    BY <1>4, <2>2, <2>3 DEF EnterSavepointFails
<1>5. CASE EnterTransaction(b)
  <2>1. /\ open = <<>> /\ savepoint_ids' = <<>> /\ frames' = <<{}>> /\ marks' = <<>> /\ OpenBlock
    BY <1>5 DEF EnterTransaction, Quiet, session, Control, Stacks, AutocommitIsEmpty
  <2>2. Len(open) = 0 /\ open \in Seq(Ledger)
    BY <2>1, EmptyLen DEF TypeOK, StackTypeOK
  <2>3. Done(0 + 1)' = Done(0) /\ Len(open') = 0 + 1
    BY <2>1, <2>2, PushBlock
  <2>4. AllDone' = Done(0)
    BY <2>3, AllDoneNext
  <2>5. Done(0) = {} /\ Pending' = {}
    <3>1. Done(0) = {}
      BY DEF Done
    <3>2. \A i \in DOMAIN frames' : frames'[i] = {}
      BY <2>1
    <3> QED
      BY <3>1, <3>2 DEF Pending
  <2> QED
    BY <2>1, <2>4, <2>5 DEF Works
<1>6. CASE EnterTransactionFails(b)
  BY <1>6 DEF EnterTransactionFails, session, Works, Alive, Quiet
<1> QED
  BY <1>3, <1>4, <1>5, <1>6 DEF AEnter

\* Leaving a nested block: what goes on the server is the work of that block.
LEMMA ExitWorks ==
  ASSUME TypeOK, Control, Dooms, Works, Managed, NEW raised \in BOOLEAN, AExit(raised)
  PROVE  Works'
<1>1. Leave /\ in_atomic_block /\ Ways
  BY ExitWays DEF Leave, Control, Stacks
<1>2. CASE savepoint_ids = <<>>
  BY <1>1, <1>2 DEF Ways, ExitClosed, LeaveNested, LeaveOutermost, Works
<1>3. CASE ExitClosed
  BY <1>1, <1>3 DEF ExitClosed, Disconnected, session, Works, Alive, Quiet, Control, Modes
<1>4. CASE savepoint_ids # <<>> /\ ~ExitClosed
  <2> PICK m \in Nat : /\ m >= 1 /\ Len(open) = m + 1 /\ Len(savepoint_ids) = m
                       /\ DOMAIN open = 1 .. m + 1 /\ DOMAIN savepoint_ids = 1 .. m
                       /\ Last(open) = open[m + 1] /\ Sid = savepoint_ids[m]
                       /\ DOMAIN Front(savepoint_ids) = 1 .. m - 1
                       /\ \A i \in 1 .. m - 1 : Front(savepoint_ids)[i] = savepoint_ids[i]
                       /\ open \in Seq(Ledger)
    BY <1>1, <1>4, NestedShape
  <2>1. DOMAIN savepoint_ids' = 1 .. m - 1 /\ \A i \in 1 .. m - 1 : savepoint_ids'[i] = savepoint_ids[i]
    <3>1. savepoint_ids' = Front(savepoint_ids)
      BY <1>1, <1>4 DEF Ways, LeaveNested, LeaveOutermost
    <3> QED
      BY <3>1
  <2>2. AllDone' = Done(m)'
    BY ExitWays, AllDoneNext
  <2>3. KeepBlock => /\ \A q \in 0 .. m - 1 : Done(q)' = Done(q)
                     /\ Done(m)' = Done(m + 1)
    BY KeepParent
  <2>4. ASSUME NEW d \in BOOLEAN, DiscardBlock(d)
        PROVE  \A q \in 0 .. m : Done(q)' = Done(q)
    BY <2>4, DiscardParent
  <2>5. /\ \A q \in 1 .. m - 1 : q \in 0 .. m - 1 /\ q \in 0 .. m /\ q \in 1 .. m
        /\ m \in 0 .. m /\ m \in 1 .. m
    OBVIOUS
  <2>6. AllDone = Done(m + 1)
    BY DEF AllDone
  \* What the step does to the savepoints that are left, and to what is pending.
  <2>7. ASSUME \A q \in 0 .. m - 1 : Done(q)' = Done(q),
               Alive' => Alive,
               Alive => \A p \in DOMAIN marks' : p \in DOMAIN marks /\ marks'[p] = marks[p] /\ Below(p)' = Below(p),
               Alive /\ tx' # "inerror" /\ ~needs_rollback' => Pending' = AllDone'
        PROVE  Works'
    <3>1. ASSUME Alive, NEW p \in DOMAIN marks', NEW q \in 1 .. m - 1, marks'[p] = savepoint_ids'[q]
          PROVE  Below(p)' = Done(q)'
      <4>1. p \in DOMAIN marks /\ marks[p] = savepoint_ids[q] /\ Below(p)' = Below(p)
        BY <2>1, <2>7, <3>1
      <4>2. Below(p) = Done(q)
        BY <1>1, <2>5, <3>1, <4>1 DEF Works
      <4>3. Done(q)' = Done(q)
        BY <2>5, <2>7
      <4> QED
        BY <4>1, <4>2, <4>3
    <3> QED
      BY <2>1, <2>7, <3>1 DEF Works
  <2>8. CASE ExitKeep \/ ExitMark
    <3>1. \A q \in 0 .. m - 1 : Done(q)' = Done(q)
      <4>1. \A q \in 0 .. m - 1 : q \in 0 .. m
        OBVIOUS
      <4> QED
        BY <2>3, <2>4, <2>8, <4>1 DEF ExitKeep, ExitMark
    <3>2. /\ Alive' <=> Alive
          /\ marks' = marks /\ Pending' = Pending /\ tx' = tx
          /\ \A p \in DOMAIN marks : Below(p)' = Below(p)
      BY <2>8 DEF ExitKeep, ExitMark, session, Alive, Quiet, Pending, Below
    <3>3. ~needs_rollback' => ~needs_rollback /\ Done(m)' = Done(m + 1)
      BY <2>3, <2>8 DEF ExitKeep, ExitMark
    <3>4. Alive /\ tx' # "inerror" /\ ~needs_rollback' => Pending' = AllDone'
      BY <1>1, <2>2, <2>6, <3>2, <3>3 DEF Works
    <3> QED
      BY <2>7, <3>1, <3>2, <3>4
  <2>9. CASE ExitRelease
    <3>1. KeepBlock /\ Release(Sid) /\ needs_rollback' = needs_rollback
      BY <2>9 DEF ExitRelease
    <3>2. /\ \A p \in DOMAIN marks' : p \in DOMAIN marks /\ marks'[p] = marks[p] /\ Below(p)' = Below(p)
          /\ Pending' = Pending
      BY <3>1, ReleaseBelow
    <3>3. Alive /\ tx # "inerror"
      BY <3>1 DEF Release, Usable, Alive
    <3>4. ~needs_rollback' => Pending' = AllDone'
      BY <1>1, <2>2, <2>3, <2>6, <3>1, <3>2, <3>3 DEF Works
    <3> QED
      BY <2>3, <2>7, <3>1, <3>2, <3>3, <3>4
  <2>10. CASE ExitReleaseRefused \/ ExitRollbackTo
    <3>1. DiscardBlock(FALSE) /\ RollbackTo(Sid) /\ Alive
      BY <2>10 DEF ExitReleaseRefused, ExitRollbackTo, RollbackTo, Alive
    <3>2. \A p \in DOMAIN marks' : p \in DOMAIN marks /\ marks'[p] = marks[p] /\ Below(p)' = Below(p)
      BY <3>1, RollbackBelow
    <3>3. PICK i \in DOMAIN marks : marks[i] = Sid /\ Pending' = Below(i)
      BY <3>1, RollbackBelow
    <3>4. Below(i) = Done(m)
      BY <1>1, <2>5, <3>1, <3>3 DEF Works
    <3>5. \A q \in 0 .. m : Done(q)' = Done(q)
      BY <2>4, <3>1
    <3>6. Pending' = AllDone'
      BY <2>2, <2>5, <3>3, <3>4, <3>5
    <3>7. \A q \in 0 .. m - 1 : Done(q)' = Done(q)
      <4>1. \A q \in 0 .. m - 1 : q \in 0 .. m
        OBVIOUS
      <4> QED
        BY <3>5, <4>1
    <3> QED
      BY <2>7, <3>1, <3>2, <3>6, <3>7
  <2>11. CASE ExitSavepointLost
    BY <2>11 DEF ExitSavepointLost, Fail, Broken, Works, Alive, Quiet
  <2> QED
    BY <1>4, <2>8, <2>9, <2>10, <2>11
       DEF AExit, ExitCommit, ExitCommitRefused, ExitCommitUnacknowledged, ExitRollback,
           ExitConnectionLost, LeaveOutermost
<1> QED
  BY <1>2, <1>3, <1>4

\* A row written, or a hook registered, is pending and is the block's work.
LEMMA BodyWorks ==
  ASSUME TypeOK, Control, Works,
         \/ WriteRow \/ AOnCommitNow \/ AClose \/ ServerLost
         \/ \E marked \in BOOLEAN : StatementFails(marked)
         \/ \E robust \in BOOLEAN : AOnCommit(robust)
  PROVE  Works'
<1>1. UNCHANGED <<savepoint_ids, in_atomic_block, autocommit>>
  BY DEF WriteRow, AOnCommitNow, AClose, ServerLost, StatementFails, AOnCommit, stack, flags
<1>2. CASE ~in_atomic_block
  BY <1>1, <1>2 DEF Works
<1>3. CASE in_atomic_block
  <2> PICK n \in Nat : /\ n >= 1 /\ Len(open) = n /\ open # <<>> /\ open \in Seq(Ledger)
                       /\ savepoint_ids \in Seq(SidOrNone) /\ Len(savepoint_ids) = n - 1
                       /\ DOMAIN savepoint_ids = 1 .. n - 1 /\ AllDone = Done(n)
    BY <1>3, BlockShape
  <2>1. ~autocommit /\ (New <= MaxEffect => New \in Effect)
    BY <1>3, ConstantsAssumption DEF Control, Modes, New, Effect, TypeOK, HooksTypeOK
  <2>2. n \in 0 .. n /\ \A q \in 1 .. n - 1 : q \in 0 .. n - 1 /\ q \in 0 .. n
    OBVIOUS
  <2>3. CASE Alive /\ tx # "inerror" /\ UNCHANGED marks /\ needs_rollback' = needs_rollback
             /\ \E e \in Effect : Own(e) /\ AddToTop(e)
    <3>1. PICK e \in Effect : Own(e) /\ AddToTop(e)
      BY <2>3
    <3>2. /\ \A q \in 0 .. n - 1 : Done(q)' = Done(q)
          /\ Done(n)' = Done(n) \union {e} /\ AllDone' = Done(n)'
      BY <3>1, OwnBlock, AllDoneNext
    <3>3. /\ \A p \in DOMAIN marks : Below(p)' = Below(p)
          /\ Pending' = Pending \union {e}
      BY <2>3, <3>1, AddAbove
    <3>4. \A p \in DOMAIN marks, q \in 1 .. n - 1 : marks[p] = savepoint_ids[q] => Below(p)' = Done(q)'
      BY <1>3, <2>2, <2>3, <3>2, <3>3 DEF Works
    <3>5. tx' # "inerror" /\ ~needs_rollback => Pending' = AllDone'
      BY <1>3, <2>3, <3>2, <3>3 DEF Works
    <3> QED
      BY <1>1, <2>3, <3>4, <3>5 DEF Works
  <2>4. CASE Alive /\ UNCHANGED <<marks, frames>> /\ (tx' = "inerror" \/ needs_rollback')
             /\ ((\E e \in Effect : Own(e)) \/ DoomTop \/ open' = open)
    <3>1. \A q \in 0 .. n - 1 : Done(q)' = Done(q)
      <4>1. CASE \E e \in Effect : Own(e)
        BY <4>1, OwnBlock
      <4>2. CASE DoomTop
        <5>1. \A q \in 0 .. n : Done(q)' = Done(q)
          BY <4>2, DoomBlock
        <5>2. \A q \in 0 .. n - 1 : q \in 0 .. n
          OBVIOUS
        <5> QED
          BY <5>1, <5>2
      <4>3. CASE open' = open
        BY <4>3 DEF Done
      <4> QED
        BY <2>4, <4>1, <4>2, <4>3
    <3>2. \A p \in DOMAIN marks : Below(p)' = Below(p)
      BY <2>4 DEF Below
    <3>3. \A p \in DOMAIN marks, q \in 1 .. n - 1 : marks[p] = savepoint_ids[q] => Below(p)' = Done(q)'
      BY <1>3, <2>2, <2>4, <3>1, <3>2 DEF Works
    <3> QED
      BY <1>1, <2>4, <3>3 DEF Works
  <2>5. CASE ~Alive'
    BY <2>5 DEF Works
  <2>6. CASE WriteRow
    <3>1. /\ Alive /\ UNCHANGED marks /\ needs_rollback' = needs_rollback
          /\ Own(New) /\ AddToTop(New) /\ tx # "inerror" /\ New \in Effect
      BY <2>1, <2>6 DEF WriteRow, Run, Usable, Alive, flags
    <3> QED
      BY <2>3, <3>1
  <2>7. ASSUME NEW robust \in BOOLEAN, AOnCommit(robust), Alive'
        PROVE  Works'
    <3>1. /\ UNCHANGED <<connection, tx, marks, needs_rollback>> /\ Own(New) /\ New \in Effect /\ Ride(New)
      BY <2>1, <2>7 DEF AOnCommit, Ride, flags
    <3>2. Alive
      BY <2>7, <3>1 DEF Alive, Quiet
    <3>3. CASE Usable \/ Quiet
      <4>1. AddToTop(New) /\ tx # "inerror"
        BY <3>1, <3>3 DEF Ride, Usable, Quiet
      <4> QED
        BY <2>3, <3>1, <3>2, <4>1
    <3>4. CASE ~(Usable \/ Quiet)
      <4>1. tx' = "inerror" /\ UNCHANGED frames
        BY <3>1, <3>2, <3>4 DEF Ride, Usable, Quiet, Alive
      <4> QED
        BY <2>4, <3>1, <3>2, <4>1
    <3> QED
      BY <3>3, <3>4
  <2>8. CASE AClose
    BY <1>3, <2>8, <2>5 DEF AClose, Broken, Disconnected, session, Alive, Quiet, Control, Modes
  <2>9. ASSUME NEW marked \in BOOLEAN, StatementFails(marked), Alive'
        PROVE  Works'
    <3>1. Reject(autocommit)
      BY <2>9 DEF StatementFails, Fail, Broken, Alive, Quiet
    <3>2. tx' = "inerror" /\ UNCHANGED <<connection, marks, frames>> /\ Alive
      BY <2>1, <3>1 DEF Reject, Alive
    <3>3. DoomTop \/ open' = open
      BY <2>9 DEF StatementFails
    <3> QED
      BY <2>4, <3>2, <3>3
  <2>10. CASE ServerLost /\ Alive'
    <3>1. UNCHANGED <<tx, marks, frames, open, needs_rollback>> /\ Alive
      BY <2>10 DEF ServerLost, Lose, Alive, Quiet, flags
    <3>2. AllDone' = AllDone /\ Pending' = Pending
          /\ (\A p \in DOMAIN marks : Below(p)' = Below(p)) /\ (\A q \in 1 .. n - 1 : Done(q)' = Done(q))
      BY <3>1 DEF AllDone, Done, Pending, Below
    <3> QED
      BY <1>1, <1>3, <3>1, <3>2 DEF Works
  <2>11. ~AOnCommitNow
    BY <1>3 DEF AOnCommitNow
  <2> QED
    BY <2>5, <2>6, <2>7, <2>8, <2>9, <2>10, <2>11
<1> QED
  BY <1>2, <1>3

(* Works holds of every reachable state.                                   *)
LEMMA WorksInvariant ==
  ASSUME Managed
  PROVE  Spec => []Works
<1>1. Init => Works
  BY DEF Init, Works
<1>2. TypeOK /\ Control /\ Sids /\ Match /\ Dooms /\ Works /\ [Next]_vars => Works'
  <2> SUFFICES ASSUME TypeOK, Control, Sids, Match, Dooms, Works, [Next]_vars PROVE Works'
    OBVIOUS
  <2>1. CASE Next
    <3>1. ~(ACommit \/ ACommitFails \/ ARollback \/ \E on \in BOOLEAN : ASetAutocommit(on))
      BY DEF Managed, ACommit, ACommitFails, ARollback, ASetAutocommit, Unmanaged
    <3>2. Connect \/ ConnectRefused => Works'
      BY DEF Connect, ConnectRefused, ResetByConnect, Works
    <3> QED
      BY <2>1, <3>1, <3>2, EnterWorks, ExitWorks, BodyWorks DEF Next
  <2>2. CASE UNCHANGED vars
    <3>1. UNCHANGED <<connection, tx, marks, frames, savepoint_ids, in_atomic_block, needs_rollback, open>>
      BY <2>2 DEF vars, session, stack, flags
    <3>2. /\ AllDone' = AllDone /\ Pending' = Pending /\ (Alive' <=> Alive)
          /\ \A p \in DOMAIN marks : Below(p)' = Below(p)
          /\ \A q \in DOMAIN savepoint_ids : Done(q)' = Done(q)
      BY <3>1 DEF AllDone, Done, Pending, Below, Alive, Quiet
    <3> QED
      BY <3>1, <3>2 DEF Works
  <2> QED
    BY <2>1, <2>2
<1> QED
  BY <1>1, <1>2, TypeCorrect, ControlInvariant, MatchInvariant, DoomsInvariant, PTL DEF Spec

-----------------------------------------------------------------------------
(* What keeps a clean exit from failing.                                   *)

\* A transaction the server has aborted is one the wrapper will roll back.
Aborted == in_atomic_block /\ tx = "inerror" => needs_rollback

\* A statement only fails unmarked where the events say so.
LEMMA AbortedInvariant ==
  ASSUME Managed, "unmarked" \notin Events
  PROVE  Spec => []Aborted
<1>1. Init => Aborted
  BY DEF Init, Aborted
<1>2. TypeOK /\ Control /\ Aborted /\ [Next]_vars => Aborted'
  <2> SUFFICES ASSUME TypeOK, Control, Aborted, [Next]_vars PROVE Aborted'
    OBVIOUS
  <2>1. CASE Connect \/ ConnectRefused
    BY <2>1 DEF Connect, ConnectRefused, ResetByConnect, Aborted
  <2>2. ASSUME NEW b \in Kinds, AEnter(b)
        PROVE  Aborted'
    <3>1. Inside => in_atomic_block
      BY DEF Inside, Control, Modes
    <3> QED
      BY <2>2, <3>1
         DEF AEnter, EnterSavepoint, EnterWithoutSavepoint, EnterSavepointFails, EnterTransaction,
             EnterTransactionFails, PretendAtomic, WantsSavepoint, Savepoint, Fail, Broken, Quiet,
             session, Aborted
  <2>3. ASSUME NEW raised \in BOOLEAN, AExit(raised)
        PROVE  Aborted'
    <3>1. CASE ExitClosed
      BY <3>1 DEF ExitClosed, Disconnected, session, Aborted, Control, Stacks, Leave
    <3>2. CASE LeaveOutermost
      BY <3>2 DEF LeaveOutermost, Aborted
    <3>3. CASE LeaveNested /\ ~ExitClosed
      <4>1. in_atomic_block
        BY <3>3 DEF LeaveNested, Leave, Control, Stacks
      <4> QED
        BY <2>3, <3>3, <4>1
           DEF AExit, ExitKeep, ExitRelease, ExitReleaseRefused, ExitMark, ExitRollbackTo,
               ExitSavepointLost, ExitCommit, ExitCommitRefused, ExitCommitUnacknowledged, ExitRollback,
               ExitConnectionLost, LeaveOutermost, LeaveNested, Release, RollbackTo, Usable, Fail,
               Broken, session, Aborted
    <3> QED
      BY <2>3, <3>1, <3>2, <3>3, ExitWays DEF Ways
  <2>4. CASE \/ WriteRow \/ AOnCommitNow \/ AClose \/ ServerLost
             \/ \E marked \in BOOLEAN : StatementFails(marked)
             \/ \E robust \in BOOLEAN : AOnCommit(robust)
    BY <2>4 DEF WriteRow, AOnCommitNow, AClose, ServerLost, StatementFails, AOnCommit, Run, Ride, Lose,
                Reject, Fail, Broken, Disconnected, session, flags, Aborted, Control, Modes
  <2>5. ~(ACommit \/ ACommitFails \/ ARollback \/ \E on \in BOOLEAN : ASetAutocommit(on))
    BY DEF Managed, ACommit, ACommitFails, ARollback, ASetAutocommit, Unmanaged
  <2>6. CASE UNCHANGED vars
    BY <2>6 DEF vars, session, flags, Aborted
  <2> QED
    BY <2>1, <2>2, <2>3, <2>4, <2>5, <2>6 DEF Next
<1> QED
  BY <1>1, <1>2, TypeCorrect, ControlInvariant, PTL DEF Spec

\* Unless the server goes away, a connection is only dead because it was closed.
Kept == connection # "lost" /\ (connection = "dead" => closed_in_transaction)

\* Without a lost server no handler comes to know of a dead connection.
LEMMA KeptInvariant ==
  ASSUME Managed, "lost" \notin Events
  PROVE  Spec => []Kept
<1>1. Init => Kept
  BY DEF Init, SessionInit, Kept
<1>2. TypeOK /\ Control /\ Kept /\ [Next]_vars => Kept'
  <2> SUFFICES ASSUME TypeOK, Control, Kept, [Next]_vars PROVE Kept'
    OBVIOUS
  <2>1. CASE Connect \/ ConnectRefused
    BY <2>1 DEF Connect, ConnectRefused, MayConnect, ResetByConnect, Connected, session, Kept
  <2>2. ASSUME NEW b \in Kinds, AEnter(b)
        PROVE  Kept'
    BY <2>2
       DEF AEnter, EnterSavepoint, EnterWithoutSavepoint, EnterSavepointFails, EnterTransaction,
           EnterTransactionFails, PretendAtomic, Savepoint, Fail, Broken, Reject, session, Kept
  <2>3. ASSUME NEW raised \in BOOLEAN, AExit(raised)
        PROVE  Kept'
    <3>1. CASE ExitClosed
      BY <3>1 DEF ExitClosed, Disconnected, session, Kept
    <3>2. CASE ~ExitClosed
      <4>1. ~closed_in_transaction /\ closed_in_transaction' = closed_in_transaction
        BY <3>2, <2>3, ExitWays DEF Ways, LeaveNested, LeaveOutermost
      <4>2. connection # "lost" /\ connection # "dead"
        BY <4>1 DEF Kept
      <4>3. connection' \in {connection, "good", "none"}
        BY <2>3, <3>2, <4>2, Zenon
           DEF AExit, ExitClosed, ExitKeep, ExitRelease, ExitReleaseRefused, ExitMark, ExitRollbackTo,
               ExitSavepointLost, ExitCommit, ExitCommitRefused, ExitCommitUnacknowledged, ExitRollback,
               ExitConnectionLost, Release, RollbackTo, Commit, Rollback, Connected, Fail, session
      <4> QED
        BY <4>2, <4>3 DEF Kept
    <3> QED
      BY <3>1, <3>2
  <2>4. CASE \/ WriteRow \/ AOnCommitNow \/ AClose \/ ServerLost
             \/ \E marked \in BOOLEAN : StatementFails(marked)
             \/ \E robust \in BOOLEAN : AOnCommit(robust)
    BY <2>4 DEF WriteRow, AOnCommitNow, AClose, ServerLost, StatementFails, AOnCommit, Run, Ride, Lose,
                Reject, Fail, Broken, Disconnected, session, flags, Kept, Control, Modes
  <2>5. ~(ACommit \/ ACommitFails \/ ARollback \/ \E on \in BOOLEAN : ASetAutocommit(on))
    BY DEF Managed, ACommit, ACommitFails, ARollback, ASetAutocommit, Unmanaged
  <2>6. CASE UNCHANGED vars
    BY <2>6 DEF vars, session, flags, Kept
  <2> QED
    BY <2>1, <2>2, <2>3, <2>4, <2>5, <2>6 DEF Next
<1> QED
  BY <1>1, <1>2, TypeCorrect, ControlInvariant, PTL DEF Spec

\* What the outermost block commits is everything done in it.
LEMMA CommitsTheBlock ==
  ASSUME TypeOK, Control, Works, Alive, tx # "inerror", ~needs_rollback, open # <<>>, savepoint_ids = <<>>
  PROVE  Len(open) = 1 /\ Pending = open[1].work
<1>1. in_atomic_block /\ Len(open) = 1
  BY DEF Control, Stacks
<1>2. Pending = Done(1)
  BY <1>1 DEF Works, AllDone
<1>3. Done(1) = open[1].work
  <2>1. \A j : j \in 1 .. 1 <=> j = 1
    OBVIOUS
  <2>2. \A x : x \in Done(1) <=> x \in open[1].work
    BY <2>1 DEF Done
  <2> QED
    BY <2>2
<1> QED
  BY <1>1, <1>2, <1>3

(* Leaving the outermost block without an exception makes what was done in *)
(* it durable, unless the server goes away, refuses COMMIT, or a statement *)
(* failed unnoticed.                                                       *)
THEOREM CleanExitsCommit ==
  ASSUME Managed, {"lost", "refused", "unmarked"} \intersect Events = {}
  PROVE  Spec => CleanExitCommits
<1>1. TypeOK /\ Control /\ Dooms /\ Works /\ Aborted /\ Kept /\ [Next]_vars
        => [AExit(FALSE) /\ Len(open) = 1 /\ ~open[1].doomed => open[1].work \subseteq committed']_vars
  <2> SUFFICES ASSUME TypeOK, Control, Dooms, Works, Aborted, Kept,
                      AExit(FALSE), Len(open) = 1, ~open[1].doomed
               PROVE  open[1].work \subseteq committed'
    OBVIOUS
  <2>1. Leave /\ open # <<>> /\ Ways /\ in_atomic_block
    BY ExitWays DEF Leave, Control, Stacks
  <2>2. savepoint_ids = <<>>
    <3>1. Len(savepoint_ids) \in Nat /\ Len(savepoint_ids) + 1 = 1
      BY <2>1, EmptyLen DEF Control, Stacks, TypeOK, StackTypeOK
    <3>2. Len(savepoint_ids) = 0
      BY <3>1
    <3> QED
      BY <3>2, EmptyLen DEF TypeOK, StackTypeOK
  <2>3. ~needs_rollback
    BY <2>1 DEF Dooms, Last
  <2>4. ~closed_in_transaction /\ tx # "inerror"
    BY <2>1, <2>3 DEF Dooms, Aborted
  <2>5. connection = "good"
    BY <2>1, <2>4 DEF Kept, Control, Modes, TypeOK, SessionTypeOK, Handle
  <2>6. ExitCommit \/ ExitCommitUnacknowledged
    BY <2>2, <2>3, <2>4, <2>5
       DEF AExit, Cleanly, ExitClosed, ExitKeep, ExitRelease, ExitReleaseRefused, ExitCommitRefused,
           ExitSavepointLost, ExitConnectionLost, LeaveNested
  <2>7. committed' = committed \union Pending
    BY <2>4, <2>6 DEF ExitCommit, ExitCommitUnacknowledged, Commit
  <2>8. Pending = open[1].work
    BY <2>1, <2>2, <2>3, <2>4, <2>5, CommitsTheBlock DEF Alive
  <2> QED
    BY <2>7, <2>8
<1>2. "lost" \notin Events /\ "unmarked" \notin Events
  OBVIOUS
<1> QED
  BY <1>1, <1>2, TypeCorrect, ControlInvariant, DoomsInvariant, WorksInvariant, AbortedInvariant,
     KeptInvariant, PTL DEF Spec, CleanExitCommits


-----------------------------------------------------------------------------
(* What a step may do to the effects.                                      *)

\* No effect becomes pending or durable before it is asked for.
EffectsIssued == Pending \subseteq 1 .. issued /\ committed \subseteq 1 .. issued

\* The transaction ends, is cut at a savepoint, or gets one effect more.
Ends == NoTransaction /\ committed \subseteq committed' /\ committed' \subseteq committed \union Pending

Cuts == \E sid \in 1 .. MaxSid : Savepoint(sid) \/ Release(sid) \/ RollbackTo(sid)

Grows ==
  /\ issued' = New /\ New \in Effect
  /\ \/ AddToTop(New) /\ UNCHANGED <<marks, committed>>
     \/ UNCHANGED <<frames, committed>>
     \/ UNCHANGED frames /\ committed' = committed \union {New}

Rests == UNCHANGED <<frames, committed>>

\* Every step does one of the four to the session's effects.
LEMMA EffectSteps ==
  ASSUME TypeOK, [Next]_vars
  PROVE  \/ issued' = issued /\ (Ends \/ Cuts \/ Rests)
         \/ Grows
<1>1. CASE WriteRow \/ AOnCommitNow \/ \E robust \in BOOLEAN : AOnCommit(robust)
  <2>1. issued' = New /\ New \in Effect
    BY <1>1, ConstantsAssumption
       DEF WriteRow, AOnCommitNow, AOnCommit, New, Effect, TypeOK, HooksTypeOK
  <2> QED
    BY <1>1, <2>1 DEF WriteRow, AOnCommitNow, AOnCommit, Run, Ride, Grows
<1>2. CASE UNCHANGED vars
  BY <1>2 DEF vars, session, counters, Rests
<1>3. CASE \/ Connect \/ ConnectRefused \/ AClose \/ ServerLost
           \/ \E marked \in BOOLEAN : StatementFails(marked)
           \/ ACommit \/ ACommitFails \/ ARollback
           \/ \E on \in BOOLEAN : ASetAutocommit(on)
  BY <1>3 DEF Connect, ConnectRefused, AClose, ServerLost, StatementFails, ACommit, ACommitFails,
              ARollback, ASetAutocommit, Connected, Broken, Disconnected, Fail, Reject, Rollback,
              Commit, Lose, session, counters, Ends, Rests
<1>4. ASSUME NEW b \in Kinds, AEnter(b)
      PROVE  issued' = issued /\ (Ends \/ Cuts \/ Rests)
  <2>1. EnterSavepoint(b) => NextSid \in 1 .. MaxSid
    BY ConstantsAssumption DEF EnterSavepoint, NextSid, TypeOK, StackTypeOK
  <2> QED
    BY <1>4, <2>1
       DEF AEnter, EnterSavepoint, EnterWithoutSavepoint, EnterSavepointFails, EnterTransaction,
           EnterTransactionFails, Fail, Broken, Reject, session, counters, Ends, Cuts, Rests
<1>5. ASSUME NEW raised \in BOOLEAN, AExit(raised)
      PROVE  issued' = issued /\ (Ends \/ Cuts \/ Rests)
  <2>1. issued' = issued
    BY <1>5, ExitWays DEF Leave, counters
  <2>2. Release(Sid) \/ RollbackTo(Sid) => Cuts
    <3>1. \A i \in DOMAIN marks : marks[i] \in 1 .. MaxSid
      BY PendingIsBelow, ElementOfSeq
    <3> QED
      BY <3>1 DEF Release, RollbackTo, Cuts
  <2> QED
    BY <1>5, <2>1, <2>2
       DEF AExit, ExitClosed, ExitKeep, ExitRelease, ExitReleaseRefused, ExitMark, ExitRollbackTo,
           ExitSavepointLost, ExitCommit, ExitCommitRefused, ExitCommitUnacknowledged, ExitRollback,
           ExitConnectionLost, Connected, Disconnected, Commit, Rollback, Fail, Broken, session,
           Ends, Rests
<1> QED
  BY <1>1, <1>2, <1>3, <1>4, <1>5 DEF Next

\* Cutting the transaction at a savepoint adds nothing to it.
LEMMA CutsPending ==
  ASSUME TypeOK, Cuts
  PROVE  Pending' \subseteq Pending /\ committed' = committed
<1> PICK sid \in 1 .. MaxSid : Savepoint(sid) \/ Release(sid) \/ RollbackTo(sid)
  BY DEF Cuts
<1>1. committed' = committed
  BY DEF Savepoint, Release, RollbackTo
<1>2. CASE Savepoint(sid)
  BY <1>1, <1>2, SavepointAbove
<1>3. CASE Release(sid)
  BY <1>1, <1>3, ReleaseBelow
<1>4. CASE RollbackTo(sid)
  <2>1. PICK i \in DOMAIN marks : Pending' = Below(i)
    BY <1>4, RollbackBelow
  <2>2. \A j \in 1 .. i : j \in DOMAIN frames
    BY PendingIsBelow
  <2> QED
    BY <1>1, <2>1, <2>2 DEF Pending, Below
<1> QED
  BY <1>2, <1>3, <1>4

\* Nothing is pending when no transaction is under way.
LEMMA NothingPending ==
  ASSUME frames = <<{}>>
  PROVE  Pending = {}
<1>1. \A i \in DOMAIN frames : frames[i] = {}
  OBVIOUS
<1> QED
  BY <1>1 DEF Pending

(* What is durable stays durable, and nothing is pending or durable that   *)
(* was not so before and is not the effect just asked for.                 *)
LEMMA EffectsGrow ==
  ASSUME TypeOK, [Next]_vars
  PROVE  /\ committed \subseteq committed'
         /\ \/ /\ issued' = issued
               /\ Pending' \union committed' \subseteq Pending \union committed
            \/ /\ issued' = New /\ New \in Effect
               /\ Pending' \union committed' \subseteq Pending \union committed \union {New}
<1>1. CASE Ends /\ issued' = issued
  <2>1. Pending' = {}
    <3>1. \A i \in DOMAIN frames' : frames'[i] = {}
      BY <1>1 DEF Ends, NoTransaction
    <3> QED
      BY <3>1 DEF Pending
  <2> QED
    BY <1>1, <2>1 DEF Ends
<1>2. CASE Cuts /\ issued' = issued
  BY <1>2, CutsPending
<1>3. CASE Rests /\ issued' = issued
  BY <1>3 DEF Rests, Pending
<1>4. CASE Grows
  <2>1. AddToTop(New) /\ UNCHANGED marks => Pending' = Pending \union {New}
    BY <1>4, AddAbove DEF Grows
  <2> QED
    BY <1>4, <2>1 DEF Grows, Pending
<1> QED
  BY <1>1, <1>2, <1>3, <1>4, EffectSteps

(* EffectsIssued holds of every reachable state.                           *)
LEMMA EffectsIssuedInvariant == Spec => []EffectsIssued
<1>1. Init => EffectsIssued
  BY NothingPending DEF Init, SessionInit, EffectsIssued
<1>2. TypeOK /\ EffectsIssued /\ [Next]_vars => EffectsIssued'
  <2> SUFFICES ASSUME TypeOK, EffectsIssued, [Next]_vars PROVE EffectsIssued'
    OBVIOUS
  <2>1. issued \in Nat /\ New = issued + 1
    BY DEF TypeOK, HooksTypeOK, New
  <2>2. 1 .. issued \subseteq 1 .. New /\ New \in 1 .. New
    BY <2>1
  <2> QED
    BY <2>2, EffectsGrow DEF EffectsIssued
<1> QED
  BY <1>1, <1>2, TypeCorrect, PTL DEF Spec

-----------------------------------------------------------------------------
(* The hooks that wait and the work they wait for.                         *)

Waiting == {k.func : k \in run_on_commit}

\* A waiting hook is one the program registered, within savepoints that exist.
HooksKnown ==
  \A k \in run_on_commit : k.func \in registered /\ \A s \in k.sids : s <= savepoint_state

\* Outside every block a wrapper that has a connection has no waiting hook.
NothingWaits == ~in_atomic_block /\ connection # "none" => run_on_commit = {}

\* A savepoint is active for a hook exactly if the hook came after it: what
\* asavepoint_rollback() forgets is what the server takes back.
HooksRide ==
  Alive /\ in_atomic_block =>
    /\ registered \intersect Pending \subseteq Waiting
    /\ tx # "inerror" => Waiting \subseteq Pending
    /\ \A k \in run_on_commit, p \in DOMAIN marks : marks[p] \in k.sids <=> k.func \notin Below(p)

HooksInv == HooksKnown /\ NothingWaits /\ HooksRide

\* aconnect() forgets what still waits, outside every block.
LEMMA ConnectHooks ==
  ASSUME TypeOK, Control, HooksInv, Connect \/ ConnectRefused
  PROVE  HooksInv'
<1>1. ~in_atomic_block'
  BY DEF Connect, ConnectRefused, ResetByConnect
<1>2. CASE Connect
  BY <1>1, <1>2 DEF Connect, RunHooks, HooksInv, HooksKnown, NothingWaits, HooksRide
<1>3. CASE ConnectRefused
  BY <1>1, <1>3 DEF ConnectRefused, MayConnect, session, hooks, counters, HooksInv, HooksKnown,
                    NothingWaits, HooksRide
<1> QED
  BY <1>2, <1>3

\* A new savepoint is above every hook that waits.
LEMMA EnterHooks ==
  ASSUME TypeOK, Control, HooksInv, Managed, NEW b \in Kinds, AEnter(b)
  PROVE  HooksInv'
<1>1. Inside => in_atomic_block
  BY DEF Inside, Control, Modes
<1>2. run_on_commit' = run_on_commit /\ registered' = registered
  BY DEF AEnter, EnterSavepoint, EnterWithoutSavepoint, EnterSavepointFails, EnterTransaction,
         EnterTransactionFails, hooks, counters
<1>3. savepoint_state \in Nat /\ NextSid = savepoint_state + 1 /\ NextSid \in Nat
  BY DEF TypeOK, StackTypeOK, NextSid
<1>4. \A k \in run_on_commit : k.sids \in SUBSET Nat
  BY DEF TypeOK, HooksTypeOK, Hook, SidOrNone
<1>5. HooksKnown'
  <2>1. savepoint_state' \in {savepoint_state, NextSid}
    BY DEF AEnter, EnterSavepoint, EnterWithoutSavepoint, EnterSavepointFails, EnterTransaction,
           EnterTransactionFails, counters
  <2> QED
    BY <1>2, <1>3, <1>4, <2>1 DEF HooksInv, HooksKnown
<1>6. NothingWaits'
  BY <1>1, <1>2
     DEF AEnter, EnterSavepoint, EnterWithoutSavepoint, EnterSavepointFails, EnterTransaction,
         EnterTransactionFails, PretendAtomic, session, HooksInv, NothingWaits
<1>7. CASE EnterSavepoint(b)
  <2>1. in_atomic_block /\ Alive /\ tx # "inerror" /\ Savepoint(NextSid) /\ NextSid \in 1 .. MaxSid
    BY <1>1, <1>3, <1>7, ConstantsAssumption DEF EnterSavepoint, Savepoint, Usable, Alive
  <2> PICK m \in Nat : m = Len(marks)
    BY PendingIsBelow
  <2>2. /\ DOMAIN marks = 1 .. m /\ DOMAIN marks' = 1 .. m + 1
        /\ \A p \in DOMAIN marks : marks'[p] = marks[p] /\ Below(p)' = Below(p)
        /\ marks'[m + 1] = NextSid /\ Below(m + 1)' = Pending
        /\ Pending' = Pending
    BY <2>1, PendingIsBelow, SavepointAbove
  <2>3. ASSUME NEW k \in run_on_commit, NEW p \in 1 .. m + 1
        PROVE  marks'[p] \in k.sids <=> k.func \notin Below(p)'
    <3>1. CASE p = m + 1
      <4>1. NextSid \notin k.sids
        BY <1>3, <1>4 DEF HooksInv, HooksKnown
      <4>2. k.func \in Pending
        BY <2>1 DEF HooksInv, HooksRide, Waiting
      <4> QED
        BY <2>2, <3>1, <4>1, <4>2
    <3>2. CASE p \in 1 .. m
      BY <2>1, <2>2, <3>2 DEF HooksInv, HooksRide
    <3> QED
      BY <3>1, <3>2
  <2> QED
    BY <1>2, <1>5, <1>6, <2>1, <2>2, <2>3 DEF HooksInv, HooksRide, Waiting
<1>8. CASE EnterWithoutSavepoint(b)
  <2>1. in_atomic_block /\ (Alive' <=> Alive)
        /\ UNCHANGED <<marks, tx, Pending>> /\ \A p \in DOMAIN marks : Below(p)' = Below(p)
    BY <1>1, <1>8 DEF EnterWithoutSavepoint, session, Alive, Quiet, Pending, Below
  <2> QED
    BY <1>2, <1>5, <1>6, <2>1 DEF HooksInv, HooksRide, Waiting
<1>9. CASE EnterSavepointFails(b)
  <2>1. CASE Fail
    BY <1>5, <1>6, <2>1 DEF Fail, Broken, Alive, Quiet, HooksInv, HooksRide
  <2>2. CASE tx = "inerror" /\ Reject(autocommit)
    <3>1. /\ in_atomic_block /\ Alive /\ tx = "inerror" /\ tx' = "inerror"
          /\ UNCHANGED <<marks, Pending>> /\ \A p \in DOMAIN marks : Below(p)' = Below(p)
      BY <1>1, <1>9, <2>2 DEF EnterSavepointFails, Reject, Alive, Pending, Below
    <3> QED
      BY <1>2, <1>5, <1>6, <3>1 DEF HooksInv, HooksRide, Waiting
  <2> QED
    BY <1>9, <2>1, <2>2 DEF EnterSavepointFails
<1>10. CASE EnterTransaction(b)
  <2>1. run_on_commit = {} /\ frames' = frames /\ frames = <<{}>>
    BY <1>10 DEF EnterTransaction, Quiet, session, HooksInv, NothingWaits, Control, AutocommitIsEmpty
  <2>2. Pending' = {}
    BY <2>1, NothingPending DEF Pending
  <2> QED
    BY <1>2, <1>5, <1>6, <2>1, <2>2 DEF HooksInv, HooksRide, Waiting
<1>11. CASE EnterTransactionFails(b)
  BY <1>5, <1>6, <1>11 DEF EnterTransactionFails, HooksInv, HooksRide
<1> QED
  BY <1>7, <1>8, <1>9, <1>10, <1>11 DEF AEnter

\* Leaving a nested block forgets the hooks of what it takes back; leaving the
\* outermost one leaves no hook behind.
LEMMA ExitHooks ==
  ASSUME TypeOK, Control, HooksInv, Managed, NEW raised \in BOOLEAN, AExit(raised)
  PROVE  HooksInv'
<1>1. Leave /\ in_atomic_block /\ commit_on_exit /\ Ways
  BY ExitWays DEF Leave, Control, Stacks, Modes
<1>2. registered' = registered /\ savepoint_state' = savepoint_state
  BY <1>1 DEF Leave, counters
<1>3. run_on_commit' \subseteq run_on_commit
  BY DEF AExit, ExitClosed, ExitKeep, ExitRelease, ExitReleaseRefused, ExitMark, ExitRollbackTo,
         ExitSavepointLost, ExitCommit, ExitCommitRefused, ExitCommitUnacknowledged, ExitRollback,
         ExitConnectionLost, RunHooks, ClearHooks, HooksStay, hooks, ForgetHooks
<1>4. HooksKnown'
  BY <1>2, <1>3 DEF HooksInv, HooksKnown
<1>5. CASE ExitClosed
  <2>1. ~Alive' /\ (in_atomic_block' \/ connection' = "none")
    BY <1>5, <1>1 DEF ExitClosed, Disconnected, session, Alive, Quiet, Control, Modes, LastManaged
  <2> QED
    BY <1>4, <2>1 DEF HooksInv, HooksRide, NothingWaits
<1>6. CASE ~ExitClosed /\ LeaveOutermost
  <2>1. ExitCommit \/ ExitCommitRefused \/ ExitCommitUnacknowledged \/ ExitRollback \/ ExitConnectionLost
    BY <1>6 DEF AExit, ExitKeep, ExitRelease, ExitReleaseRefused, ExitMark, ExitRollbackTo,
                ExitSavepointLost, LeaveNested, LeaveOutermost
  <2>2. run_on_commit' = {}
    BY <2>1 DEF ExitCommit, ExitCommitRefused, ExitCommitUnacknowledged, ExitRollback,
                ExitConnectionLost, RunHooks, ClearHooks
  <2>3. ~in_atomic_block'
    BY <1>6 DEF LeaveOutermost
  <2> QED
    BY <1>4, <2>2, <2>3 DEF HooksInv, HooksRide, NothingWaits
<1>7. CASE ~ExitClosed /\ LeaveNested
  <2>1. in_atomic_block' /\ NothingWaits'
    BY <1>1, <1>7 DEF LeaveNested, LastManaged, NothingWaits
  <2>2. CASE ExitKeep \/ ExitMark
    <3>1. /\ UNCHANGED <<run_on_commit, marks, tx, Pending>> /\ (Alive' <=> Alive)
          /\ \A p \in DOMAIN marks : Below(p)' = Below(p)
      BY <2>2 DEF ExitKeep, ExitMark, session, hooks, Alive, Quiet, Pending, Below
    <3> QED
      BY <1>1, <1>2, <1>4, <2>1, <3>1 DEF HooksInv, HooksRide, Waiting
  <2>3. CASE ExitRelease
    <3>1. Release(Sid) /\ run_on_commit' = run_on_commit
      BY <2>3 DEF ExitRelease, hooks
    <3>2. Alive /\ tx' = tx
      BY <3>1 DEF Release, Usable, Alive
    <3>3. /\ \A p \in DOMAIN marks' : p \in DOMAIN marks /\ marks'[p] = marks[p] /\ Below(p)' = Below(p)
          /\ Pending' = Pending
      BY <3>1, ReleaseBelow
    <3> QED
      BY <1>1, <1>2, <1>4, <2>1, <3>1, <3>2, <3>3 DEF HooksInv, HooksRide, Waiting
  <2>4. CASE ExitReleaseRefused \/ ExitRollbackTo
    <3>1. /\ RollbackTo(Sid) /\ Alive
          /\ run_on_commit' = {k \in run_on_commit : Sid \notin k.sids}
      BY <2>4 DEF ExitReleaseRefused, ExitRollbackTo, RollbackTo, Alive, ForgetHooks
    <3>2. \A p \in DOMAIN marks' : p \in DOMAIN marks /\ marks'[p] = marks[p] /\ Below(p)' = Below(p)
      BY <3>1, RollbackBelow
    <3>3. PICK i \in DOMAIN marks : marks[i] = Sid /\ Pending' = Below(i)
      BY <3>1, RollbackBelow
    <3>4. \A k \in run_on_commit : k \in run_on_commit' <=> k.func \in Pending'
      BY <1>1, <3>1, <3>3 DEF HooksInv, HooksRide
    <3>5. Pending' \subseteq Pending
      <4>1. \A p \in DOMAIN marks : marks[p] \in 1 .. MaxSid
        BY PendingIsBelow, ElementOfSeq
      <4>2. Cuts
        BY <3>1, <3>3, <4>1 DEF Cuts
      <4> QED
        BY <4>2, CutsPending
    <3>6. registered' \intersect Pending' \subseteq Waiting'
      BY <1>1, <1>2, <3>1, <3>4, <3>5 DEF HooksInv, HooksRide, Waiting
    <3>7. Waiting' \subseteq Pending'
      BY <1>3, <3>4 DEF Waiting
    <3>8. \A k \in run_on_commit', p \in DOMAIN marks' : marks'[p] \in k.sids <=> k.func \notin Below(p)'
      BY <1>1, <1>3, <3>1, <3>2 DEF HooksInv, HooksRide
    <3> QED
      BY <1>4, <2>1, <3>6, <3>7, <3>8 DEF HooksInv, HooksRide
  <2>5. CASE ExitSavepointLost
    BY <1>4, <2>1, <2>5 DEF ExitSavepointLost, Fail, Broken, HooksInv, HooksRide, Alive, Quiet
  <2> QED
    BY <1>7, <2>2, <2>3, <2>4, <2>5
       DEF AExit, ExitCommit, ExitCommitRefused, ExitCommitUnacknowledged, ExitRollback,
           ExitConnectionLost, LeaveOutermost, LeaveNested
<1> QED
  BY <1>1, <1>5, <1>6, <1>7 DEF Ways

\* A hook registered in a block is above exactly the savepoints of that moment.
LEMMA RegisterHook ==
  ASSUME TypeOK, Control, Sids, Match, EffectsIssued, HooksInv,
         NEW robust \in BOOLEAN, AOnCommit(robust)
  PROVE  HooksInv'
<1> DEFINE new == [func |-> New, sids |-> SidsNow, robust |-> robust]
<1>1. /\ in_atomic_block /\ in_atomic_block' = in_atomic_block /\ savepoint_state' = savepoint_state
      /\ run_on_commit' = run_on_commit \union {new} /\ registered' = registered \union {New}
      /\ Ride(New)
  BY DEF AOnCommit, flags
<1>2. New \in Effect /\ New \notin 1 .. issued
  BY ConstantsAssumption DEF AOnCommit, New, Effect, TypeOK, HooksTypeOK
<1>3. new.func = New /\ new.sids = SidsNow
  OBVIOUS
<1> HIDE DEF new
<1>4. Waiting' = Waiting \union {New}
  BY <1>1, <1>3 DEF Waiting
<1>5. HooksKnown' /\ NothingWaits'
  <2>1. \A s \in SidsNow : s <= savepoint_state
    BY DEF SidsNow, Sids
  <2> QED
    BY <1>1, <1>3, <2>1 DEF HooksInv, HooksKnown, NothingWaits
<1>6. ASSUME Alive
      PROVE  /\ registered' \intersect Pending' \subseteq Waiting'
             /\ tx' # "inerror" => Waiting' \subseteq Pending'
             /\ \A k \in run_on_commit', p \in DOMAIN marks' :
                  marks'[p] \in k.sids <=> k.func \notin Below(p)'
  <2>1. marks' = marks /\ tx' = tx
    BY <1>1 DEF Ride
  <2>2. \A p \in DOMAIN marks : Below(p)' = Below(p)
    BY <1>1, <1>2, AddAbove DEF Ride, Below
  <2>3. Pending' \in {Pending, Pending \union {New}} /\ (tx # "inerror" => Pending' = Pending \union {New})
    <3>1. Usable \/ Quiet => Pending' = Pending \union {New}
      BY <1>1, <1>2, AddAbove DEF Ride
    <3>2. ~(Usable \/ Quiet) => Pending' = Pending /\ tx = "inerror"
      BY <1>1, <1>6 DEF Ride, Pending, Usable, Alive
    <3> QED
      BY <3>1, <3>2
  <2>4. ASSUME NEW p \in DOMAIN marks
        PROVE  marks[p] \in SidsNow /\ New \notin Below(p)
    <3>1. marks[p] \in ToSet(savepoint_ids)
      BY <1>6 DEF Match, ToSet
    <3>2. Below(p) \subseteq Pending
      <4>1. \A j \in 1 .. p : j \in DOMAIN frames
        BY PendingIsBelow
      <4> QED
        BY <4>1 DEF Pending, Below
    <3> QED
      BY <1>2, <3>1, <3>2 DEF SidsNow, ToSet, EffectsIssued
  <2> QED
    BY <1>1, <1>3, <1>4, <1>6, <2>1, <2>2, <2>3, <2>4 DEF HooksInv, HooksRide, Waiting
<1>7. Alive' => Alive
  BY <1>1 DEF Ride, Alive, Quiet
<1> QED
  BY <1>1, <1>5, <1>6, <1>7 DEF HooksInv, HooksRide

\* Statements, aclose() and a lost server.
LEMMA BodyHooks ==
  ASSUME TypeOK, Control, HooksInv,
         \/ WriteRow \/ AOnCommitNow \/ AClose \/ ServerLost
         \/ \E marked \in BOOLEAN : StatementFails(marked)
  PROVE  HooksInv'
<1>1. in_atomic_block' = in_atomic_block /\ savepoint_state' = savepoint_state
  BY DEF WriteRow, AOnCommitNow, AClose, ServerLost, StatementFails, flags, counters
<1>2. CASE WriteRow
  <2>1. New \in Effect /\ New \notin registered
    BY <1>2, ConstantsAssumption DEF WriteRow, New, Effect, TypeOK, HooksTypeOK
  <2>2. run_on_commit' = run_on_commit /\ registered' = registered /\ marks' = marks
        /\ connection' = connection /\ tx # "inerror" /\ connection = "good"
    BY <1>2 DEF WriteRow, hooks, Run, Usable
  <2>3. HooksKnown' /\ NothingWaits'
    BY <1>1, <2>2 DEF HooksInv, HooksKnown, NothingWaits
  <2>4. ASSUME in_atomic_block
        PROVE  HooksRide'
    <3>1. AddToTop(New)
      BY <1>2, <2>4 DEF WriteRow, Run, Control, Modes
    <3>2. /\ \A p \in DOMAIN marks : Below(p)' = Below(p)
          /\ Pending' = Pending \union {New}
      BY <2>1, <2>2, <3>1, AddAbove
    <3> QED
      BY <2>1, <2>2, <2>4, <3>2 DEF HooksInv, HooksRide, Waiting, Alive
  <2> QED
    BY <1>1, <2>3, <2>4 DEF HooksInv, HooksRide
<1>3. CASE AOnCommitNow
  BY <1>1, <1>3 DEF AOnCommitNow, HooksInv, HooksKnown, NothingWaits, HooksRide
<1>4. CASE AClose
  <2>1. run_on_commit' = {}
    BY <1>4 DEF AClose
  <2>2. in_atomic_block => ~Alive'
    BY <1>4 DEF AClose, Broken, Disconnected, session, Alive, Quiet, Control, Modes
  <2> QED
    BY <1>1, <2>1, <2>2 DEF HooksInv, HooksKnown, NothingWaits, HooksRide
<1>5. CASE ServerLost \/ \E marked \in BOOLEAN : StatementFails(marked)
  <2>1. run_on_commit' = run_on_commit /\ registered' = registered
        /\ connection # "none" /\ connection' # "none"
    BY <1>5 DEF ServerLost, StatementFails, Lose, Fail, Reject, Broken, hooks, counters
  <2>2. HooksKnown' /\ NothingWaits'
    BY <1>1, <2>1 DEF HooksInv, HooksKnown, NothingWaits
  <2>3. ASSUME Alive'
        PROVE  Alive /\ marks' = marks /\ frames' = frames /\ tx' \in {tx, "inerror"}
    BY <1>5, <2>3 DEF ServerLost, StatementFails, Lose, Fail, Reject, Broken, Alive, Quiet
  <2>4. ASSUME Alive'
        PROVE  Pending' = Pending /\ \A p \in DOMAIN marks : Below(p)' = Below(p)
    BY <2>3, <2>4 DEF Pending, Below
  <2> QED
    BY <1>1, <2>1, <2>2, <2>3, <2>4 DEF HooksInv, HooksRide, Waiting
<1> QED
  BY <1>2, <1>3, <1>4, <1>5

(* HooksInv holds of every reachable state.                                *)
LEMMA HooksInvariant ==
  ASSUME Managed
  PROVE  Spec => []HooksInv
<1>1. Init => HooksInv
  BY DEF Init, HooksInv, HooksKnown, NothingWaits, HooksRide
<1>2. TypeOK /\ Control /\ Sids /\ Match /\ EffectsIssued /\ HooksInv /\ [Next]_vars => HooksInv'
  <2> SUFFICES ASSUME TypeOK, Control, Sids, Match, EffectsIssued, HooksInv, [Next]_vars PROVE HooksInv'
    OBVIOUS
  <2>1. ~(ACommit \/ ACommitFails \/ ARollback \/ \E on \in BOOLEAN : ASetAutocommit(on))
    BY DEF Managed, ACommit, ACommitFails, ARollback, ASetAutocommit, Unmanaged
  <2>2. CASE UNCHANGED vars
    <3>1. UNCHANGED <<connection, tx, marks, frames, in_atomic_block, savepoint_state, run_on_commit, registered>>
      BY <2>2 DEF vars, session, flags, hooks, counters
    <3>2. /\ Pending' = Pending /\ (Alive' <=> Alive)
          /\ \A p \in DOMAIN marks : Below(p)' = Below(p)
      BY <3>1 DEF Pending, Below, Alive, Quiet
    <3> QED
      BY <3>1, <3>2 DEF HooksInv, HooksKnown, NothingWaits, HooksRide, Waiting
  <2> QED
    BY <2>1, <2>2, ConnectHooks, EnterHooks, ExitHooks, RegisterHook, BodyHooks DEF Next
<1> QED
  BY <1>1, <1>2, TypeCorrect, ControlInvariant, MatchInvariant, EffectsIssuedInvariant, PTL DEF Spec

(* While a transaction can still commit, the hooks in run_on_commit are    *)
(* those of its pending work: ROLLBACK TO SAVEPOINT on the server and the  *)
(* filter over the sids of run_on_commit never disagree.                   *)
THEOREM HooksRideWithWork ==
  ASSUME Managed
  PROVE  Spec => []PendingHooksRideWithPendingWork
<1>1. HooksInv => PendingHooksRideWithPendingWork
  <2> SUFFICES ASSUME HooksInv, Usable, in_atomic_block
               PROVE  Waiting = registered \intersect Pending
    BY DEF PendingHooksRideWithPendingWork, Waiting
  <2>1. Alive /\ tx # "inerror"
    BY DEF Usable, Alive
  <2>2. Waiting \subseteq registered
    BY DEF HooksInv, HooksKnown, Waiting
  <2> QED
    BY <2>1, <2>2 DEF HooksInv, HooksRide
<1> QED
  BY <1>1, HooksInvariant, PTL

-----------------------------------------------------------------------------
(* When hooks run.                                                         *)

\* run_commit_hooks_on_set_autocommit_on stays up only after a hook raised;
\* hooks survive the block they belong to only after aclose() inside it.
NothingLeftOver ==
  /\ "hook" \notin Events => ~run_commit_hooks_on_set_autocommit_on
  /\ "close" \notin Events => ~closed_in_transaction /\ (~in_atomic_block => run_on_commit = {})

(* Each of the two leftovers needs its event. *)
LEMMA NothingLeftOverInvariant ==
  ASSUME Managed
  PROVE  Spec => []NothingLeftOver
<1>1. Init => NothingLeftOver
  BY DEF Init, NothingLeftOver
<1>2. TypeOK /\ Control /\ NothingLeftOver /\ [Next]_vars => NothingLeftOver'
  <2> SUFFICES ASSUME TypeOK, Control, NothingLeftOver, [Next]_vars PROVE NothingLeftOver'
    OBVIOUS
  <2>1. CASE Connect \/ ConnectRefused
    BY <2>1 DEF Connect, ConnectRefused, ResetByConnect, RunHooks, hooks, MayConnect, Control, Modes,
                NothingLeftOver
  <2>2. ASSUME NEW b \in Kinds, AEnter(b)
        PROVE  NothingLeftOver'
    BY <2>2 DEF AEnter, EnterSavepoint, EnterWithoutSavepoint, EnterSavepointFails, EnterTransaction,
                EnterTransactionFails, PretendAtomic, hooks, NothingLeftOver
  <2>3. ASSUME NEW raised \in BOOLEAN, AExit(raised)
        PROVE  NothingLeftOver'
    <3>1. Leave /\ in_atomic_block /\ commit_on_exit /\ Ways
      BY <2>3, ExitWays DEF Leave, Control, Stacks, Modes
    <3>2. "hook" \notin Events => ~run_commit_hooks_on_set_autocommit_on'
      BY <2>3
         DEF AExit, ExitClosed, ExitKeep, ExitRelease, ExitReleaseRefused, ExitMark, ExitRollbackTo,
             ExitSavepointLost, ExitCommit, ExitCommitRefused, ExitCommitUnacknowledged, ExitRollback,
             ExitConnectionLost, RunHooks, ClearHooks, HooksStay, ForgetHooks, hooks, NothingLeftOver
    <3>3. "close" \notin Events => ~ExitClosed /\ closed_in_transaction' = closed_in_transaction
      BY <3>1 DEF Ways, ExitClosed, LeaveNested, LeaveOutermost, NothingLeftOver
    <3>4. CASE LeaveNested /\ ~ExitClosed
      BY <3>1, <3>2, <3>3, <3>4 DEF LeaveNested, LastManaged, NothingLeftOver
    <3>5. CASE LeaveOutermost /\ ~ExitClosed
      <4>1. ExitCommit \/ ExitCommitRefused \/ ExitCommitUnacknowledged \/ ExitRollback \/ ExitConnectionLost
        BY <2>3, <3>5 DEF AExit, ExitKeep, ExitRelease, ExitReleaseRefused, ExitMark, ExitRollbackTo,
                          ExitSavepointLost, LeaveNested, LeaveOutermost
      <4>2. run_on_commit' = {}
        BY <4>1 DEF ExitCommit, ExitCommitRefused, ExitCommitUnacknowledged, ExitRollback,
                    ExitConnectionLost, RunHooks, ClearHooks
      <4> QED
        BY <3>2, <3>3, <4>2 DEF NothingLeftOver
    <3> QED
      BY <3>1, <3>2, <3>3, <3>4, <3>5 DEF Ways, NothingLeftOver
  <2>4. CASE \/ WriteRow \/ AOnCommitNow \/ AClose \/ ServerLost
             \/ \E marked \in BOOLEAN : StatementFails(marked)
             \/ \E robust \in BOOLEAN : AOnCommit(robust)
    BY <2>4 DEF WriteRow, AOnCommitNow, AClose, ServerLost, StatementFails, AOnCommit, hooks, flags,
                NothingLeftOver
  <2>5. ~(ACommit \/ ACommitFails \/ ARollback \/ \E on \in BOOLEAN : ASetAutocommit(on))
    BY DEF Managed, ACommit, ACommitFails, ARollback, ASetAutocommit, Unmanaged
  <2>6. CASE UNCHANGED vars
    BY <2>6 DEF vars, hooks, flags, NothingLeftOver
  <2> QED
    BY <2>1, <2>2, <2>3, <2>4, <2>5, <2>6 DEF Next
<1> QED
  BY <1>1, <1>2, TypeCorrect, ControlInvariant, PTL DEF Spec

\* The hooks that ran.
RanHooks == {h \in Effect : fired[h] > 0}

\* Running the hooks P adds at most them to the hooks that ran; all of them
\* if none raises.
LEMMA RanHooksGrow ==
  ASSUME TypeOK, NEW P, RunHooks(P)
  PROVE  /\ RanHooks \subseteq RanHooks'
         /\ RanHooks' \subseteq RanHooks \union {k.func : k \in P}
         /\ "hook" \notin Events /\ P \subseteq Hook => RanHooks' = RanHooks \union {k.func : k \in P}
<1>1. fired \in [Effect -> Nat]
  BY DEF TypeOK, HooksTypeOK
<1>2. ASSUME NEW Q \in SUBSET P, fired' = Ran(Q)
      PROVE  \A h \in Effect : h \in RanHooks' <=> h \in RanHooks \/ \E k \in Q : k.func = h
  <2>1. \A h \in Effect : fired'[h] = IF \E k \in Q : k.func = h THEN fired[h] + 1 ELSE fired[h]
    BY <1>2 DEF Ran
  <2> QED
    BY <1>1, <2>1 DEF RanHooks
<1>3. RanHooks \subseteq Effect /\ RanHooks' \subseteq Effect
  BY DEF RanHooks
<1>4. PICK Q \in SUBSET P : fired' = Ran(Q) /\ ("hook" \notin Events => Q = P)
  BY DEF RunHooks
<1>5. \A h \in Effect : h \in RanHooks' <=> h \in RanHooks \/ \E k \in Q : k.func = h
  BY <1>2, <1>4
<1>6. P \subseteq Hook => \A k \in P : k.func \in Effect
  BY DEF Hook
<1> QED
  BY <1>3, <1>4, <1>5, <1>6

\* aconnect() finds no hook to run.
LEMMA ConnectRunsNone ==
  ASSUME TypeOK, Control, NothingLeftOver, ~({"hook", "close"} \subseteq Events), Connect
  PROVE  RanHooks' = RanHooks
<1>1. fired' = fired \/ (run_commit_hooks_on_set_autocommit_on /\ RunHooks(run_on_commit))
  BY DEF Connect
<1>2. ~in_atomic_block
  BY DEF Connect, MayConnect, Control, Modes
<1>3. RunHooks(run_on_commit) /\ run_commit_hooks_on_set_autocommit_on => RunHooks({})
  BY <1>2 DEF NothingLeftOver
<1>4. RunHooks({}) => RanHooks \subseteq RanHooks' /\ RanHooks' \subseteq RanHooks
  BY RanHooksGrow
<1> QED
  BY <1>1, <1>3, <1>4 DEF RanHooks

\* The hooks a step runs: those of the transaction it commits, one registered
\* outside every transaction, or none.
LEMMA WhoRuns ==
  ASSUME TypeOK, Control, Aborted, NothingLeftOver, Managed,
         ~({"hook", "close"} \subseteq Events), [Next]_vars
  PROVE  \/ RanHooks' = RanHooks
         \/ /\ \E raised \in BOOLEAN : AExit(raised)
            /\ ExitCommit /\ RunHooks(run_on_commit)
            /\ Alive /\ in_atomic_block /\ tx # "inerror" /\ savepoint_ids = <<>> /\ ~needs_rollback
            /\ committed' = committed \union Pending
         \/ AOnCommitNow /\ RanHooks' = RanHooks \union {New}
<1>1. ~(ACommit \/ ACommitFails \/ ARollback \/ \E on \in BOOLEAN : ASetAutocommit(on))
  BY DEF Managed, ACommit, ACommitFails, ARollback, ASetAutocommit, Unmanaged
<1>2. fired' = fired => RanHooks' = RanHooks
  BY DEF RanHooks
<1>3. CASE Connect
  BY <1>3, ConnectRunsNone
<1>4. CASE \/ ConnectRefused \/ WriteRow \/ AClose \/ ServerLost
           \/ \E b \in Kinds : AEnter(b)
           \/ \E marked \in BOOLEAN : StatementFails(marked)
           \/ \E robust \in BOOLEAN : AOnCommit(robust)
           \/ UNCHANGED vars
  BY <1>2, <1>4
     DEF ConnectRefused, WriteRow, AClose, ServerLost, StatementFails, AOnCommit, AEnter,
         EnterSavepoint, EnterWithoutSavepoint, EnterSavepointFails, EnterTransaction,
         EnterTransactionFails, hooks, vars
<1>5. CASE AOnCommitNow
  <2>1. fired \in [Effect -> Nat] /\ New \in Effect /\ fired' = [fired EXCEPT ![New] = @ + 1]
    BY <1>5, ConstantsAssumption DEF AOnCommitNow, New, Effect, TypeOK, HooksTypeOK
  <2>2. \A h \in Effect : fired'[h] > 0 <=> fired[h] > 0 \/ h = New
    BY <2>1
  <2> QED
    BY <1>5, <2>1, <2>2 DEF RanHooks
<1>6. ASSUME NEW raised \in BOOLEAN, AExit(raised), fired' # fired
      PROVE  /\ ExitCommit /\ RunHooks(run_on_commit)
             /\ Alive /\ in_atomic_block /\ tx # "inerror" /\ savepoint_ids = <<>> /\ ~needs_rollback
             /\ committed' = committed \union Pending
  <2>1. in_atomic_block
    BY <1>6, ExitWays DEF Leave, Control, Stacks
  <2>2. ExitCommit /\ Cleanly(raised)
    BY <1>6
       DEF AExit, ExitClosed, ExitKeep, ExitRelease, ExitReleaseRefused, ExitMark, ExitRollbackTo,
           ExitSavepointLost, ExitCommitRefused, ExitCommitUnacknowledged, ExitRollback,
           ExitConnectionLost, ClearHooks, HooksStay, ForgetHooks, hooks
  <2>3. ~needs_rollback /\ tx # "inerror"
    BY <2>1, <2>2 DEF Cleanly, Aborted
  <2> QED
    BY <2>1, <2>2, <2>3 DEF ExitCommit, LeaveOutermost, Commit, Alive
<1> QED
  BY <1>1, <1>2, <1>3, <1>4, <1>5, <1>6 DEF Next

(* A hook runs only when the work of its transaction is durable.  Where a  *)
(* hook may raise and aclose() may be called inside a block, or a          *)
(* statement fail unnoticed, the code does not promise it.                 *)
THEOREM HooksRunForCommittedWork ==
  ASSUME Managed, "unmarked" \notin Events, ~({"hook", "close"} \subseteq Events)
  PROVE  Spec => []HooksOnlyForCommittedWork
<1>1. Init => RanHooks \subseteq committed
  BY DEF Init, RanHooks
<1>2. /\ TypeOK /\ Control /\ Aborted /\ HooksInv /\ NothingLeftOver
      /\ RanHooks \subseteq committed /\ [Next]_vars
      => (RanHooks \subseteq committed)'
  <2> SUFFICES ASSUME TypeOK, Control, Aborted, HooksInv, NothingLeftOver,
                      RanHooks \subseteq committed, [Next]_vars
               PROVE  RanHooks' \subseteq committed'
    OBVIOUS
  <2>1. committed \subseteq committed'
    BY EffectsGrow
  <2>2. CASE ExitCommit /\ RunHooks(run_on_commit) /\ Alive /\ in_atomic_block /\ tx # "inerror"
             /\ committed' = committed \union Pending
    <3>1. RanHooks' \subseteq RanHooks \union Waiting
      BY <2>2, RanHooksGrow DEF Waiting
    <3> QED
      BY <2>2, <3>1 DEF HooksInv, HooksRide
  <2>3. CASE AOnCommitNow /\ RanHooks' = RanHooks \union {New}
    BY <2>3 DEF AOnCommitNow
  <2> QED
    BY <2>1, <2>2, <2>3, WhoRuns
<1>3. RanHooks \subseteq committed => HooksOnlyForCommittedWork
  BY DEF RanHooks, HooksOnlyForCommittedWork
<1> QED
  BY <1>1, <1>2, <1>3, TypeCorrect, ControlInvariant, AbortedInvariant,
     HooksInvariant, NothingLeftOverInvariant, PTL DEF Spec

(* Outside every block exactly the hooks of committed work have run, where *)
(* no hook raises, the server stays and no statement fails unnoticed.      *)
THEOREM HooksRanForCommittedWork ==
  ASSUME Managed, {"hook", "lost", "unmarked"} \intersect Events = {}
  PROVE  Spec => []HooksOfCommittedWorkRan
<1> DEFINE AllRan == registered \intersect committed = RanHooks
<1>1. Init => AllRan
  BY DEF Init, SessionInit, RanHooks
<1>2. /\ TypeOK /\ Control /\ Aborted /\ EffectsIssued /\ HooksInv /\ NothingLeftOver
      /\ AllRan /\ [Next]_vars
      => AllRan'
  <2> SUFFICES ASSUME TypeOK, Control, Aborted, EffectsIssued, HooksInv, NothingLeftOver, AllRan, [Next]_vars
               PROVE  AllRan'
    OBVIOUS
  <2>1. fired' = fired => RanHooks' = RanHooks
    BY DEF RanHooks
  <2>2. ~(ACommit \/ ACommitFails \/ ARollback \/ \E on \in BOOLEAN : ASetAutocommit(on))
    BY DEF Managed, ACommit, ACommitFails, ARollback, ASetAutocommit, Unmanaged
  <2>3. New \notin registered /\ New \notin committed
    BY DEF New, TypeOK, HooksTypeOK, EffectsIssued
  <2>4. CASE Connect
    BY <2>4, ConnectRunsNone DEF Connect, counters
  <2>5. CASE \/ ConnectRefused \/ AClose \/ ServerLost
             \/ \E b \in Kinds : AEnter(b)
             \/ \E marked \in BOOLEAN : StatementFails(marked)
             \/ UNCHANGED vars
    BY <2>1, <2>5
       DEF ConnectRefused, AClose, ServerLost, StatementFails, AEnter, EnterSavepoint,
           EnterWithoutSavepoint, EnterSavepointFails, EnterTransaction, EnterTransactionFails,
           Savepoint, Fail, Reject, Lose, session, hooks, counters, vars
  <2>6. CASE WriteRow
    BY <2>1, <2>3, <2>6 DEF WriteRow, Run, hooks
  <2>7. ASSUME NEW robust \in BOOLEAN, AOnCommit(robust)
        PROVE  AllRan'
    BY <2>1, <2>3, <2>7 DEF AOnCommit, Ride
  <2>8. CASE AOnCommitNow
    <3>1. fired \in [Effect -> Nat] /\ New \in Effect /\ fired' = [fired EXCEPT ![New] = @ + 1]
      BY <2>8, ConstantsAssumption DEF AOnCommitNow, New, Effect, TypeOK, HooksTypeOK
    <3>2. \A h \in Effect : fired'[h] > 0 <=> fired[h] > 0 \/ h = New
      BY <3>1
    <3>3. RanHooks' = RanHooks \union {New}
      BY <3>1, <3>2 DEF RanHooks
    <3> QED
      BY <2>8, <3>3 DEF AOnCommitNow
  <2>9. ASSUME NEW raised \in BOOLEAN, AExit(raised)
        PROVE  AllRan'
    <3>1. Leave /\ in_atomic_block /\ registered' = registered
      BY <2>9, ExitWays DEF Leave, counters, Control, Stacks
    <3>2. CASE ~ExitCommit
      <4>1. committed' = committed /\ fired' = fired
        BY <2>9, <3>2
           DEF AExit, ExitClosed, ExitKeep, ExitRelease, ExitReleaseRefused, ExitMark, ExitRollbackTo,
               ExitSavepointLost, ExitCommitRefused, ExitCommitUnacknowledged, ExitRollback,
               ExitConnectionLost, Release, RollbackTo, Rollback, Fail, ClearHooks, HooksStay,
               ForgetHooks, session, hooks
      <4> QED
        BY <2>1, <3>1, <4>1
    <3>3. CASE ExitCommit /\ Cleanly(raised)
      <4>1. Alive /\ tx # "inerror" /\ committed' = committed \union Pending
        BY <3>1, <3>3 DEF ExitCommit, Commit, Cleanly, Aborted, Alive
      <4>2. RanHooks' = RanHooks \union Waiting
        BY <3>3, RanHooksGrow DEF ExitCommit, Waiting, TypeOK, HooksTypeOK
      <4>3. Waiting = registered \intersect Pending
        BY <3>1, <4>1 DEF HooksInv, HooksRide, HooksKnown, Waiting
      <4> QED
        BY <3>1, <4>1, <4>2, <4>3
    <3>4. CASE ExitCommit /\ ~Cleanly(raised)
      <4>1. /\ ExitClosed \/ ExitMark \/ ExitRollbackTo \/ ExitRollback \/ ExitSavepointLost
               \/ ExitConnectionLost
        BY <2>9, <3>4 DEF AExit
      <4>2. committed' = committed /\ fired' = fired
        BY <4>1
           DEF ExitClosed, ExitMark, ExitRollbackTo, ExitRollback, ExitSavepointLost,
               ExitConnectionLost, RollbackTo, Rollback, Fail, ClearHooks, HooksStay, ForgetHooks,
               session, hooks
      <4> QED
        BY <2>1, <3>1, <4>2
    <3> QED
      BY <3>2, <3>3, <3>4
  <2> QED
    BY <2>2, <2>4, <2>5, <2>6, <2>7, <2>8, <2>9 DEF Next
<1>3. AllRan => HooksOfCommittedWorkRan
  BY DEF RanHooks, HooksOfCommittedWorkRan
<1>4. "unmarked" \notin Events
  OBVIOUS
<1> HIDE DEF AllRan
<1> QED
  BY <1>1, <1>2, <1>3, <1>4, TypeCorrect, ControlInvariant, AbortedInvariant, EffectsIssuedInvariant,
     HooksInvariant, NothingLeftOverInvariant, PTL DEF Spec

-----------------------------------------------------------------------------
(* The wrapper connects again, and the abstract specification.             *)

(* Outside every block aconnect() is never in the way of itself: nothing   *)
(* remembers that a connection was closed in a transaction that is gone.   *)
THEOREM ReconnectPossible ==
  ASSUME Managed
  PROVE  Spec => []ReconnectIsPossible
<1>1. Control => ReconnectIsPossible
  BY DEF Control, Stacks, ReconnectIsPossible, MayConnect
<1> QED
  BY <1>1, ControlInvariant, PTL

\* The abstract state is the ledger, what is durable and the hooks that ran.
LEMMA AbstractState ==
  UNCHANGED <<open, committed>> /\ RanHooks' = RanHooks => UNCHANGED Blocks!vars
BY DEF Blocks!vars, RanHooks

\* Entering a block enters one, or is refused.
LEMMA EnterRefines ==
  ASSUME NEW b \in Kinds, AEnter(b)
  PROVE  Blocks!Enter \/ UNCHANGED Blocks!vars
<1>1. committed' = committed /\ fired' = fired /\ (OpenBlock \/ open' = open)
  BY DEF AEnter, EnterSavepoint, EnterWithoutSavepoint, EnterSavepointFails, EnterTransaction,
         EnterTransactionFails, Entered, Savepoint, Fail, Reject, session, hooks
<1>2. RanHooks' = RanHooks
  BY <1>1 DEF RanHooks
<1>3. OpenBlock => Blocks!Enter
  BY <1>1, <1>2 DEF OpenBlock, Blocks!Enter, Last, Blocks!Last, RanHooks
<1> QED
  BY <1>1, <1>2, <1>3, AbstractState

\* Leaving a block keeps it, takes it back, publishes it or abandons it.
LEMMA ExitRefines ==
  ASSUME TypeOK, Control, Dooms, Works, Aborted, HooksInv, NEW raised \in BOOLEAN, AExit(raised)
  PROVE  Blocks!Keep \/ Blocks!Discard \/ Blocks!Publish \/ Blocks!Abandon
<1>1. Leave /\ open # <<>> /\ in_atomic_block /\ open \in Seq(Ledger) /\ Len(open) \in Nat
      /\ Len(open) >= 1 /\ Last(open) = open[Len(open)] /\ Len(open) \in DOMAIN open
  BY ExitWays, LedgerBlocks DEF Leave, Control, Stacks, TypeOK, StackTypeOK
<1>2. ASSUME NEW d \in BOOLEAN, DiscardBlock(d), committed' = committed, fired' = fired
      PROVE  Blocks!Discard \/ Blocks!Abandon
  <2>1. RanHooks' = RanHooks
    BY <1>2 DEF RanHooks
  <2>2. CASE Len(open) = 1
    BY <1>2, <2>1, <2>2 DEF DiscardBlock, Blocks!Abandon, RanHooks
  <2>3. CASE Len(open) # 1
    <3>1. Len(open) > 1
      BY <1>1, <2>3
    <3>2. open' = [Front(open) EXCEPT ![Len(open) - 1].doomed = @ \/ d]
      BY <1>2, <2>3, Zenon DEF DiscardBlock
    <3>3. Front(open) = Blocks!Front(open)
      BY DEF Front, Blocks!Front
    <3> QED
      BY <1>2, <2>1, <3>1, <3>2, <3>3, Zenon DEF Blocks!Discard, RanHooks
  <2> QED
    BY <2>2, <2>3
<1>3. CASE Cleanly(raised) /\ (ExitKeep \/ ExitRelease)
  <2>1. LeaveNested /\ KeepBlock /\ committed' = committed /\ fired' = fired
    BY <1>3 DEF ExitKeep, ExitRelease, Release, session, hooks
  <2>2. Len(open) > 1
    BY <1>1, <2>1, NestedShape DEF LeaveNested
  <2>3. ~Last(open).doomed
    BY <1>1, <1>3, NothingDoomed DEF Cleanly
  <2>4. RanHooks' = RanHooks
    BY <2>1 DEF RanHooks
  <2> QED
    <3>1. open' = [Front(open) EXCEPT ![Len(open) - 1].work = @ \union Last(open).work]
      BY <2>1, <2>2, <1>1 DEF KeepBlock
    <3>2. Front(open) = Blocks!Front(open) /\ Last(open) = Blocks!Last(open)
      BY DEF Front, Blocks!Front, Last, Blocks!Last
    <3> QED
      BY <2>1, <2>2, <2>3, <2>4, <3>1, <3>2, Zenon DEF Blocks!Keep, RanHooks
<1>4. CASE Cleanly(raised) /\ (ExitCommit \/ ExitCommitUnacknowledged)
  <2>1. savepoint_ids = <<>> /\ KeepBlock /\ Alive
    BY <1>4 DEF ExitCommit, ExitCommitUnacknowledged, LeaveOutermost, Commit, Alive
  <2>2. ~needs_rollback /\ tx # "inerror"
    BY <1>1, <1>4 DEF Cleanly, Aborted
  <2>3. Len(open) = 1 /\ Pending = open[1].work
    BY <1>1, <2>1, <2>2, CommitsTheBlock
  <2>4. ~open[1].doomed
    BY <1>1, <2>2, <2>3, NothingDoomed
  <2>5. open' = <<>> /\ committed' = committed \union open[1].work
    BY <1>4, <2>1, <2>2, <2>3 DEF KeepBlock, ExitCommit, ExitCommitUnacknowledged, Commit
  <2>6. RanHooks \subseteq RanHooks' /\ RanHooks' \subseteq RanHooks \union Waiting
    <3>1. CASE ExitCommit
      BY <3>1, RanHooksGrow DEF ExitCommit, Waiting
    <3>2. CASE ExitCommitUnacknowledged
      BY <3>2 DEF ExitCommitUnacknowledged, ClearHooks, RanHooks
    <3> QED
      BY <1>4, <3>1, <3>2
  <2>7. Waiting \subseteq open[1].work
    BY <1>1, <2>1, <2>2, <2>3 DEF HooksInv, HooksRide
  <2>8. \E hooks_ran \in SUBSET (open[1].work \ RanHooks) : RanHooks' = RanHooks \union hooks_ran
    <3>1. RanHooks' \ RanHooks \in SUBSET (open[1].work \ RanHooks)
      BY <2>6, <2>7
    <3>2. RanHooks' = RanHooks \union (RanHooks' \ RanHooks)
      BY <2>6
    <3> QED
      BY <3>1, <3>2
  <2> QED
    BY <2>3, <2>4, <2>5, <2>8 DEF Blocks!Publish, RanHooks
<1>5. CASE \/ ExitClosed \/ ExitSavepointLost \/ ExitConnectionLost
           \/ Cleanly(raised) /\ (ExitReleaseRefused \/ ExitCommitRefused)
           \/ ~Cleanly(raised) /\ (ExitMark \/ ExitRollbackTo \/ ExitRollback)
  <2>1. /\ committed' = committed /\ fired' = fired
        /\ DiscardBlock(TRUE) \/ DiscardBlock(FALSE)
    BY <1>5
       DEF ExitClosed, ExitMark, ExitRollbackTo, ExitRollback, ExitSavepointLost, ExitConnectionLost,
           ExitReleaseRefused, ExitCommitRefused, RollbackTo, Rollback, Fail, ClearHooks, HooksStay,
           ForgetHooks, session, hooks
  <2> QED
    BY <1>2, <2>1
<1> QED
  BY <1>3, <1>4, <1>5 DEF AExit

\* What the body of a block does.
LEMMA BodyRefines ==
  ASSUME TypeOK, Control, EffectsIssued,
         \/ WriteRow \/ AOnCommitNow \/ AClose \/ ServerLost
         \/ \E marked \in BOOLEAN : StatementFails(marked)
         \/ \E robust \in BOOLEAN : AOnCommit(robust)
  PROVE  Blocks!Next \/ UNCHANGED Blocks!vars
<1>1. fired' = fired => RanHooks' = RanHooks
  BY DEF RanHooks
<1>2. open # <<>> <=> in_atomic_block
  BY DEF Control, Stacks
<1>3. ASSUME DoomTop, committed' = committed, fired' = fired
      PROVE  Blocks!Doom \/ UNCHANGED Blocks!vars
  BY <1>1, <1>3, AbstractState DEF DoomTop, Blocks!Doom, RanHooks
<1>4. CASE WriteRow
  <2>1. New \in Effect /\ Own(New) /\ RanHooks' = RanHooks
    BY <1>1, <1>4, ConstantsAssumption DEF WriteRow, New, Effect, TypeOK, HooksTypeOK, hooks
  <2>2. CASE open = <<>>
    <3>1. autocommit
      BY <1>2, <1>4, <2>2 DEF WriteRow, Run, Usable, Control, Modes
    <3>2. committed' = committed \union {New} /\ open' = open
      BY <1>4, <2>1, <2>2, <3>1 DEF WriteRow, Run, Own
    <3>3. RanHooks' \in {RanHooks, RanHooks \union {New}}
      BY <2>1
    <3>4. Blocks!DoAlone(New)
      BY <2>2, <3>2, <3>3 DEF Blocks!DoAlone, RanHooks
    <3> QED
      BY <2>1, <3>4 DEF Blocks!Next, Blocks!DoAlone
  <2>3. CASE open # <<>>
    <3>1. committed' = committed
      BY <1>2, <1>4, <2>3 DEF WriteRow, Run, Control, Modes
    <3>2. Blocks!Do(New)
      BY <2>1, <2>3, <3>1 DEF Own, Blocks!Do, RanHooks
    <3> QED
      BY <2>1, <3>2 DEF Blocks!Next
  <2> QED
    BY <2>2, <2>3
<1>5. ASSUME NEW robust \in BOOLEAN, AOnCommit(robust)
      PROVE  Blocks!Next
  <2>1. New \in Effect /\ Own(New) /\ RanHooks' = RanHooks /\ committed' = committed /\ open # <<>>
    BY <1>1, <1>2, <1>5, ConstantsAssumption
       DEF AOnCommit, New, Effect, TypeOK, HooksTypeOK, Ride
  <2>2. Blocks!Do(New)
    BY <2>1 DEF Own, Blocks!Do, RanHooks
  <2> QED
    BY <2>1, <2>2 DEF Blocks!Next
<1>6. CASE AOnCommitNow
  <2>1. fired \in [Effect -> Nat] /\ New \in Effect /\ fired' = [fired EXCEPT ![New] = @ + 1]
        /\ open = <<>> /\ open' = open /\ committed' = committed \union {New}
    BY <1>2, <1>6, ConstantsAssumption DEF AOnCommitNow, New, Effect, TypeOK, HooksTypeOK
  <2>2. \A h \in Effect : fired'[h] > 0 <=> fired[h] > 0 \/ h = New
    BY <2>1
  <2>3. RanHooks' = RanHooks \union {New}
    BY <2>1, <2>2 DEF RanHooks
  <2>4. RanHooks' \in {RanHooks, RanHooks \union {New}}
    BY <2>3
  <2>5. Blocks!DoAlone(New)
    BY <2>1, <2>4 DEF Blocks!DoAlone, RanHooks
  <2> QED
    BY <2>1, <2>5 DEF Blocks!Next, Blocks!DoAlone
<1>7. CASE AClose
  <2>1. DoomTop /\ committed' = committed /\ fired' = fired
    BY <1>7 DEF AClose, session
  <2> QED
    BY <1>3, <2>1 DEF Blocks!Next
<1>8. ASSUME NEW marked \in BOOLEAN, StatementFails(marked)
      PROVE  Blocks!Next \/ UNCHANGED Blocks!vars
  <2>1. (DoomTop \/ open' = open) /\ committed' = committed /\ fired' = fired
    BY <1>8 DEF StatementFails, Reject, Fail, hooks
  <2> QED
    BY <1>1, <1>3, <2>1, AbstractState DEF Blocks!Next
<1>9. CASE ServerLost
  BY <1>1, <1>9, AbstractState DEF ServerLost, Lose, hooks
<1> QED
  BY <1>4, <1>5, <1>6, <1>7, <1>8, <1>9

(* The flags, the savepoints and the error paths of __aenter__ and         *)
(* __aexit__ implement nested transactions: every step of the wrapper is a *)
(* step of NestedTransaction or changes nothing the program can see.       *)
THEOREM ImplementsNestedTransaction ==
  ASSUME Managed, "unmarked" \notin Events, ~({"hook", "close"} \subseteq Events)
  PROVE  Spec => NestedTransactionSpec
<1>1. Init => Blocks!Init
  BY DEF Init, SessionInit, Blocks!Init
<1>2. /\ TypeOK /\ Control /\ Dooms /\ Works /\ Aborted /\ EffectsIssued /\ HooksInv /\ NothingLeftOver
      /\ [Next]_vars
      => [Blocks!Next]_(Blocks!vars)
  <2> SUFFICES ASSUME TypeOK, Control, Dooms, Works, Aborted, EffectsIssued, HooksInv, NothingLeftOver,
                      [Next]_vars
               PROVE  Blocks!Next \/ UNCHANGED Blocks!vars
    OBVIOUS
  <2>1. ~(ACommit \/ ACommitFails \/ ARollback \/ \E on \in BOOLEAN : ASetAutocommit(on))
    BY DEF Managed, ACommit, ACommitFails, ARollback, ASetAutocommit, Unmanaged
  <2>2. CASE Connect
    BY <2>2, ConnectRunsNone, AbstractState DEF Connect
  <2>3. CASE ConnectRefused \/ UNCHANGED vars
    <3>1. UNCHANGED <<open, committed, fired>>
      BY <2>3 DEF ConnectRefused, vars, session, hooks
    <3> QED
      BY <3>1, AbstractState DEF RanHooks
  <2>4. ASSUME NEW b \in Kinds, AEnter(b)
        PROVE  Blocks!Next \/ UNCHANGED Blocks!vars
    BY <2>4, EnterRefines DEF Blocks!Next
  <2>5. ASSUME NEW raised \in BOOLEAN, AExit(raised)
        PROVE  Blocks!Next
    BY <2>5, ExitRefines DEF Blocks!Next
  <2> QED
    BY <2>1, <2>2, <2>3, <2>4, <2>5, BodyRefines DEF Next
<1> QED
  BY <1>1, <1>2, TypeCorrect, ControlInvariant, DoomsInvariant, WorksInvariant, AbortedInvariant,
     EffectsIssuedInvariant, HooksInvariant, NothingLeftOverInvariant, PTL
     DEF Spec, Blocks!Spec, NestedTransactionSpec

=============================================================================
