--------------------------- MODULE StorageProofs ---------------------------
(***************************************************************************)
(* Theorems about the page store beside the puts of the B+tree, checked by *)
(* TLAPS.  What a put does to the tree is known here only by the leaves it *)
(* changes: the one it is routed to, wherever that is, and one it appends. *)
(***************************************************************************)
EXTENDS PageStore, SequenceTheorems, TLAPS

Pages == {leaf[i] : i \in DOMAIN leaf}

Headers == [holds : {"header"}, rootOffset : {0}, nextFreeOffset : Nat \ {0}]

\* The cache and the file have the same pages, and the flush is at one of them.
Caches ==
    /\ leaf \in Seq(Pages) /\ Len(leaf) > 0 /\ Len(disk) = Len(leaf)
    /\ disk \in Seq({disk[i] : i \in DOMAIN disk})
    /\ flush \in [at : {"idle", "visit", "write", "clean"},
                  todo : SUBSET DOMAIN leaf, page : DOMAIN leaf, buf : {flush.buf}]

\* What the flush has encoded is the page, unless a put came between, and so is
\* what it has written.
Flushed ==
    flush.page \notin missed =>
        /\ flush.at = "write" => flush.buf = encodeLeaf(leaf[flush.page])
        /\ flush.at = "clean" /\ ~atOffsetZero(flush.page) =>
              disk[flush.page] = encodeLeaf(leaf[flush.page])

\* The start of the file: a synced header is never taken back.
FileStart ==
    /\ base \in Nat
    /\ written \in {Nothing, PageBytes} \cup Headers
    /\ synced \in {Nothing, PageBytes} \cup Headers
    /\ synced \in Headers => written \in Headers
    /\ up = "failed" => written = PageBytes

\* A process that is not running has lost its cache.
Reset == up # "open" => leaf = <<Empty>> /\ disk = << << >> >> /\ flush = Idle

StoreInv == Caches /\ Flushed /\ CleanOnDisk /\ FileStart /\ Reset
-----------------------------------------------------------------------------
\* Replacing one element of a sequence, in its domain or not, keeps its length
\* and its other elements.
LEMMA ExceptFacts ==
    ASSUME NEW S, NEW s \in Seq(S), NEW p, NEW v, NEW t, t = [s EXCEPT ![p] = v]
    PROVE  /\ t \in Seq(S \cup {v}) /\ Len(t) = Len(s)
           /\ \A q \in 1 .. Len(s) : q # p => t[q] = s[q]
<1> DEFINE T == S \cup {v}
<1>1. s \in Seq(T)
  BY SeqMonotonic
<1>2. CASE p \in 1 .. Len(s)
  BY <1>1, <1>2, ExceptSeq
<1>3. CASE p \notin 1 .. Len(s)
  <2>1. DOMAIN s = 1 .. Len(s) /\ s \in [1 .. Len(s) -> T]
    BY <1>1, LenProperties
  <2>2. t = s
    BY <1>3, <2>1
  <2> QED BY <1>1, <2>2
<1> QED BY <1>2, <1>3

\* Every sequence is one of its own elements.
LEMMA OwnElements ==
    ASSUME NEW S, NEW s \in Seq(S)
    PROVE  s \in Seq({s[i] : i \in DOMAIN s})
<1> DEFINE T == {s[i] : i \in DOMAIN s}
<1>1. Len(s) \in Nat /\ DOMAIN s = 1 .. Len(s)
  BY LenProperties
<1>2. \A i \in 1 .. Len(s) : s[i] \in T
  BY <1>1
<1>3. SubSeq(s, 1, Len(s)) \in Seq(T)
  BY <1>1, <1>2, SubSeqProperties
<1> QED BY <1>3, SubSeqFull

\* A put changes the leaf it is routed to, and may append one.
LEMMA PutLeaves ==
    ASSUME NEW key \in Key, NEW val \in Value, leaf \in Seq(Pages), Put(key, val)
    PROVE  /\ leaf' \in Seq(Pages')
           /\ Len(leaf) \in Nat /\ Len(leaf') \in Nat
           /\ (Len(leaf') = Len(leaf) \/ Len(leaf') = Len(leaf) + 1)
           /\ DOMAIN leaf = 1 .. Len(leaf) /\ DOMAIN leaf' = 1 .. Len(leaf')
           /\ DOMAIN leaf \subseteq DOMAIN leaf'
           /\ \A q \in DOMAIN leaf : q # child(key) => leaf'[q] = leaf[q]
<1>1. PICK v : \/ leaf' = [leaf EXCEPT ![child(key)] = v]
               \/ \E w : leaf' = Append([leaf EXCEPT ![child(key)] = v], w)
  <2> DEFINE n   == leaf[child(key)]
             c   == findLeafCell(n, key)
             new == insertCell(n, findInsPointForKey(n, key), [key |-> key, val |-> val])
  <2>1. \/ leaf' = [leaf EXCEPT ![child(key)] = [@ EXCEPT !.cells[c].val = val]]
        \/ leaf' = [leaf EXCEPT ![child(key)] = new]
        \/ Split(child(key), new)
    BY DEF Put
  <2>2. Split(child(key), new) =>
            leaf' = Append([leaf EXCEPT ![child(key)] = lower(new)], upper(new))
    BY DEF Split
  <2> HIDE DEF c, new
  <2> QED BY <2>1, <2>2
<1> DEFINE T == Pages \cup {v}
<1>0. PICK t : t = [leaf EXCEPT ![child(key)] = v]
  OBVIOUS
<1>2. /\ t \in Seq(T) /\ Len(t) = Len(leaf)
      /\ \A q \in 1 .. Len(leaf) : q # child(key) => t[q] = leaf[q]
  <2>1. PICK p : p = child(key)
    OBVIOUS
  <2>2. t = [leaf EXCEPT ![p] = v] /\ leaf \in Seq(Pages)
    BY <1>0, <2>1
  <2>3. t \in Seq(Pages \cup {v})
    BY <2>2, ExceptFacts
  <2>4. Len(t) = Len(leaf)
    BY <2>2, ExceptFacts
  <2>5. \A q \in 1 .. Len(leaf) : q # p => t[q] = leaf[q]
    BY <2>2, ExceptFacts
  <2> QED BY <2>1, <2>3, <2>4, <2>5
<1>3. Len(leaf) \in Nat /\ DOMAIN leaf = 1 .. Len(leaf)
  BY LenProperties
<1> HIDE DEF T
<1>4. CASE leaf' = t
  <2>1. leaf' \in Seq(T)
    BY <1>2, <1>4
  <2>2. leaf' \in Seq(Pages') /\ DOMAIN leaf' = 1 .. Len(leaf') /\ Len(leaf') \in Nat
    BY <2>1, OwnElements, LenProperties DEF Pages
  <2> QED BY <1>2, <1>3, <1>4, <2>2
<1>5. ASSUME NEW w, leaf' = Append(t, w)
      PROVE  /\ leaf' \in Seq(Pages')
             /\ Len(leaf') = Len(leaf) + 1 /\ Len(leaf') \in Nat
             /\ DOMAIN leaf' = 1 .. Len(leaf')
             /\ \A q \in DOMAIN leaf : q # child(key) => leaf'[q] = leaf[q]
  <2>1. t \in Seq(T \cup {w}) /\ w \in T \cup {w}
    BY <1>2, SeqMonotonic
  <2>2. /\ leaf' \in Seq(T \cup {w}) /\ Len(leaf') = Len(t) + 1
        /\ \A q \in 1 .. Len(t) : leaf'[q] = t[q]
    BY <1>5, <2>1, AppendProperties
  <2>3. leaf' \in Seq(Pages') /\ DOMAIN leaf' = 1 .. Len(leaf') /\ Len(leaf') \in Nat
    BY <2>2, OwnElements, LenProperties DEF Pages
  <2> QED BY <1>2, <1>3, <2>2, <2>3
<1>6. /\ leaf' \in Seq(Pages') /\ Len(leaf') \in Nat
      /\ Len(leaf') = Len(leaf) \/ Len(leaf') = Len(leaf) + 1
      /\ DOMAIN leaf' = 1 .. Len(leaf')
      /\ \A q \in DOMAIN leaf : q # child(key) => leaf'[q] = leaf[q]
  BY <1>0, <1>1, <1>4, <1>5
<1>7. 1 .. Len(leaf) \subseteq 1 .. Len(leaf')
  <2>1. Len(leaf) <= Len(leaf') /\ Len(leaf) \in Nat /\ Len(leaf') \in Nat
    <3>1. Len(leaf') = Len(leaf) \/ Len(leaf') = Len(leaf) + 1
      BY <1>6
    <3>2. Len(leaf) \in Nat
      BY <1>3
    <3> QED BY <3>1, <3>2
  <2> QED BY <2>1
<1> QED BY <1>3, <1>6, <1>7

LEMMA StoreInitInv == StoreInit => StoreInv
<1> SUFFICES ASSUME StoreInit PROVE StoreInv
  OBVIOUS
<1>1. leaf = <<Empty>> /\ disk = << << >> >> /\ flush = Idle
  BY DEF StoreInit, Init
<1>2. leaf \in Seq(Pages) /\ Len(leaf) = 1 /\ DOMAIN leaf = {1}
  BY <1>1 DEF Pages
<1>3. disk \in Seq({disk[i] : i \in DOMAIN disk}) /\ Len(disk) = 1
  BY <1>1
<1>4. Caches
  BY <1>1, <1>2, <1>3 DEF Caches, Idle
<1>5. Flushed /\ CleanOnDisk
  BY <1>1, <1>2 DEF Flushed, CleanOnDisk, StoreInit, Idle, atOffsetZero
<1>6. FileStart
  BY DEF FileStart, StoreInit, Nothing, PageBytes, Headers
<1> QED BY <1>1, <1>4, <1>5, <1>6 DEF StoreInv, Reset

LEMMA StorePutInv ==
    ASSUME NEW key \in Key, NEW val \in Value, StoreInv, StorePut(key, val)
    PROVE  StoreInv'
<1> DEFINE p     == child(key)
           added == DOMAIN leaf' \ DOMAIN leaf
           blank == [i \in 1 .. Len(leaf') - Len(leaf) |-> << >>]
           D     == {disk[i] : i \in DOMAIN disk} \cup {<< >>}
<1>1. /\ Put(key, val) /\ dirty' = dirty \cup {p}
      /\ missed' = missed \cup added \cup (IF flushing(p) THEN {p} ELSE {})
      /\ disk' = disk \o blank
      /\ base' = base /\ written' = written /\ synced' = synced /\ up' = up
  BY DEF StorePut, markDirty
<1>2. PICK seen \in {{}, added}, b \in {flush.buf, encodeLeaf(leaf'[p]), Torn} :
         /\ flush' = [flush EXCEPT !.todo = @ \cup seen, !.buf = b]
         /\ b # flush.buf => flush.at = "write" /\ flush.page = p
  BY DEF StorePut
<1>3. /\ leaf' \in Seq(Pages')
      /\ DOMAIN leaf \subseteq DOMAIN leaf'
      /\ \A q \in DOMAIN leaf : q # p => leaf'[q] = leaf[q]
  BY <1>1, PutLeaves DEF StoreInv, Caches
<1>4. /\ Len(leaf) \in Nat /\ Len(leaf') \in Nat
      /\ Len(leaf') = Len(leaf) \/ Len(leaf') = Len(leaf) + 1
  BY <1>1, PutLeaves DEF StoreInv, Caches
<1>5. DOMAIN leaf = 1 .. Len(leaf)
  BY <1>1, PutLeaves DEF StoreInv, Caches
<1> HIDE DEF p
<1>6. PICK k \in Nat : k = Len(leaf') - Len(leaf)
  BY <1>4
<1>7. /\ disk' \in Seq(D) /\ Len(disk') = Len(leaf')
      /\ \A q \in DOMAIN leaf : disk'[q] = disk[q]
  <2>1. disk \in Seq(D) /\ Len(disk) = Len(leaf)
    BY SeqMonotonic DEF StoreInv, Caches
  <2>2. << >> \in D
    OBVIOUS
  <2> HIDE DEF D
  <2>3. [i \in 1 .. k |-> << >>] \in Seq(D) /\ Len([i \in 1 .. k |-> << >>]) = k
    BY <2>2
  <2>4. blank \in Seq(D) /\ Len(blank) = k
    BY <1>6, <2>3
  <2> HIDE DEF blank
  <2>5. /\ disk' \in Seq(D) /\ Len(disk') = Len(leaf) + k
        /\ \A i \in 1 .. Len(leaf) + k :
              disk'[i] = IF i <= Len(leaf) THEN disk[i] ELSE blank[i - Len(leaf)]
    <3>1. /\ disk' \in Seq(D) /\ Len(disk') = Len(disk) + Len(blank)
          /\ \A i \in 1 .. Len(disk) + Len(blank) :
                disk'[i] = IF i <= Len(disk) THEN disk[i] ELSE blank[i - Len(disk)]
      BY <1>1, <2>1, <2>4, ConcatProperties
    <3> QED BY <2>1, <2>4, <3>1
  <2>6. Len(leaf) + k = Len(leaf')
    BY <1>4, <1>6
  <2>7. \A q \in 1 .. Len(leaf) : disk'[q] = disk[q]
    BY <1>4, <2>5
  <2> QED BY <1>5, <2>5, <2>6, <2>7
<1> HIDE DEF D
<1>8. /\ flush'.at = flush.at /\ flush'.page = flush.page /\ flush'.buf = b
      /\ flush'.todo = flush.todo \cup seen
      /\ flush' \in [at : {"idle", "visit", "write", "clean"},
                     todo : SUBSET DOMAIN leaf', page : DOMAIN leaf', buf : {flush'.buf}]
  <2>1. seen \subseteq DOMAIN leaf'
    BY <1>2
  <2>2. flush \in [at : {"idle", "visit", "write", "clean"},
                   todo : SUBSET DOMAIN leaf, page : DOMAIN leaf, buf : {flush.buf}]
    BY DEF StoreInv, Caches
  <2>3. /\ flush'.at = flush.at /\ flush'.page = flush.page /\ flush'.buf = b
        /\ flush'.todo = flush.todo \cup seen
    BY <1>2, <2>2
  <2>4. flush' = [at |-> flush.at, todo |-> flush.todo \cup seen, page |-> flush.page, buf |-> b]
    BY <1>2, <2>2
  <2>5. flush.todo \cup seen \in SUBSET DOMAIN leaf' /\ flush.page \in DOMAIN leaf'
    BY <1>3, <2>1, <2>2
  <2> QED BY <2>2, <2>3, <2>4, <2>5
<1>9. Caches'
  <2>1. disk' \in Seq({disk[i] : i \in DOMAIN disk}')
    BY <1>7, OwnElements
  <2>2. Len(leaf') > 0
    BY <1>4 DEF StoreInv, Caches
  <2> QED BY <1>3, <1>7, <1>8, <2>1, <2>2 DEF Caches
<1>10. \A q : atOffsetZero(q)' <=> atOffsetZero(q)
  BY <1>1 DEF atOffsetZero
<1>11. \A q \in DOMAIN leaf : q # p => encodeLeaf(leaf[q])' = encodeLeaf(leaf[q])
  BY <1>3 DEF encodeLeaf
<1>12. flush.page \in DOMAIN leaf
  BY DEF StoreInv, Caches
<1>13. Flushed'
  BY <1>1, <1>2, <1>7, <1>8, <1>10, <1>11, <1>12 DEF StoreInv, Flushed, flushing
<1>14. CleanOnDisk'
  BY <1>1, <1>7, <1>10, <1>11 DEF StoreInv, CleanOnDisk
<1>15. FileStart'
  BY <1>1 DEF StoreInv, FileStart
<1>16. Reset'
  BY <1>1 DEF Reset, StorePut, running
<1> QED BY <1>9, <1>13, <1>14, <1>15, <1>16 DEF StoreInv

\* The steps of the flush leave the tree alone.
LEMMA FlushInv ==
    ASSUME StoreInv, leaf' = leaf,
           FlushPages \/ (\E p \in flush.todo : Visit(p)) \/ Update \/ MarkClean \/ Save
    PROVE  StoreInv'
<1>1. /\ Pages' = Pages /\ base' = base /\ up' = up
      /\ \A p : encodeLeaf(leaf[p])' = encodeLeaf(leaf[p])
      /\ \A p : atOffsetZero(p)' <=> atOffsetZero(p)
  BY DEF Pages, FlushPages, Visit, Update, MarkClean, Save, encodeLeaf, atOffsetZero
<1>0. Reset'
  BY <1>1 DEF Reset, running, FlushPages, Visit, Update, MarkClean, Save
<1>2. /\ Len(leaf) \in Nat \ {0} /\ DOMAIN leaf = 1 .. Len(leaf)
      /\ DOMAIN disk = DOMAIN leaf
  BY LenProperties DEF StoreInv, Caches
<1>3. CASE FlushPages
  <2>1. /\ flush' = [flush EXCEPT !.at = "visit", !.todo = DOMAIN leaf]
        /\ disk' = disk /\ dirty' = dirty /\ missed' = missed
        /\ written' = written /\ synced' = synced
    BY <1>3 DEF FlushPages
  <2>2. Caches'
    BY <1>1, <2>1 DEF StoreInv, Caches
  <2>3. Flushed' /\ CleanOnDisk' /\ FileStart'
    BY <1>1, <2>1 DEF StoreInv, Caches, Flushed, CleanOnDisk, FileStart
  <2> QED BY <1>0, <2>2, <2>3 DEF StoreInv
<1>4. ASSUME NEW p \in flush.todo, Visit(p) PROVE StoreInv'
  <2>1. p \in DOMAIN leaf
    BY DEF StoreInv, Caches
  <2>2. CASE p \notin dirty
    BY <1>0, <1>1, <1>4, <2>2 DEF Visit, StoreInv, Caches, Flushed, CleanOnDisk, FileStart
  <2>3. CASE p \in dirty
    <3>1. /\ flush' = [at |-> "write", todo |-> flush.todo \ {p}, page |-> p,
                       buf |-> encodeLeaf(leaf[p])]
          /\ missed' = missed \ {p} /\ disk' = disk /\ dirty' = dirty
      BY <1>4, <2>3 DEF Visit
    <3>2. Caches'
      BY <1>1, <2>1, <3>1 DEF StoreInv, Caches
    <3>3. Flushed' /\ CleanOnDisk' /\ FileStart'
      BY <1>1, <1>4, <2>3, <3>1 DEF Visit, StoreInv, Flushed, CleanOnDisk, FileStart
    <3> QED BY <1>0, <3>2, <3>3 DEF StoreInv
  <2> QED BY <2>2, <2>3
<1>5. CASE Update
  <2> DEFINE E == {disk[i] : i \in DOMAIN disk} \cup {flush.buf}
  <2>1. /\ disk' \in Seq(E) /\ Len(disk') = Len(disk)
        /\ \A q \in DOMAIN leaf : q # flush.page => disk'[q] = disk[q]
        /\ disk'[flush.page] = flush.buf
    <3>1. disk' = [disk EXCEPT ![flush.page] = flush.buf]
      BY <1>5 DEF Update
    <3>2. flush.page \in 1 .. Len(disk)
      BY <1>2 DEF StoreInv, Caches
    <3>3. disk'[flush.page] = flush.buf
      BY <1>2, <3>1, <3>2 DEF StoreInv, Caches
    <3>4. /\ disk' \in Seq(E) /\ Len(disk') = Len(disk)
          /\ \A q \in 1 .. Len(disk) : q # flush.page => disk'[q] = disk[q]
      BY <3>1, ExceptFacts DEF StoreInv, Caches
    <3> QED BY <1>2, <3>3, <3>4 DEF StoreInv, Caches
  <2>2. disk' \in Seq({disk[i] : i \in DOMAIN disk}')
    BY <2>1, OwnElements
  <2> HIDE DEF E
  <2>3. flush' = [flush EXCEPT !.at = "clean"] /\ flush.at = "write" /\ dirty' = dirty /\ missed' = missed
    BY <1>5 DEF Update
  <2>4. Caches'
    BY <1>1, <2>1, <2>2, <2>3 DEF StoreInv, Caches
  <2>5. Flushed'
    BY <1>1, <2>1, <2>3 DEF StoreInv, Flushed, Caches
  <2>6. CleanOnDisk'
    BY <1>1, <1>2, <2>1, <2>3 DEF StoreInv, CleanOnDisk, Flushed, Caches
  <2>7. FileStart'
    BY <1>1, <1>5 DEF Update, running, StoreInv, FileStart
  <2> QED BY <1>0, <2>4, <2>5, <2>6, <2>7 DEF StoreInv
<1>6. CASE MarkClean
  <2>1. /\ flush' = [Idle EXCEPT !.at = "visit", !.todo = flush.todo]
        /\ flush.at = "clean" /\ dirty' = dirty \ {flush.page}
        /\ disk' = disk /\ missed' = missed
        /\ written' = written /\ synced' = synced
    BY <1>6 DEF MarkClean
  <2>2. flush' = [at |-> "visit", todo |-> flush.todo, page |-> 1, buf |-> << >>]
    BY <2>1 DEF Idle
  <2>3. 1 \in DOMAIN leaf
    BY <1>2
  <2>4. Caches'
    <3>1. flush.todo \in SUBSET DOMAIN leaf
      BY DEF StoreInv, Caches
    <3>2. flush' \in [at : {"idle", "visit", "write", "clean"},
                      todo : SUBSET DOMAIN leaf, page : DOMAIN leaf, buf : {flush'.buf}]
      BY <2>2, <2>3, <3>1
    <3> QED BY <1>1, <2>1, <3>2 DEF StoreInv, Caches
  <2>5. Flushed' /\ FileStart'
    BY <1>1, <2>1, <2>2 DEF StoreInv, Flushed, FileStart
  <2>6. CleanOnDisk'
    BY <1>1, <2>1 DEF StoreInv, Flushed, CleanOnDisk
  <2> QED BY <1>0, <2>4, <2>5, <2>6 DEF StoreInv
<1>7. CASE Save
  <2>1. flush' = Idle /\ written' = header /\ synced' = synced /\ disk' = disk /\ missed' = missed /\ dirty' = dirty /\ up = "open"
    BY <1>7 DEF Save, running
  <2>2. header \in Headers
    BY <1>2 DEF StoreInv, FileStart, header, nextFreeOffset, Headers
  <2>3. Caches' /\ Flushed' /\ CleanOnDisk'
    BY <1>1, <1>2, <2>1 DEF Idle, StoreInv, Caches, Flushed, CleanOnDisk
  <2>4. FileStart'
    BY <1>1, <2>1, <2>2 DEF StoreInv, FileStart
  <2> QED BY <1>0, <2>3, <2>4 DEF StoreInv
<1> QED BY <1>3, <1>4, <1>5, <1>6, <1>7

LEMMA StoreInvNext ==
    ASSUME StoreInv, [StoreNext]_allVars
    PROVE  StoreInv'
<1>1. CASE UNCHANGED allVars
  BY <1>1 DEF allVars, vars, storeVars, StoreInv, Caches, Pages, Flushed, CleanOnDisk,
              FileStart, Reset, atOffsetZero, encodeLeaf
<1>2. CASE \E key \in Key, val \in Value : StorePut(key, val)
  BY <1>2, StorePutInv
<1>3. CASE FlushPages \/ (\E p \in flush.todo : Visit(p)) \/ Update \/ MarkClean \/ Save
  <2>1. leaf' = leaf
    BY <1>3 DEF FlushPages, Visit, Update, MarkClean, Save, vars
  <2> QED BY <1>3, <2>1, FlushInv
<1>4. CASE UpdateFails
  BY <1>4 DEF UpdateFails, storeVars, StoreInv, Caches, Pages, Flushed, CleanOnDisk,
              FileStart, Reset, atOffsetZero, encodeLeaf
<1>5. CASE Crash
  <2>1. leaf' = <<Empty>> /\ disk' = << << >> >> /\ flush' = Idle
    BY <1>5 DEF Crash
  <2>2. leaf' \in Seq(Pages') /\ Len(leaf') = 1 /\ DOMAIN leaf' = {1}
    BY <2>1 DEF Pages
  <2>3. disk' \in Seq({disk[i] : i \in DOMAIN disk}') /\ Len(disk') = 1
    BY <2>1
  <2>4. Caches'
    BY <2>1, <2>2, <2>3 DEF Caches, Idle
  <2>5. Flushed' /\ CleanOnDisk'
    <3>1. encodeLeaf(leaf[1])' = << >>
      BY <2>1 DEF encodeLeaf, Empty
    <3> QED BY <2>1, <2>2, <3>1 DEF Flushed, CleanOnDisk, Idle
  <2>6. FileStart'
    BY <1>5 DEF Crash, StoreInv, FileStart, Nothing, PageBytes, Headers
  <2> QED BY <2>1, <2>4, <2>5, <2>6 DEF StoreInv, Reset
<1>6. CASE NewBTreeWithPath
  <2>1. /\ leaf' = leaf /\ dirty' = dirty /\ missed' = missed /\ disk' = disk
        /\ flush' = flush /\ written' = written /\ synced' = synced
    BY <1>6 DEF NewBTreeWithPath, vars
  <2>2. /\ leaf = <<Empty>> /\ disk = << << >> >> /\ flush = Idle /\ DOMAIN leaf = {1}
        /\ encodeLeaf(leaf[1])' = << >>
    BY <1>6, <2>1 DEF NewBTreeWithPath, StoreInv, Reset, encodeLeaf, Empty
  <2>3. Caches' /\ Reset'
    BY <2>1, <2>2 DEF StoreInv, Caches, Pages, Reset
  <2>4. Flushed' /\ CleanOnDisk'
    BY <2>1, <2>2 DEF Flushed, CleanOnDisk, Idle
  <2>5. FileStart'
    <3>1. written \in {Nothing, PageBytes} \/ written.nextFreeOffset \in Nat \ {0}
      BY DEF StoreInv, FileStart, Headers
    <3> QED BY <1>6, <2>1, <3>1 DEF NewBTreeWithPath, StoreInv, FileStart
  <2> QED BY <2>3, <2>4, <2>5 DEF StoreInv
<1> QED
  BY <1>1, <1>2, <1>3, <1>4, <1>5, <1>6 DEF StoreNext

THEOREM StoreInvariance == StoreSpec => []StoreInv
BY StoreInitInv, StoreInvNext, PTL DEF StoreSpec

\* Whatever the puts do to the tree between the steps of flushPages, and across
\* crashes, a page that is not dirty is on the disk as it is in memory, with the
\* three exceptions CleanOnDisk names.
THEOREM CleanPagesOnDisk == StoreSpec => []CleanOnDisk
BY StoreInvariance, PTL DEF StoreInv

\* The file of a life that began past offset 0, from its first synced header on.
Settled == base > 0 /\ written \in Headers /\ synced \in Headers

LEMMA SettledNext ==
    ASSUME StoreInv, Settled, [StoreNext]_allVars
    PROVE  Settled'
<1>1. CASE UNCHANGED allVars
  BY <1>1 DEF allVars, storeVars, Settled
<1>2. CASE \E key \in Key, val \in Value : StorePut(key, val)
  BY <1>2 DEF StorePut, Settled
<1>3. CASE FlushPages \/ (\E p \in flush.todo : Visit(p)) \/ MarkClean \/ UpdateFails
  BY <1>3 DEF FlushPages, Visit, MarkClean, UpdateFails, storeVars, Settled
<1>4. CASE Update
  BY <1>4 DEF Update, atOffsetZero, Settled
<1>5. CASE Save
  <2>1. Len(leaf) \in Nat /\ Len(leaf) > 0
    BY LenProperties DEF StoreInv, Caches
  <2>2. header \in Headers
    BY <2>1 DEF StoreInv, FileStart, header, nextFreeOffset, Headers
  <2> QED BY <1>5, <2>2 DEF Save, Settled
<1>6. CASE Crash
  BY <1>6 DEF Crash, Settled
<1>7. CASE NewBTreeWithPath
  BY <1>7 DEF NewBTreeWithPath, Settled, Headers, Nothing, PageBytes
<1> QED
  BY <1>1, <1>2, <1>3, <1>4, <1>5, <1>6, <1>7 DEF StoreNext

\* Once a life that began past offset 0 has a header on the disk, no order of
\* flushes, failing encodes and crashes leaves a file that newFileStore and
\* loadPage cannot open.
THEOREM LaterStartsOpen == StoreSpec => OpensAfterSynced
<1>1. StoreInv /\ base > 0 /\ synced \notin {Nothing, PageBytes} => Settled
  BY DEF StoreInv, FileStart, Settled
<1>2. StoreInv /\ Settled => up # "failed"
  BY DEF StoreInv, FileStart, Settled, Headers, PageBytes
<1>3. StoreInv /\ Settled /\ [StoreNext]_allVars => Settled'
  BY SettledNext
<1> QED
  BY <1>1, <1>2, <1>3, StoreInvariance, PTL DEF StoreSpec, OpensAfterSynced
=============================================================================
