------------------------------ MODULE DBProofs ------------------------------
(***************************************************************************)
(* Theorems about the database of a node, checked by TLAPS.                *)
(*                                                                         *)
(* The commit index that travels with a batch is where it ends in the      *)
(* sequence of committed entries.  Pipeline says that the store, the job   *)
(* that runs, the scheduler's queue and the apply channel are cut from     *)
(* this sequence one after the other.  Writers says of which writers the   *)
(* channel may be closed, and rests on Ids: no request id is given out     *)
(* twice, across restarts.                                                 *)
(***************************************************************************)
EXTENDS DB, SequenceTheorems, FiniteSetTheorems, TLAPS

Entry == LocalPut \cup RemotePut
Task  == [entries : Seq(Entry), commitIndex : Nat]

\* Where batch k of s ends in the log, when s begins after position from.
end(from, s, k) == IF k = 0 THEN from ELSE s[k].commitIndex

\* The batches of s are cut from the log between two positions.
Chain(log, from, s, to) ==
    /\ end(from, s, Len(s)) = to
    /\ \A k \in 1 .. Len(s) :
          /\ end(from, s, k - 1) <= s[k].commitIndex /\ s[k].commitIndex <= Len(log)
          /\ s[k].entries = SubSeq(log, end(from, s, k - 1) + 1, s[k].commitIndex)

Pipeline ==
    /\ committed \in Seq(Entry) /\ kv \in Seq(Entry) /\ job \in Task
    /\ applyc \in Seq(Task) /\ queue \in Seq(Task)
    /\ stage \in {"next", "put", "trigger", "wake"}
    /\ lastCommitIndex \in 0 .. Len(kv) /\ lastTriggered \in 0 .. Len(kv)
    /\ Len(kv) <= Len(committed) /\ kv = SubSeq(committed, 1, Len(kv))
    /\ job.commitIndex <= Len(committed)
    /\ stage = "put" =>
          /\ Len(kv) <= job.commitIndex
          /\ job.entries = SubSeq(committed, Len(kv) + 1, job.commitIndex)
    /\ stage = "trigger" =>
          /\ 1 <= Len(kv) /\ Len(kv) <= job.commitIndex
          /\ job.entries = SubSeq(committed, Len(kv), job.commitIndex)
    /\ stage = "wake" => Len(kv) = job.commitIndex
    /\ \E mid \in 0 .. Len(committed) :
          /\ Chain(committed, IF stage = "next" THEN Len(kv) ELSE job.commitIndex, queue, mid)
          /\ Chain(committed, mid, applyc, Len(committed))

Clients ==
    /\ started \in Nat /\ FirstStart <= started
    /\ suffix \in Nat /\ NewGenerator(started) <= suffix
    /\ put \in [LocalPut -> {"start", "rejected", "propose", "wait", "acked", "failed", "past"}]
    /\ requestId \in [Entry -> Nat]
    /\ \A q \in RemotePut : requestId[q] = 0
    /\ \A p \in LocalPut : put[p] = "start" => requestId[p] = 0
    /\ chans \subseteq {requestId[p] : p \in LocalPut} \ {0}
    /\ proposed \subseteq Entry

Readers ==
    /\ get \in [Read -> {"start", "rejected", "begun", "read", "wait", "done", "failed", "past"}]
    /\ deadline \in [Read -> Nat] /\ seen \in [Read -> Nat]
    /\ ackedAt \in [Read -> SUBSET LocalPut]
    /\ m \subseteq 0 .. lastCommitIndex
    /\ \A g \in Read : get[g] = "begun" => deadline[g] <= lastCommitIndex

Inv == Pipeline /\ Clients /\ Readers
-----------------------------------------------------------------------------
(* Request ids. *)

\* The suffix that a node which started at a time has given out last, if it had
\* not lost the high bits of the clock.
position(start, s) == start * cntSize + (s - NewGenerator(start))

\* Since the first start, the ids have not come round.
IdsLast == position(started, suffix) <= FirstStart * cntSize + suffixSize

\* The ids given out are those of the positions passed since the first start.
IdsPassed ==
    \A p \in LocalPut : requestId[p] # 0 =>
        \E s, i \in Nat :
            /\ requestId[p] = idOf(s)
            /\ FirstStart * cntSize < s + suffixSize * i
            /\ s + suffixSize * i <= position(started, suffix)

Unique == \A p, q \in LocalPut : requestId[p] = requestId[q] /\ requestId[p] # 0 => p = q

\* A writer whose channel is gone has its command in the store.
Writers ==
    \A p \in LocalPut :
        /\ put[p] \in {"propose", "wait"} =>
              requestId[p] # 0 /\ (requestId[p] \in chans \/ p \in ToSet(kv))
        /\ put[p] = "acked" => p \in ToSet(kv)

Saw ==
    \A g \in Read :
        /\ get[g] \in {"begun", "read", "wait"} => ackedAt[g] \subseteq ToSet(kv)
        /\ get[g] = "done" =>
              seen[g] <= Len(kv) /\ ackedAt[g] \subseteq ToSet(SubSeq(kv, 1, seen[g]))

IdInv == IdsPassed /\ Unique /\ Writers /\ Saw

LEMMA Sizes ==
    /\ tsSize \in Nat \ {0} /\ cntSize \in Nat \ {0} /\ memberID \in Nat \ {0}
    /\ suffixSize \in Nat \ {0} /\ suffixSize = tsSize * cntSize
<1>1. tsSize \in Nat \ {0} /\ cntSize \in Nat \ {0} /\ memberID \in Nat \ {0}
  BY GeneratorAssumption
<1>2. \A a, b \in Nat \ {0} : a * b \in Nat \ {0}
  OBVIOUS
<1> QED BY <1>1, <1>2 DEF suffixSize

LEMMA Division ==
    ASSUME NEW a \in Nat, NEW b \in Nat \ {0}
    PROVE  a % b \in 0 .. b - 1 /\ \E q \in Nat : a = b * q + (a % b)
<1>1. a \div b \in Nat /\ a = b * (a \div b) + (a % b) /\ a % b \in 0 .. b - 1
  OBVIOUS
<1> QED BY <1>1

\* The first suffix differs from the clock by whole turns of the suffix.
LEMMA FirstSuffix ==
    ASSUME NEW u \in Nat
    PROVE  NewGenerator(u) \in Nat /\ \E q \in Nat : u * cntSize = NewGenerator(u) + suffixSize * q
<1>4. u % tsSize \in Nat
  BY Sizes, Division
<1>1. PICK q \in Nat : u = tsSize * q + (u % tsSize)
  BY Sizes, Division
<1>2. \A c, t, n, r \in Nat : (t * n + r) * c = r * c + (t * c) * n /\ r * c \in Nat
  OBVIOUS
<1>3. u * cntSize = (u % tsSize) * cntSize + (tsSize * cntSize) * q
      /\ (u % tsSize) * cntSize \in Nat
  BY <1>1, <1>2, <1>4, Sizes
<1> QED BY <1>3 DEF NewGenerator, lowbit, suffixSize

LEMMA IdFacts == \A s \in Nat : idOf(s) \in Nat \ {0}
<1>1. \A s \in Nat : s % suffixSize \in Nat
  BY Sizes, Division
<1>2. \A a, b \in Nat \ {0}, c \in Nat : a * b + c \in Nat \ {0}
  OBVIOUS
<1> QED BY <1>1, <1>2, Sizes DEF idOf, lowbit

\* Two suffixes with the same id are whole turns apart.
LEMMA SameId ==
    ASSUME NEW s \in Nat, NEW t \in Nat, NEW i \in Nat, NEW j \in Nat,
           idOf(s) = idOf(t),
           s + suffixSize * i < t + suffixSize * j
    PROVE  s + suffixSize * i + suffixSize <= t + suffixSize * j
<1> DEFINE n == suffixSize
<1>1. n \in Nat \ {0} /\ memberID \in Nat
  BY Sizes
<1>2. s % n = t % n
  <2>1. s % n \in Nat /\ t % n \in Nat
    BY <1>1, Division
  <2>2. memberID * n \in Nat
    BY <1>1
  <2>3. memberID * n + (s % n) = memberID * n + (t % n)
    BY DEF idOf, lowbit
  <2> HIDE DEF n
  <2> QED BY <2>1, <2>2, <2>3
<1> HIDE DEF n
<1>3. PICK a \in Nat : s = n * a + (s % n)
  BY <1>1, Division
<1>4. PICK b \in Nat : t = n * b + (t % n)
  BY <1>1, Division
<1>5. s % n \in Nat
  BY <1>1, Division
<1>6. PICK r \in Nat : r = s % n
  BY <1>5
<1>7. s = n * a + r /\ t = n * b + r
  BY <1>2, <1>3, <1>4, <1>6
<1>8. s + n * i = n * (a + i) + r /\ t + n * j = n * (b + j) + r
  BY <1>1, <1>7
<1>9. PICK x \in Nat, y \in Nat : x = a + i /\ y = b + j
  OBVIOUS
<1>10. n * x + r < n * y + r
  BY <1>8, <1>9 DEF n
<1>11. x < y
  <2> SUFFICES ASSUME y <= x PROVE FALSE
    BY <1>9
  <2>1. PICK d \in Nat : x = y + d
    <3>1. x - y \in Nat /\ x = y + (x - y)
      OBVIOUS
    <3> QED BY <3>1
  <2>2. n * x = n * y + n * d /\ n * d \in Nat /\ n * y \in Nat
    BY <1>1, <2>1
  <2> QED BY <1>10, <2>2
<1>12. PICK d \in Nat : y = x + 1 + d
  <2>1. y - x - 1 \in Nat /\ y = x + 1 + (y - x - 1)
    BY <1>11
  <2> QED BY <2>1
<1>13. n * y = n * x + n + n * d /\ n * d \in Nat /\ n * x \in Nat
  BY <1>1, <1>12
<1>14. n * x + r + n <= n * y + r
  BY <1>1, <1>13
<1> QED BY <1>8, <1>9, <1>14 DEF n
-----------------------------------------------------------------------------
(* From the apply channel to the store. *)

LEMMA EndFacts ==
    ASSUME NEW s \in Seq(Task), NEW a \in Nat, NEW k \in 0 .. Len(s)
    PROVE  end(a, s, k) \in Nat /\ (k # 0 => s[k] \in Task /\ end(a, s, k) = s[k].commitIndex)
<1>1. CASE k = 0
  BY <1>1 DEF end
<1>2. CASE k # 0
  <2>1. k \in 1 .. Len(s)
    BY <1>2
  <2>2. s[k] \in Task
    BY <2>1, ElementOfSeq
  <2> QED BY <1>2, <2>2 DEF end, Task
<1> QED BY <1>1, <1>2

LEMMA ChainAppend ==
    ASSUME NEW l \in Seq(Entry), NEW s \in Seq(Task), NEW a \in Nat, NEW b \in Nat,
           Chain(l, a, s, b), NEW t \in Task, b <= t.commitIndex, t.commitIndex <= Len(l),
           t.entries = SubSeq(l, b + 1, t.commitIndex)
    PROVE  Append(s, t) \in Seq(Task) /\ Chain(l, a, Append(s, t), t.commitIndex)
<1> DEFINE u == Append(s, t)
<1>1. /\ u \in Seq(Task) /\ Len(u) = Len(s) + 1 /\ Len(s) \in Nat /\ u[Len(s) + 1] = t
      /\ \A k \in 1 .. Len(s) : u[k] = s[k]
  OBVIOUS
<1> HIDE DEF u
<1>2. \A k \in 0 .. Len(s) : end(a, u, k) = end(a, s, k)
  <2>1. \A k \in 0 .. Len(s) : k # 0 => k \in 1 .. Len(s)
    OBVIOUS
  <2> QED BY <1>1, <2>1, Zenon DEF end
<1>3. end(a, u, Len(u)) = t.commitIndex
  BY <1>1 DEF end
<1>4. end(a, s, Len(s)) = b /\ \A k \in 1 .. Len(s) :
         /\ end(a, s, k - 1) <= s[k].commitIndex /\ s[k].commitIndex <= Len(l)
         /\ s[k].entries = SubSeq(l, end(a, s, k - 1) + 1, s[k].commitIndex)
  BY DEF Chain
<1>5. ASSUME NEW k \in 1 .. Len(u)
      PROVE  /\ end(a, u, k - 1) <= u[k].commitIndex /\ u[k].commitIndex <= Len(l)
             /\ u[k].entries = SubSeq(l, end(a, u, k - 1) + 1, u[k].commitIndex)
  <2>1. CASE k \in 1 .. Len(s)
    <3>1. k - 1 \in 0 .. Len(s)
      BY <2>1
    <3>2. u[k] = s[k] /\ end(a, u, k - 1) = end(a, s, k - 1)
      BY <1>1, <1>2, <2>1, <3>1
    <3> QED BY <1>4, <2>1, <3>2
  <2>2. CASE k = Len(s) + 1
    <3>1. Len(s) \in 0 .. Len(s) /\ k - 1 = Len(s)
      BY <1>1, <2>2
    <3>2. u[k] = t /\ end(a, u, k - 1) = b
      BY <1>1, <1>2, <1>4, <2>2, <3>1
    <3> QED BY <3>2
  <2> QED BY <1>1, <2>1, <2>2
<1> QED BY <1>1, <1>3, <1>5 DEF Chain, u

LEMMA ChainTail ==
    ASSUME NEW l \in Seq(Entry), NEW s \in Seq(Task), NEW a \in Nat, NEW b \in Nat,
           Chain(l, a, s, b), s # << >>
    PROVE  \E t \in Task :
              /\ t = Head(s) /\ Tail(s) \in Seq(Task)
              /\ a <= t.commitIndex /\ t.commitIndex <= Len(l)
              /\ t.entries = SubSeq(l, a + 1, t.commitIndex)
              /\ Chain(l, t.commitIndex, Tail(s), b)
<1> DEFINE u == Tail(s)
<1>1. /\ Head(s) \in Task /\ Head(s) = s[1] /\ 1 \in 1 .. Len(s) /\ Len(s) \in Nat
      /\ u \in Seq(Task) /\ Len(u) = Len(s) - 1
      /\ \A k \in 1 .. Len(u) : u[k] = s[k + 1]
  OBVIOUS
<1>2. PICK t \in Task : t = Head(s)
  BY <1>1
<1> HIDE DEF u
<1>3. end(a, s, Len(s)) = b /\ \A k \in 1 .. Len(s) :
         /\ end(a, s, k - 1) <= s[k].commitIndex /\ s[k].commitIndex <= Len(l)
         /\ s[k].entries = SubSeq(l, end(a, s, k - 1) + 1, s[k].commitIndex)
  BY DEF Chain
<1>4. a <= t.commitIndex /\ t.commitIndex <= Len(l) /\ t.entries = SubSeq(l, a + 1, t.commitIndex)
  <2>1. end(a, s, 1 - 1) = a
    BY DEF end
  <2> QED BY <1>1, <1>2, <1>3, <2>1
<1>5. ASSUME NEW k \in 0 .. Len(u) PROVE end(t.commitIndex, u, k) = end(a, s, k + 1)
  <2>1. CASE k = 0
    BY <1>1, <1>2, <2>1 DEF end
  <2>2. CASE k # 0
    <3>1. k \in 1 .. Len(u) /\ k + 1 # 0
      BY <1>1, <2>2
    <3> QED BY <1>1, <2>2, <3>1 DEF end
  <2> QED BY <2>1, <2>2
<1>6. end(t.commitIndex, u, Len(u)) = b
  <2>1. Len(u) \in 0 .. Len(u) /\ Len(u) + 1 = Len(s)
    BY <1>1
  <2> QED BY <1>3, <1>5, <2>1
<1>7. ASSUME NEW k \in 1 .. Len(u)
      PROVE  /\ end(t.commitIndex, u, k - 1) <= u[k].commitIndex /\ u[k].commitIndex <= Len(l)
             /\ u[k].entries = SubSeq(l, end(t.commitIndex, u, k - 1) + 1, u[k].commitIndex)
  <2>1. k - 1 \in 0 .. Len(u) /\ k + 1 \in 1 .. Len(s) /\ (k - 1) + 1 = (k + 1) - 1
    BY <1>1
  <2>2. u[k] = s[k + 1] /\ end(t.commitIndex, u, k - 1) = end(a, s, (k + 1) - 1)
    BY <1>1, <1>5, <2>1
  <2> QED BY <1>3, <2>1, <2>2
<1> QED BY <1>1, <1>2, <1>4, <1>6, <1>7 DEF Chain, u

LEMMA PrefixKept ==
    ASSUME NEW l \in Seq(Entry), NEW e \in Seq(Entry), NEW i \in Nat, NEW j \in Nat,
           i <= j, j <= Len(l)
    PROVE  SubSeq(l \o e, i + 1, j) = SubSeq(l, i + 1, j)
<1>1. CASE i = j
  <2>1. SubSeq(l \o e, i + 1, j) = << >> /\ SubSeq(l, i + 1, j) = << >>
    BY <1>1, SubSeqEmpty
  <2> QED BY <2>1
<1>2. CASE i < j
  <2>1. i + 1 \in 1 .. Len(l) /\ j \in 1 .. Len(l)
    BY <1>2
  <2> QED BY <2>1, SubSeqOfConcat1
<1> QED BY <1>1, <1>2

LEMMA ChainGrows ==
    ASSUME NEW l \in Seq(Entry), NEW e \in Seq(Entry), NEW s \in Seq(Task), NEW a \in Nat,
           NEW b \in Nat, Chain(l, a, s, b)
    PROVE  Chain(l \o e, a, s, b)
<1> DEFINE u == l \o e
<1>1. Len(u) = Len(l) + Len(e) /\ Len(l) \in Nat /\ Len(e) \in Nat
  OBVIOUS
<1>2. end(a, s, Len(s)) = b
  BY DEF Chain
<1>3. ASSUME NEW k \in 1 .. Len(s)
      PROVE  /\ end(a, s, k - 1) <= s[k].commitIndex /\ s[k].commitIndex <= Len(u)
             /\ s[k].entries = SubSeq(u, end(a, s, k - 1) + 1, s[k].commitIndex)
  <2>1. k - 1 \in 0 .. Len(s) /\ k \in 0 .. Len(s) /\ k # 0
    OBVIOUS
  <2>2. PICK i \in Nat, j \in Nat : i = end(a, s, k - 1) /\ j = s[k].commitIndex
    BY <2>1, EndFacts
  <2>3. i <= j /\ j <= Len(l) /\ s[k].entries = SubSeq(l, i + 1, j)
    BY <2>2 DEF Chain
  <2>4. SubSeq(u, i + 1, j) = SubSeq(l, i + 1, j)
    BY <2>3, PrefixKept
  <2> HIDE DEF u
  <2>5. j <= Len(u)
    BY <1>1, <2>3
  <2> QED BY <2>2, <2>3, <2>4, <2>5
<1> QED BY <1>2, <1>3 DEF Chain

LEMMA ChainEmpty == \A l, a : Chain(l, a, << >>, a)
BY DEF Chain, end

\* A step of the specification of delivery, or none.
Delivers == [Store!Extend \/ Store!Deliver \/ Store!Restart]_<<committed, kv>>

LEMMA BatchFacts ==
    ASSUME Clients, NEW es \in Batch
    PROVE  es \in Seq(Entry) /\ Len(es) \in Nat \ {0}
<1>1. PICK k \in 1 .. MaxBatch : es \in [1 .. k -> proposed]
  BY DEF Batch
<1>2. k \in Nat \ {0}
  BY DBAssumption
<1>3. es \in [1 .. k -> Entry]
  BY <1>1 DEF Clients
<1> QED BY <1>2, <1>3

LEMMA CommitPipe ==
    ASSUME Pipeline, Clients, NEW es \in Batch, Commit(es)
    PROVE  Pipeline' /\ Delivers
<1> DEFINE c == committed
           d == committed \o es
           n == Len(committed)
<1>1. /\ committed' = d
      /\ applyc' = Append(applyc, [entries |-> es, commitIndex |-> Len(d)])
      /\ UNCHANGED <<queue, job, stage, kv, lastCommitIndex, lastTriggered>>
  BY DEF Commit, applyVars
<1>2. es \in Seq(Entry) /\ Len(es) \in Nat \ {0}
  BY BatchFacts
<1>3. c \in Seq(Entry) /\ n \in Nat /\ kv \in Seq(Entry) /\ Len(kv) \in Nat /\ Len(kv) <= n
      /\ job \in Task /\ job.commitIndex \in Nat /\ job.commitIndex <= n
      /\ applyc \in Seq(Task) /\ queue \in Seq(Task)
  BY DEF Pipeline, Task
<1>4. d \in Seq(Entry) /\ Len(d) = n + Len(es) /\ Len(d) \in Nat /\ n < Len(d)
  BY <1>2, <1>3
<1>5. SubSeq(d, n + 1, Len(d)) = es
  <2>1. Len(SubSeq(d, n + 1, Len(d))) = Len(es) /\ SubSeq(d, n + 1, Len(d)) \in Seq(Entry)
    BY <1>2, <1>3, <1>4
  <2>2. \A k \in 1 .. Len(es) : SubSeq(d, n + 1, Len(d))[k] = es[k]
    BY <1>2, <1>3, <1>4
  <2> QED BY <1>2, <2>1, <2>2, SeqEqual
<1>6. PICK t \in Task : t = [entries |-> es, commitIndex |-> Len(d)]
  BY <1>2, <1>4 DEF Task
<1>7. t.entries = es /\ t.commitIndex = Len(d)
  BY <1>6
<1>8. PICK mid \in 0 .. n :
         /\ Chain(c, IF stage = "next" THEN Len(kv) ELSE job.commitIndex, queue, mid)
         /\ Chain(c, mid, applyc, n)
  BY DEF Pipeline
<1>9. PICK from \in Nat : from = IF stage = "next" THEN Len(kv) ELSE job.commitIndex
  BY <1>3
<1>10. mid \in Nat /\ mid \in 0 .. Len(d)
  BY <1>3, <1>4
<1>11. Chain(d, from, queue, mid) /\ Chain(d, mid, applyc, n)
  BY <1>2, <1>3, <1>8, <1>9, <1>10, ChainGrows
<1> HIDE DEF d, c, n
<1>12. Append(applyc, t) \in Seq(Task) /\ Chain(d, mid, Append(applyc, t), Len(d))
  <2>1. n <= t.commitIndex /\ t.commitIndex <= Len(d) /\ t.entries = SubSeq(d, n + 1, t.commitIndex)
    BY <1>3, <1>4, <1>5, <1>7
  <2> QED BY <1>3, <1>4, <1>7, <1>10, <1>11, <2>1, ChainAppend
<1>13. /\ \A i \in 0 .. Len(kv) : SubSeq(d, i + 1, Len(kv)) = SubSeq(c, i + 1, Len(kv))
       /\ \A i \in 0 .. job.commitIndex :
             SubSeq(d, i + 1, job.commitIndex) = SubSeq(c, i + 1, job.commitIndex)
  <2>1. \A i, j \in Nat : i <= j /\ j <= n => SubSeq(d, i + 1, j) = SubSeq(c, i + 1, j)
    BY <1>2, <1>3, PrefixKept DEF d, c, n
  <2>2. /\ \A i \in 0 .. Len(kv) : i \in Nat /\ i <= Len(kv)
        /\ \A i \in 0 .. job.commitIndex : i \in Nat /\ i <= job.commitIndex
    BY <1>3
  <2> QED BY <1>3, <2>1, <2>2, Zenon
<1>14. kv = SubSeq(d, 1, Len(kv))
  <2>1. kv = SubSeq(c, 1, Len(kv)) /\ 0 \in 0 .. Len(kv) /\ 0 + 1 = 1
    BY <1>3 DEF Pipeline, c
  <2> QED BY <1>13, <2>1
<1>15. stage = "put" =>
          Len(kv) <= job.commitIndex /\ job.entries = SubSeq(d, Len(kv) + 1, job.commitIndex)
  <2>1. SUFFICES ASSUME stage = "put"
                 PROVE  Len(kv) <= job.commitIndex /\ job.entries = SubSeq(d, Len(kv) + 1, job.commitIndex)
    OBVIOUS
  <2>2. Len(kv) <= job.commitIndex /\ job.entries = SubSeq(c, Len(kv) + 1, job.commitIndex)
    BY <2>1 DEF Pipeline, c
  <2>3. Len(kv) \in 0 .. job.commitIndex
    BY <1>3, <2>2
  <2> QED BY <1>13, <2>2, <2>3
<1>16. stage = "trigger" =>
          /\ 1 <= Len(kv) /\ Len(kv) <= job.commitIndex
          /\ job.entries = SubSeq(d, Len(kv), job.commitIndex)
  <2>1. SUFFICES ASSUME stage = "trigger"
                 PROVE  /\ 1 <= Len(kv) /\ Len(kv) <= job.commitIndex
                        /\ job.entries = SubSeq(d, Len(kv), job.commitIndex)
    OBVIOUS
  <2>2. /\ 1 <= Len(kv) /\ Len(kv) <= job.commitIndex
        /\ job.entries = SubSeq(c, Len(kv), job.commitIndex)
    BY <2>1 DEF Pipeline, c
  <2>3. Len(kv) - 1 \in 0 .. job.commitIndex /\ (Len(kv) - 1) + 1 = Len(kv)
    BY <1>3, <2>2
  <2>4. SubSeq(d, Len(kv), job.commitIndex) = SubSeq(c, Len(kv), job.commitIndex)
    BY <1>13, <2>3
  <2> QED BY <2>2, <2>4
<1>17. Len(kv) <= Len(d) /\ job.commitIndex <= Len(d)
  BY <1>3, <1>4
<1>18. Pipeline'
  <2>1. applyc' = Append(applyc, t)
    BY <1>1, <1>6
  <2>2. \E x \in 0 .. Len(d) : /\ Chain(d, IF stage = "next" THEN Len(kv) ELSE job.commitIndex, queue, x)
                               /\ Chain(d, x, applyc', Len(d))
    BY <1>9, <1>10, <1>11, <1>12, <2>1
  <2>3. applyc' \in Seq(Task)
    BY <1>12, <2>1
  <2> QED BY <1>1, <1>4, <1>14, <1>15, <1>16, <1>17, <2>2, <2>3 DEF Pipeline
<1>19. Delivers
  <2>1. SubSeq(d, 1, n) = c
    BY <1>2, <1>3 DEF d, c, n
  <2> QED BY <1>1, <1>4, <2>1 DEF Delivers, Store!Extend, c, n
<1> QED BY <1>18, <1>19

LEMMA ApplyLoopPipe == Pipeline /\ ApplyLoop => Pipeline' /\ Delivers
<1> SUFFICES ASSUME Pipeline, ApplyLoop PROVE Pipeline' /\ Delivers
  OBVIOUS
<1>1. /\ applyc # << >> /\ queue' = Append(queue, Head(applyc)) /\ applyc' = Tail(applyc)
      /\ UNCHANGED <<committed, job, stage, kv, lastCommitIndex, lastTriggered>>
  BY DEF ApplyLoop, AddTask, applyVars
<1>2. /\ committed \in Seq(Entry) /\ Len(committed) \in Nat /\ Len(kv) \in Nat
      /\ job.commitIndex \in Nat /\ applyc \in Seq(Task) /\ queue \in Seq(Task)
  BY DEF Pipeline, Task
<1>3. PICK from \in Nat : from = IF stage = "next" THEN Len(kv) ELSE job.commitIndex
  BY <1>2
<1>4. PICK mid \in 0 .. Len(committed) :
         Chain(committed, from, queue, mid) /\ Chain(committed, mid, applyc, Len(committed))
  BY <1>3 DEF Pipeline
<1>5. mid \in Nat
  BY <1>2
<1>6. PICK t \in Task :
         /\ t = Head(applyc) /\ Tail(applyc) \in Seq(Task)
         /\ mid <= t.commitIndex /\ t.commitIndex <= Len(committed)
         /\ t.entries = SubSeq(committed, mid + 1, t.commitIndex)
         /\ Chain(committed, t.commitIndex, Tail(applyc), Len(committed))
  BY <1>1, <1>2, <1>4, <1>5, ChainTail
<1>7. Append(queue, t) \in Seq(Task) /\ Chain(committed, from, Append(queue, t), t.commitIndex)
  BY <1>2, <1>4, <1>5, <1>6, ChainAppend
<1>8. t.commitIndex \in 0 .. Len(committed)
  <2>1. t.commitIndex \in Nat
    BY DEF Task
  <2> QED BY <1>2, <1>6, <2>1
<1>9. \E x \in 0 .. Len(committed) :
         Chain(committed, from, queue', x) /\ Chain(committed, x, applyc', Len(committed))
  BY <1>1, <1>6, <1>7, <1>8
<1>10. queue' \in Seq(Task) /\ applyc' \in Seq(Task)
  BY <1>1, <1>6, <1>7
<1> QED BY <1>1, <1>3, <1>9, <1>10 DEF Pipeline, Delivers

LEMMA NextTaskPipe == Pipeline /\ NextTask => Pipeline' /\ Delivers
<1> SUFFICES ASSUME Pipeline, NextTask PROVE Pipeline' /\ Delivers
  OBVIOUS
<1>1. /\ stage = "next" /\ queue # << >> /\ job' = Head(queue) /\ queue' = Tail(queue)
      /\ stage' = "put" /\ UNCHANGED <<committed, applyc, kv, lastCommitIndex, lastTriggered>>
  BY DEF NextTask
<1>2. /\ committed \in Seq(Entry) /\ Len(committed) \in Nat /\ Len(kv) \in Nat
      /\ applyc \in Seq(Task) /\ queue \in Seq(Task)
  BY DEF Pipeline
<1>3. PICK mid \in 0 .. Len(committed) :
         Chain(committed, Len(kv), queue, mid) /\ Chain(committed, mid, applyc, Len(committed))
  BY <1>1 DEF Pipeline
<1>4. mid \in Nat
  BY <1>2
<1>5. PICK t \in Task :
         /\ t = Head(queue) /\ Tail(queue) \in Seq(Task)
         /\ Len(kv) <= t.commitIndex /\ t.commitIndex <= Len(committed)
         /\ t.entries = SubSeq(committed, Len(kv) + 1, t.commitIndex)
         /\ Chain(committed, t.commitIndex, Tail(queue), mid)
  BY <1>1, <1>2, <1>3, <1>4, ChainTail
<1>6. job' = t /\ queue' = Tail(queue)
  BY <1>1, <1>5
<1>7. \E x \in 0 .. Len(committed) :
         Chain(committed, job'.commitIndex, queue', x) /\ Chain(committed, x, applyc, Len(committed))
  BY <1>3, <1>5, <1>6
<1> QED BY <1>1, <1>5, <1>6, <1>7 DEF Pipeline, Delivers

LEMMA JobPutPipe == Pipeline /\ JobPut => Pipeline' /\ Delivers
<1> SUFFICES ASSUME Pipeline, JobPut PROVE Pipeline' /\ Delivers
  OBVIOUS
<1> DEFINE n == Len(kv)
           c == job.commitIndex
<1>1. /\ stage = "put" /\ job.entries # << >> /\ kv' = Append(kv, Head(job.entries))
      /\ stage' = "trigger"
      /\ UNCHANGED <<committed, applyc, queue, job, lastCommitIndex, lastTriggered>>
  BY DEF JobPut
<1>2. /\ committed \in Seq(Entry) /\ Len(committed) \in Nat /\ n \in Nat /\ c \in Nat
      /\ kv \in Seq(Entry) /\ n <= c /\ c <= Len(committed)
      /\ job.entries = SubSeq(committed, n + 1, c) /\ kv = SubSeq(committed, 1, n)
      /\ lastCommitIndex \in 0 .. n /\ lastTriggered \in 0 .. n
  <2>1. /\ committed \in Seq(Entry) /\ kv \in Seq(Entry) /\ kv = SubSeq(committed, 1, n)
        /\ lastCommitIndex \in 0 .. n /\ lastTriggered \in 0 .. n
    BY DEF Pipeline
  <2>2. n \in Nat /\ Len(committed) \in Nat
    BY <2>1, LenProperties
  <2>3. c \in Nat /\ c <= Len(committed)
    BY DEF Pipeline, Task
  <2>4. n <= c /\ job.entries = SubSeq(committed, n + 1, c)
    <3>1. stage = "put"
      BY <1>1
    <3> QED BY <3>1, Zenon DEF Pipeline
  <2> HIDE DEF n, c
  <2> QED BY <2>1, <2>2, <2>3, <2>4
<1> HIDE DEF n, c
<1>3. n < c
  <2> SUFFICES ASSUME n = c PROVE FALSE
    BY <1>2
  <2>1. SubSeq(committed, n + 1, c) = << >>
    BY <1>2, SubSeqEmpty
  <2> QED BY <1>1, <1>2, <2>1
<1>4. n + 1 \in 1 .. Len(committed) /\ c \in n + 1 .. Len(committed) /\ n + 1 \in Nat
  BY <1>2, <1>3
<1>5. Head(job.entries) = committed[n + 1]
  BY <1>2, <1>4, HeadTailOfSubSeq
<1>6. PICK e \in Entry : e = committed[n + 1]
  BY <1>2, <1>4, ElementOfSeq
<1>7. kv' = Append(kv, e) /\ kv' \in Seq(Entry) /\ Len(kv') = n + 1
  <2>1. kv' = Append(kv, e)
    BY <1>1, <1>5, <1>6
  <2> QED BY <1>2, <2>1 DEF n
<1>8. kv' = SubSeq(committed, 1, n + 1)
  <2>1. /\ SubSeq(committed, 1, n + 1) \in Seq(Entry) /\ Len(SubSeq(committed, 1, n + 1)) = n + 1
        /\ \A k \in 1 .. n + 1 : SubSeq(committed, 1, n + 1)[k] = committed[k]
    BY <1>2, <1>4
  <2>2. \A k \in 1 .. n : kv'[k] = kv[k] /\ kv[k] = committed[k]
    <3>1. \A k \in 1 .. n : kv'[k] = kv[k]
      BY <1>2, <1>7 DEF n
    <3>2. \A k \in 1 .. n : SubSeq(committed, 1, n)[k] = committed[k]
      BY <1>2
    <3> QED BY <1>2, <3>1, <3>2
  <2>3. kv'[n + 1] = committed[n + 1]
    BY <1>2, <1>6, <1>7 DEF n
  <2>4. \A k \in 1 .. n + 1 : k \in 1 .. n \/ k = n + 1
    BY <1>2
  <2>5. \A k \in 1 .. n + 1 : kv'[k] = SubSeq(committed, 1, n + 1)[k]
    BY <2>1, <2>2, <2>3, <2>4
  <2> QED BY <1>7, <2>1, <2>5, SeqEqual
<1>9. Len(kv') = n + 1 /\ 1 <= n + 1 /\ n + 1 <= c /\ n + 1 <= Len(committed)
      /\ lastCommitIndex \in 0 .. n + 1 /\ lastTriggered \in 0 .. n + 1
  BY <1>2, <1>3, <1>7
<1>10. Pipeline'
  <2>1. job'.entries = SubSeq(committed, n + 1, c) /\ job'.commitIndex = c
    BY <1>1, <1>2 DEF c
  <2>2. \E x \in 0 .. Len(committed) :
           Chain(committed, c, queue, x) /\ Chain(committed, x, applyc, Len(committed))
    BY <1>1 DEF Pipeline, c
  <2> QED BY <1>1, <1>2, <1>7, <1>8, <1>9, <2>1, <2>2 DEF Pipeline
<1>11. Delivers
  <2>1. n + 1 \in n + 1 .. Len(committed)
    BY <1>4
  <2>2. \E k \in Len(kv) + 1 .. Len(committed) : kv' = SubSeq(committed, 1, k)
    BY <1>8, <2>1 DEF n
  <2> QED BY <1>1, <2>2 DEF Delivers, Store!Deliver
<1> QED BY <1>10, <1>11

LEMMA JobTriggerPipe == Pipeline /\ JobTrigger => Pipeline' /\ Delivers
<1> SUFFICES ASSUME Pipeline, JobTrigger PROVE Pipeline' /\ Delivers
  OBVIOUS
<1>1. /\ stage = "trigger" /\ job' = [job EXCEPT !.entries = Tail(@)] /\ stage' = "put"
      /\ UNCHANGED <<committed, applyc, queue, kv, lastCommitIndex, lastTriggered>>
  BY DEF JobTrigger
<1>2. PICK s \in Seq(Entry), c \in Nat : job = [entries |-> s, commitIndex |-> c]
  BY DEF Pipeline, Task
<1>3. job.entries = s /\ job.commitIndex = c
  BY <1>2
<1>4. /\ committed \in Seq(Entry) /\ Len(committed) \in Nat /\ Len(kv) \in Nat
      /\ 1 <= Len(kv) /\ Len(kv) <= c /\ c <= Len(committed) /\ s = SubSeq(committed, Len(kv), c)
  BY <1>1, <1>3 DEF Pipeline
<1>5. Tail(s) = SubSeq(committed, Len(kv) + 1, c)
  <2>1. Len(kv) \in 1 .. Len(committed) /\ c \in Len(kv) .. Len(committed)
    BY <1>4
  <2> QED BY <1>4, <2>1, HeadTailOfSubSeq
<1>6. Tail(s) \in Seq(Entry)
  <2>1. SubSeq(committed, Len(kv) + 1, c) \in Seq(Entry)
    BY <1>4
  <2> QED BY <1>5, <2>1, Zenon
<1>7. job' = [entries |-> Tail(s), commitIndex |-> c]
  BY <1>1, <1>2, <1>3
<1>8. job' \in Task /\ job'.entries = SubSeq(committed, Len(kv) + 1, c) /\ job'.commitIndex = c
  BY <1>5, <1>6, <1>7 DEF Task
<1>9. \E x \in 0 .. Len(committed) :
         Chain(committed, c, queue, x) /\ Chain(committed, x, applyc, Len(committed))
  BY <1>1, <1>3 DEF Pipeline
<1> QED BY <1>1, <1>4, <1>8, <1>9 DEF Pipeline, Delivers

LEMMA JobEndPipe == Pipeline /\ (JobCommitIndex \/ JobWake) => Pipeline' /\ Delivers
<1> SUFFICES ASSUME Pipeline, JobCommitIndex \/ JobWake PROVE Pipeline' /\ Delivers
  OBVIOUS
<1>1. /\ committed \in Seq(Entry) /\ Len(committed) \in Nat /\ Len(kv) \in Nat
      /\ kv \in Seq(Entry) /\ job.commitIndex \in Nat /\ job.commitIndex <= Len(committed)
  BY DEF Pipeline, Task
<1>2. CASE JobCommitIndex
  <2>1. /\ stage = "put" /\ job.entries = << >> /\ lastCommitIndex' = job.commitIndex
        /\ stage' = "wake" /\ UNCHANGED <<committed, applyc, queue, job, kv, lastTriggered>>
    BY <1>2 DEF JobCommitIndex
  <2>2. Len(kv) <= job.commitIndex /\ job.entries = SubSeq(committed, Len(kv) + 1, job.commitIndex)
    BY <2>1 DEF Pipeline
  <2>3. Len(kv) = job.commitIndex
    <3> SUFFICES ASSUME Len(kv) < job.commitIndex PROVE FALSE
      BY <1>1, <2>2
    <3>1. Len(SubSeq(committed, Len(kv) + 1, job.commitIndex)) > 0
      BY <1>1
    <3>2. Len(<< >>) = 0
      OBVIOUS
    <3>3. Len(job.entries) > 0 /\ Len(job.entries) = 0
      BY <2>1, <2>2, <3>1, <3>2, Zenon
    <3> QED BY <3>3
  <2>4. lastCommitIndex' \in 0 .. Len(kv)
    BY <1>1, <2>1, <2>3
  <2> QED BY <2>1, <2>3, <2>4 DEF Pipeline, Delivers
<1>3. CASE JobWake
  <2>1. /\ stage = "wake" /\ lastTriggered' = job.commitIndex /\ job' = Idle /\ stage' = "next"
        /\ UNCHANGED <<committed, applyc, queue, kv, lastCommitIndex>>
    BY <1>3 DEF JobWake
  <2>2. Len(kv) = job.commitIndex
    BY <2>1 DEF Pipeline
  <2>3. lastTriggered' \in 0 .. Len(kv) /\ 0 <= Len(committed)
    BY <1>1, <2>1, <2>2
  <2>4. job' \in Task /\ job'.commitIndex = 0
    BY <2>1 DEF Idle, Task
  <2>5. \E x \in 0 .. Len(committed) :
           Chain(committed, Len(kv), queue, x) /\ Chain(committed, x, applyc, Len(committed))
    BY <2>1, <2>2 DEF Pipeline
  <2> QED BY <2>1, <2>3, <2>4, <2>5 DEF Pipeline, Delivers
<1> QED BY <1>2, <1>3

\* A new life begins with nothing committed and nothing in the store.
Fresh ==
    /\ committed = << >> /\ applyc = << >> /\ queue = << >> /\ job = Idle /\ stage = "next"
    /\ kv = << >> /\ lastCommitIndex = 0 /\ lastTriggered = 0

LEMMA FreshPipe == Fresh => Pipeline
<1>1. << >> \in Seq(Entry) /\ << >> \in Seq(Task) /\ Len(<< >>) = 0
  OBVIOUS
<1>2. Idle \in Task /\ Idle.commitIndex = 0
  BY DEF Idle, Task
<1>3. SubSeq(<< >>, 1, 0) = << >>
  BY SubSeqEmpty
<1>4. Chain(<< >>, 0, << >>, 0)
  BY ChainEmpty
<1> QED BY <1>1, <1>2, <1>3, <1>4 DEF Pipeline, Fresh

LEMMA PipeStep == Pipeline /\ Clients /\ [Next]_vars => Pipeline' /\ Delivers
<1> SUFFICES ASSUME Pipeline, Clients, [Next]_vars PROVE Pipeline' /\ Delivers
  OBVIOUS
<1>1. CASE UNCHANGED <<committed, applyc, queue, job, stage, kv, lastCommitIndex, lastTriggered>>
  BY <1>1 DEF Pipeline, Delivers
<1>2. ASSUME NEW u, Reopen(u) PROVE Pipeline' /\ Delivers
  <2>1. /\ committed' = << >> /\ applyc' = << >> /\ queue' = << >>
        /\ job' = Idle /\ stage' = "next" /\ kv' = << >>
        /\ lastCommitIndex' = 0 /\ lastTriggered' = 0
    BY <1>2 DEF Reopen
  <2>2. Pipeline'
    <3>1. Fresh'
      BY <2>1 DEF Fresh
    <3> QED BY <3>1, FreshPipe, PTL
  <2> QED BY <2>1, <2>2 DEF Delivers, Store!Restart
<1>3. ASSUME NEW p \in LocalPut,
             RejectPut(p) \/ Register(p) \/ Propose(p) \/ Acknowledge(p) \/ PutTimeout(p)
      PROVE  UNCHANGED <<committed, applyc, queue, job, stage, kv, lastCommitIndex, lastTriggered>>
  BY <1>3 DEF RejectPut, Register, Propose, Acknowledge, PutTimeout, applyVars
<1>4. ASSUME NEW g \in Read,
             RejectGet(g) \/ GetBegin(g) \/ GetWait(g) \/ GetRead(g) \/ GetTimeout(g)
      PROVE  UNCHANGED <<committed, applyc, queue, job, stage, kv, lastCommitIndex, lastTriggered>>
  BY <1>4 DEF RejectGet, GetBegin, GetWait, GetRead, GetTimeout, applyVars
<1>5. ASSUME UNCHANGED vars
      PROVE  UNCHANGED <<committed, applyc, queue, job, stage, kv, lastCommitIndex, lastTriggered>>
  BY <1>5 DEF vars, applyVars
<1> QED BY <1>1, <1>2, <1>3, <1>4, <1>5, CommitPipe, ApplyLoopPipe, NextTaskPipe, JobPutPipe,
           JobTriggerPipe, JobEndPipe, Zenon DEF Next, Scheduler
-----------------------------------------------------------------------------
(* The callers. *)

LEMMA RegisterClients ==
    ASSUME Clients, NEW p \in LocalPut, Register(p)
    PROVE  Clients'
<1>1. /\ put[p] = "start" /\ put' = [put EXCEPT ![p] = "propose"] /\ suffix' = suffix + 1
      /\ requestId' = [requestId EXCEPT ![p] = idOf(suffix')]
      /\ chans' = chans \cup {requestId'[p]} /\ UNCHANGED <<started, proposed>>
  BY DEF Register
<1>2. suffix' \in Nat /\ NewGenerator(started) <= suffix'
  <2>1. started \in Nat /\ suffix \in Nat /\ NewGenerator(started) <= suffix
    BY DEF Clients
  <2>2. NewGenerator(started) \in Nat
    BY <2>1, FirstSuffix
  <2> QED BY <1>1, <2>1, <2>2
<1>3. PICK id \in Nat \ {0} : id = idOf(suffix')
  BY <1>2, IdFacts
<1>4. /\ requestId \in [Entry -> Nat] /\ p \in Entry /\ LocalPut \subseteq Entry
      /\ \A q \in RemotePut : q \in Entry /\ q # p
  BY DBAssumption DEF Clients, Entry
<1>5. /\ requestId' \in [Entry -> Nat] /\ requestId'[p] = id
      /\ \A q \in Entry : q # p => requestId'[q] = requestId[q]
  BY <1>1, <1>3, <1>4
<1>6. put \in [LocalPut -> {"start", "rejected", "propose", "wait", "acked", "failed", "past"}]
  BY DEF Clients
<1>7. /\ put' \in [LocalPut -> {"start", "rejected", "propose", "wait", "acked", "failed", "past"}]
      /\ \A q \in LocalPut : put'[q] = "start" => q # p /\ put[q] = "start"
  BY <1>1, <1>6
<1>8. chans' \subseteq {requestId'[q] : q \in LocalPut} \ {0}
  <2>1. requestId[p] = 0 /\ chans \subseteq {requestId[q] : q \in LocalPut} \ {0}
    BY <1>1 DEF Clients
  <2>2. ASSUME NEW x \in chans PROVE x # 0 /\ \E q \in LocalPut : x = requestId'[q]
    <3>1. PICK q \in LocalPut : x = requestId[q] /\ x # 0
      BY <2>1
    <3> QED BY <1>4, <1>5, <2>1, <3>1
  <2> QED BY <1>1, <1>3, <1>5, <2>2
<1>9. /\ \A q \in RemotePut : requestId'[q] = 0
      /\ \A q \in LocalPut : put'[q] = "start" => requestId'[q] = 0
  BY <1>4, <1>5, <1>7 DEF Clients
<1> QED BY <1>1, <1>2, <1>5, <1>7, <1>8, <1>9 DEF Clients

\* No other call of a Put takes an id.
LEMMA CallClients ==
    ASSUME Clients, NEW p \in LocalPut,
           RejectPut(p) \/ Propose(p) \/ Acknowledge(p) \/ PutTimeout(p)
    PROVE  Clients'
<1>1. UNCHANGED <<started, suffix, requestId, chans>>
  BY DEF RejectPut, Propose, Acknowledge, PutTimeout, idVars
<1>2. /\ put \in [LocalPut -> {"start", "rejected", "propose", "wait", "acked", "failed", "past"}]
      /\ proposed \subseteq Entry /\ p \in Entry
  BY DEF Clients, Entry
<1>3. \E x \in {"rejected", "wait", "acked", "failed"} : put' = [put EXCEPT ![p] = x]
  BY DEF RejectPut, Propose, Acknowledge, PutTimeout
<1>4. proposed' \subseteq Entry
  BY <1>2 DEF RejectPut, Propose, Acknowledge, PutTimeout
<1>5. /\ put' \in [LocalPut -> {"start", "rejected", "propose", "wait", "acked", "failed", "past"}]
      /\ \A q \in LocalPut : put'[q] = "start" => put[q] = "start"
  BY <1>2, <1>3
<1> QED BY <1>1, <1>4, <1>5 DEF Clients

LEMMA ReopenClients ==
    ASSUME Clients, NEW u \in FirstStart .. MaxStart, Reopen(u)
    PROVE  Clients'
<1>1. /\ started' = u /\ suffix' = NewGenerator(u)
      /\ put' = [p \in LocalPut |-> IF put[p] \in {"propose", "wait", "acked"} THEN "past" ELSE put[p]]
      /\ chans' = {} /\ UNCHANGED <<requestId, proposed>>
  BY DEF Reopen
<1>2. u \in Nat /\ FirstStart <= u
  BY DBAssumption
<1>3. NewGenerator(u) \in Nat
  BY <1>2, FirstSuffix
<1>5. put \in [LocalPut -> {"start", "rejected", "propose", "wait", "acked", "failed", "past"}]
  BY DEF Clients
<1>6. /\ put' \in [LocalPut -> {"start", "rejected", "propose", "wait", "acked", "failed", "past"}]
      /\ \A p \in LocalPut : put'[p] = "start" => put[p] = "start"
  BY <1>1, <1>5
<1> QED BY <1>1, <1>2, <1>3, <1>6 DEF Clients

LEMMA ClientsStep == Inv /\ [Next]_vars => Clients'
<1> SUFFICES ASSUME Inv, [Next]_vars PROVE Clients'
  OBVIOUS
<1>1. CASE UNCHANGED clientVars
  BY <1>1 DEF Inv, Clients, clientVars, idVars
<1>2. ASSUME NEW es \in Batch, Commit(es) PROVE Clients'
  BY <1>1, <1>2 DEF Commit
<1>3. CASE JobTrigger
  BY <1>3 DEF Inv, Clients, JobTrigger, Trigger, idVars
<1>4. CASE ApplyLoop \/ NextTask \/ JobPut \/ JobCommitIndex \/ JobWake
  BY <1>1, <1>4 DEF ApplyLoop, NextTask, JobPut, JobCommitIndex, JobWake
<1>5. ASSUME NEW g \in Read,
             RejectGet(g) \/ GetBegin(g) \/ GetWait(g) \/ GetRead(g) \/ GetTimeout(g)
      PROVE  Clients'
  BY <1>1, <1>5 DEF RejectGet, GetBegin, GetWait, GetRead, GetTimeout
<1>6. CASE UNCHANGED vars
  BY <1>1, <1>6 DEF vars
<1> QED BY <1>2, <1>3, <1>4, <1>5, <1>6, RegisterClients, CallClients, ReopenClients, Zenon
        DEF Inv, Next, Scheduler

GetState == {"start", "rejected", "begun", "read", "wait", "done", "failed", "past"}

LEMMA ReadersStep == Inv /\ [Next]_vars => Readers'
<1> SUFFICES ASSUME Inv, [Next]_vars PROVE Readers'
  OBVIOUS
<1>1. /\ get \in [Read -> GetState] /\ deadline \in [Read -> Nat] /\ seen \in [Read -> Nat]
      /\ ackedAt \in [Read -> SUBSET LocalPut] /\ m \subseteq 0 .. lastCommitIndex
      /\ \A g \in Read : get[g] = "begun" => deadline[g] <= lastCommitIndex
  BY DEF Inv, Readers, GetState
<1>2. lastCommitIndex \in Nat /\ Len(kv) \in Nat /\ lastCommitIndex <= Len(kv)
  BY DEF Inv, Pipeline
<1>3. CASE UNCHANGED <<get, deadline, seen, ackedAt, m, lastCommitIndex>>
  BY <1>3 DEF Inv, Readers
<1>4. CASE JobCommitIndex
  <2>1. UNCHANGED <<get, deadline, seen, ackedAt, m>> /\ stage = "put"
        /\ lastCommitIndex' = job.commitIndex
    BY <1>4 DEF JobCommitIndex, readVars
  <2>2. job.commitIndex \in Nat /\ Len(kv) <= job.commitIndex
    BY <2>1 DEF Inv, Pipeline, Task
  <2>3. lastCommitIndex' \in Nat /\ lastCommitIndex <= lastCommitIndex'
    BY <1>2, <2>1, <2>2
  <2>4. m \subseteq 0 .. lastCommitIndex'
    BY <1>1, <1>2, <2>3
  <2>5. \A g \in Read : get[g] = "begun" => deadline[g] <= lastCommitIndex'
    BY <1>1, <1>2, <2>3
  <2> QED BY <1>1, <2>1, <2>4, <2>5 DEF Readers, GetState
<1>5. CASE JobWake
  <2>1. UNCHANGED <<get, deadline, seen, ackedAt, lastCommitIndex>> /\ m' \subseteq m
    BY <1>5 DEF JobWake, readVars
  <2> QED BY <1>1, <2>1 DEF Readers, GetState
<1>6. ASSUME NEW u, Reopen(u) PROVE Readers'
  <2>1. /\ get' = [g \in Read |-> IF get[g] \in {"begun", "read", "wait", "done"} THEN "past" ELSE get[g]]
        /\ m' = {} /\ UNCHANGED <<deadline, seen, ackedAt>>
    BY <1>6 DEF Reopen
  <2>2. get' \in [Read -> GetState] /\ \A g \in Read : get'[g] # "begun"
    BY <1>1, <2>1 DEF GetState
  <2> QED BY <1>1, <2>1, <2>2 DEF Readers, GetState
<1>7. ASSUME NEW g \in Read, RejectGet(g) \/ GetRead(g) \/ GetTimeout(g) PROVE Readers'
  <2>1. UNCHANGED <<deadline, ackedAt, m, lastCommitIndex>>
    BY <1>7 DEF RejectGet, GetRead, GetTimeout, applyVars
  <2>2. seen' \in [Read -> Nat]
    BY <1>1, <1>2, <1>7 DEF RejectGet, GetRead, GetTimeout
  <2>3. \E x \in {"rejected", "done", "failed"} : get' = [get EXCEPT ![g] = x]
    BY <1>7 DEF RejectGet, GetRead, GetTimeout
  <2>4. get' \in [Read -> GetState] /\ \A h \in Read : get'[h] = "begun" => get[h] = "begun"
    BY <1>1, <2>3 DEF GetState
  <2> QED BY <1>1, <2>1, <2>2, <2>4 DEF Readers, GetState
<1>8. ASSUME NEW g \in Read, GetBegin(g) PROVE Readers'
  <2>1. /\ get' = [get EXCEPT ![g] = "begun"]
        /\ deadline' = [deadline EXCEPT ![g] = lastCommitIndex]
        /\ ackedAt' = [ackedAt EXCEPT ![g] = {p \in LocalPut : put[p] = "acked"}]
        /\ UNCHANGED <<seen, m, lastCommitIndex>>
    BY <1>8 DEF GetBegin, applyVars
  <2>2. get' \in [Read -> GetState] /\ \A h \in Read : h # g => get'[h] = get[h]
    BY <1>1, <2>1 DEF GetState
  <2>3. /\ deadline' \in [Read -> Nat] /\ deadline'[g] = lastCommitIndex
        /\ \A h \in Read : h # g => deadline'[h] = deadline[h]
    BY <1>1, <1>2, <2>1
  <2>4. ackedAt' \in [Read -> SUBSET LocalPut]
    BY <1>1, <2>1
  <2>5. \A h \in Read : get'[h] = "begun" => deadline'[h] <= lastCommitIndex
    <3>1. lastCommitIndex <= lastCommitIndex
      BY <1>2
    <3> QED BY <1>1, <2>2, <2>3, <3>1, Zenon
  <2> QED BY <1>1, <2>1, <2>2, <2>3, <2>4, <2>5 DEF Readers, GetState
<1>9. ASSUME NEW g \in Read, GetWait(g) PROVE Readers'
  <2>1. /\ get[g] = "begun" /\ \E x \in {"read", "wait"} : get' = [get EXCEPT ![g] = x]
        /\ m' \subseteq m \cup {deadline[g]} /\ UNCHANGED <<deadline, seen, ackedAt, lastCommitIndex>>
    BY <1>9 DEF GetWait
  <2>2. get' \in [Read -> GetState] /\ \A h \in Read : get'[h] = "begun" => get[h] = "begun"
    BY <1>1, <2>1 DEF GetState
  <2>3. deadline[g] \in 0 .. lastCommitIndex
    BY <1>1, <1>2, <2>1
  <2>4. m' \subseteq 0 .. lastCommitIndex
    BY <1>1, <2>1, <2>3
  <2> QED BY <1>1, <2>1, <2>2, <2>4 DEF Readers, GetState
<1>10. ASSUME NEW p \in LocalPut,
              RejectPut(p) \/ Register(p) \/ Propose(p) \/ Acknowledge(p) \/ PutTimeout(p)
       PROVE  Readers'
  BY <1>3, <1>10 DEF RejectPut, Register, Propose, Acknowledge, PutTimeout, applyVars, readVars
<1>11. ASSUME NEW es, Commit(es) PROVE Readers'
  BY <1>3, <1>11 DEF Commit, applyVars, readVars
<1>12. CASE ApplyLoop \/ NextTask \/ JobPut \/ JobTrigger
  BY <1>3, <1>12 DEF ApplyLoop, NextTask, JobPut, JobTrigger, applyVars, readVars
<1>13. CASE UNCHANGED vars
  BY <1>3, <1>13 DEF vars, applyVars, readVars
<1> QED BY <1>4, <1>5, <1>6, <1>7, <1>8, <1>9, <1>10, <1>11, <1>12, <1>13, Zenon
        DEF Next, Scheduler

LEMMA InitInv == Init => Inv
<1> SUFFICES ASSUME Init PROVE Inv
  OBVIOUS
<1>1. Pipeline
  BY FreshPipe DEF Init, Fresh
<1>2. Clients
  <2>1. FirstStart \in Nat
    BY DBAssumption
  <2>2. NewGenerator(FirstStart) \in Nat
    BY <2>1, FirstSuffix
  <2>3. /\ started = FirstStart /\ suffix = NewGenerator(FirstStart) /\ FirstStart <= started
        /\ NewGenerator(started) <= suffix /\ started \in Nat /\ suffix \in Nat
    BY <2>1, <2>2 DEF Init
  <2>4. requestId = [p \in Entry |-> 0] /\ put = [p \in LocalPut |-> "start"]
        /\ chans = {} /\ proposed = RemotePut
    BY DEF Init, Entry
  <2>5. LocalPut \subseteq Entry /\ RemotePut \subseteq Entry
    BY DEF Entry
  <2> QED BY <2>3, <2>4, <2>5 DEF Clients
<1>3. Readers
  BY DEF Init, Readers
<1> QED BY <1>1, <1>2, <1>3 DEF Inv

LEMMA NextInv == Inv /\ [Next]_vars => Inv'
BY PipeStep, ClientsStep, ReadersStep DEF Inv

\* The fairness of the calls is no part of what follows.
LEMMA Safety == Spec => Init /\ [][Next]_vars
BY PTL DEF Spec

\* The inductive invariant of the pipeline, the callers and the readers.
THEOREM Invariance == Spec => []Inv
BY InitInv, NextInv, Safety, PTL

\* Channels belong to puts of this node, and no index is beyond what is committed.
THEOREM TypeCorrect == Spec => []TypeOK
<1>1. Inv => TypeOK
  <2> SUFFICES ASSUME Inv PROVE TypeOK
    OBVIOUS
  <2>1. {lastCommitIndex, lastTriggered} \cup m \subseteq 0 .. Len(committed)
    <3>1. /\ lastCommitIndex \in 0 .. Len(kv) /\ lastTriggered \in 0 .. Len(kv)
          /\ Len(kv) \in Nat /\ Len(kv) <= Len(committed) /\ Len(committed) \in Nat
          /\ m \subseteq 0 .. lastCommitIndex
      BY DEF Inv, Pipeline, Readers
    <3> QED BY <3>1
  <2> QED BY <2>1 DEF Inv, Pipeline, Clients, Readers, TypeOK, Entry
<1> QED BY <1>1, Invariance, PTL

\* The store is a prefix of what is committed, whatever the apply channel, the
\* scheduler's queue and the running job hold.
THEOREM CommitOrder == Spec => []AppliedInCommitOrder
<1>1. Inv => AppliedInCommitOrder
  <2> SUFFICES ASSUME Inv PROVE AppliedInCommitOrder
    OBVIOUS
  <2>1. /\ kv \in Seq(Entry) /\ committed \in Seq(Entry) /\ Len(kv) <= Len(committed)
        /\ kv = SubSeq(committed, 1, Len(kv))
    BY DEF Inv, Pipeline
  <2>2. SubSeq(kv, 1, Len(kv)) = kv
    BY <2>1, SubSeqFull
  <2> QED BY <2>1, <2>2 DEF AppliedInCommitOrder, IsPrefix
<1> QED BY <1>1, Invariance, PTL

\* The apply loop, the scheduler and its jobs implement the safety part of
\* ordered delivery: every step extends the log, delivers the next entries of
\* it, restarts, or changes neither.
THEOREM DeliversInOrder == Spec => Store!SafeSpec
<1>1. Init => Store!Init
  BY DEF Init, Store!Init
<1>2. Inv /\ [Next]_vars => [Store!Extend \/ Store!Deliver \/ Store!Restart]_<<committed, kv>>
  BY PipeStep DEF Inv, Delivers
<1> QED BY <1>1, <1>2, Invariance, Safety, PTL DEF Store!SafeSpec
-----------------------------------------------------------------------------
(* Ids, writers and reads, as long as the ids have not come round. *)

LEMMA PositionFacts ==
    ASSUME Clients
    PROVE  /\ position(started, suffix) \in Nat
           /\ FirstStart * cntSize \in Nat /\ FirstStart * cntSize <= position(started, suffix)
           /\ \E q \in Nat : position(started, suffix) = suffix + suffixSize * q
<1>1. /\ started \in Nat /\ suffix \in Nat /\ NewGenerator(started) <= suffix
      /\ FirstStart \in Nat /\ FirstStart <= started /\ cntSize \in Nat /\ suffixSize \in Nat
  BY DBAssumption, Sizes DEF Clients
<1>2. PICK g \in Nat : g = NewGenerator(started)
  BY <1>1, FirstSuffix
<1>3. PICK q \in Nat : started * cntSize = g + suffixSize * q
  BY <1>1, <1>2, FirstSuffix
<1>4. PICK a \in Nat, b \in Nat, c \in Nat :
         a = started * cntSize /\ b = FirstStart * cntSize /\ c = suffixSize * q
  BY <1>1
<1>5. b <= a
  <2>1. \A x, y, z \in Nat : x <= y => x * z <= y * z
    <3>1. ASSUME NEW x \in Nat, NEW y \in Nat, NEW z \in Nat, x <= y PROVE x * z <= y * z
      <4>1. PICK d \in Nat : y = x + d
        <5>1. y - x \in Nat /\ y = x + (y - x)
          BY <3>1
        <5> QED BY <5>1
      <4>2. y * z = x * z + d * z /\ d * z \in Nat /\ x * z \in Nat
        BY <4>1
      <4> QED BY <4>2
    <3> QED BY <3>1
  <2> QED BY <1>1, <1>4, <2>1
<1>6. position(started, suffix) = a + (suffix - g)
  BY <1>2, <1>4 DEF position
<1>7. g <= suffix /\ a = g + c
  BY <1>1, <1>2, <1>3, <1>4
<1>8. position(started, suffix) \in Nat /\ b <= position(started, suffix)
      /\ position(started, suffix) = suffix + c
  BY <1>1, <1>5, <1>6, <1>7
<1> QED BY <1>4, <1>8

\* A new id is none of those given out before.
LEMMA RegisterIds ==
    ASSUME Clients, Clients', IdsPassed, Unique, IdsLast', NEW p \in LocalPut, Register(p)
    PROVE  IdsPassed' /\ Unique'
<1> DEFINE pos == position(started, suffix)
           first == FirstStart * cntSize
<1>1. /\ suffix' = suffix + 1 /\ requestId' = [requestId EXCEPT ![p] = idOf(suffix')]
      /\ started' = started
  BY DEF Register
<1>2. /\ requestId \in [Entry -> Nat] /\ LocalPut \subseteq Entry /\ suffix \in Nat /\ started \in Nat
      /\ suffixSize \in Nat
  BY Sizes DEF Clients, Entry
<1>3. /\ requestId'[p] = idOf(suffix + 1)
      /\ \A q \in LocalPut : q # p => requestId'[q] = requestId[q]
  BY <1>1, <1>2
<1>4. pos \in Nat /\ first \in Nat /\ first <= pos
  BY PositionFacts
<1>5. PICK n \in Nat : pos = suffix + suffixSize * n
  BY PositionFacts
<1>6. position(started', suffix') = pos + 1
  <2>1. started * cntSize \in Nat /\ NewGenerator(started) \in Nat
    BY <1>2, Sizes, FirstSuffix
  <2>2. \A a, b, c \in Nat : a + ((b + 1) - c) = (a + (b - c)) + 1
    OBVIOUS
  <2> QED BY <1>1, <1>2, <2>1, <2>2 DEF position
<1>7. pos + 1 <= first + suffixSize
  BY <1>6 DEF IdsLast
<1>8. pos + 1 = (suffix + 1) + suffixSize * n /\ suffix + 1 \in Nat
  <2>1. suffixSize * n \in Nat
    BY <1>2
  <2> HIDE DEF pos
  <2> QED BY <1>2, <1>5, <2>1
<1> HIDE DEF pos, first
<1>9. ASSUME NEW q \in LocalPut, q # p, requestId[q] # 0
      PROVE  /\ requestId[q] # idOf(suffix + 1)
             /\ \E s, i \in Nat :
                   /\ requestId[q] = idOf(s) /\ first < s + suffixSize * i
                   /\ s + suffixSize * i <= pos + 1
  <2>1. PICK s \in Nat, i \in Nat :
           /\ requestId[q] = idOf(s) /\ first < s + suffixSize * i /\ s + suffixSize * i <= pos
    BY <1>9 DEF IdsPassed, pos, first
  <2>2. PICK x \in Nat : x = s + suffixSize * i
    BY <1>2
  <2>3. x < pos + 1 /\ x <= pos + 1 /\ first < x
    BY <1>4, <2>1, <2>2
  <2>4. requestId[q] # idOf(suffix + 1)
    <3> SUFFICES ASSUME idOf(s) = idOf(suffix + 1) PROVE FALSE
      BY <2>1
    <3>1. s + suffixSize * i < (suffix + 1) + suffixSize * n
      BY <1>8, <2>2, <2>3
    <3>2. s + suffixSize * i + suffixSize <= (suffix + 1) + suffixSize * n
      BY <1>8, <3>1, SameId
    <3>3. x + suffixSize <= pos + 1
      BY <1>8, <2>2, <3>2
    <3> QED BY <1>2, <1>4, <1>7, <2>3, <3>3
  <2> QED BY <2>1, <2>2, <2>3, <2>4
<1>10. IdsPassed'
  <2> SUFFICES ASSUME NEW q \in LocalPut, requestId'[q] # 0
               PROVE  \E s, i \in Nat :
                         /\ requestId'[q] = idOf(s) /\ first < s + suffixSize * i
                         /\ s + suffixSize * i <= pos + 1
    BY <1>6 DEF IdsPassed, first
  <2>1. CASE q = p
    <3>1. first < pos + 1 /\ pos + 1 <= pos + 1
      BY <1>4
    <3> QED BY <1>3, <1>8, <2>1, <3>1
  <2>2. CASE q # p
    BY <1>3, <1>9, <2>2
  <2> QED BY <2>1, <2>2
<1>11. Unique'
  <2> SUFFICES ASSUME NEW q \in LocalPut, NEW r \in LocalPut, requestId'[q] = requestId'[r],
                      requestId'[q] # 0
               PROVE  q = r
    BY DEF Unique
  <2>1. CASE q # p /\ r # p
    BY <1>3, <2>1 DEF Unique
  <2>2. CASE q = p /\ r # p
    BY <1>3, <1>9, <2>2
  <2>3. CASE q # p /\ r = p
    BY <1>3, <1>9, <2>3
  <2> QED BY <2>1, <2>2, <2>3
<1> QED BY <1>10, <1>11

\* A restart goes on behind the ids given out before it.
LEMMA ReopenIds ==
    ASSUME Clients, IdsPassed, NEW u \in FirstStart .. MaxStart, Reopen(u)
    PROVE  IdsPassed'
<1>1. /\ clockAhead(started, suffix, u) /\ started' = u /\ suffix' = NewGenerator(u)
      /\ requestId' = requestId
  BY DEF Reopen
<1>2. /\ u \in Nat /\ started \in Nat /\ suffix \in Nat /\ cntSize \in Nat /\ suffixSize \in Nat
      /\ NewGenerator(u) \in Nat /\ NewGenerator(started) \in Nat
  BY DBAssumption, Sizes, FirstSuffix DEF Clients
<1>3. position(u, NewGenerator(u)) = u * cntSize /\ u * cntSize \in Nat
  BY <1>2 DEF position
<1>4. position(started, suffix) <= u * cntSize
  <2>1. PICK a \in Nat, b \in Nat : a = u * cntSize /\ b = started * cntSize
    BY <1>2
  <2>2. (u - started) * cntSize = a - b
    BY <1>2, <2>1
  <2>3. (u - started) * cntSize >= suffix - NewGenerator(started)
    BY <1>1 DEF clockAhead
  <2>4. a - b >= suffix - NewGenerator(started)
    BY <2>2, <2>3
  <2>5. b + (suffix - NewGenerator(started)) <= a
    BY <1>2, <2>4
  <2> QED BY <2>1, <2>5 DEF position
<1>5. position(started, suffix) \in Nat
  BY PositionFacts
<1> SUFFICES ASSUME NEW p \in LocalPut, requestId[p] # 0
             PROVE  \E s, i \in Nat :
                       /\ requestId[p] = idOf(s) /\ FirstStart * cntSize < s + suffixSize * i
                       /\ s + suffixSize * i <= u * cntSize
  BY <1>1, <1>3 DEF IdsPassed
<1>6. PICK s \in Nat, i \in Nat :
         /\ requestId[p] = idOf(s) /\ FirstStart * cntSize < s + suffixSize * i
         /\ s + suffixSize * i <= position(started, suffix)
  BY DEF IdsPassed
<1>7. PICK x \in Nat : x = s + suffixSize * i
  BY <1>2
<1>8. x <= u * cntSize
  <2>1. \A a, b, c \in Nat : a <= b /\ b <= c => a <= c
    OBVIOUS
  <2> QED BY <1>3, <1>4, <1>5, <1>6, <1>7, <2>1, Zenon
<1> QED BY <1>6, <1>7, <1>8

\* Only a call of Put and a start change the ids.
LEMMA IdsKept ==
    ASSUME [Next]_vars
    PROVE  \/ UNCHANGED idVars
           \/ \E p \in LocalPut : Register(p)
           \/ \E u \in FirstStart .. MaxStart : Reopen(u)
<1>1. ASSUME NEW p \in LocalPut, RejectPut(p) \/ Propose(p) \/ Acknowledge(p) \/ PutTimeout(p)
      PROVE  UNCHANGED idVars
  BY <1>1 DEF RejectPut, Propose, Acknowledge, PutTimeout
<1>2. ASSUME NEW es, Commit(es) PROVE UNCHANGED idVars
  BY <1>2 DEF Commit, clientVars
<1>3. ASSUME ApplyLoop \/ Scheduler PROVE UNCHANGED idVars
  BY <1>3 DEF ApplyLoop, Scheduler, NextTask, JobPut, JobTrigger, JobCommitIndex, JobWake, clientVars
<1>4. ASSUME NEW g \in Read,
             RejectGet(g) \/ GetBegin(g) \/ GetWait(g) \/ GetRead(g) \/ GetTimeout(g)
      PROVE  UNCHANGED idVars
  BY <1>4 DEF RejectGet, GetBegin, GetWait, GetRead, GetTimeout, clientVars
<1>5. ASSUME UNCHANGED vars PROVE UNCHANGED idVars
  BY <1>5 DEF vars, clientVars
<1> QED BY <1>1, <1>2, <1>3, <1>4, <1>5, Zenon DEF Next

LEMMA IdsStep == Inv /\ Inv' /\ IdInv /\ IdsLast' /\ [Next]_vars => IdsPassed' /\ Unique'
<1> SUFFICES ASSUME Inv, Inv', IdInv, IdsLast', [Next]_vars PROVE IdsPassed' /\ Unique'
  OBVIOUS
<1>1. ASSUME UNCHANGED idVars PROVE IdsPassed' /\ Unique'
  BY <1>1 DEF IdInv, IdsPassed, Unique, idVars
<1>2. ASSUME NEW p \in LocalPut, Register(p) PROVE IdsPassed' /\ Unique'
  BY <1>2, RegisterIds DEF Inv, IdInv
<1>3. ASSUME NEW u \in FirstStart .. MaxStart, Reopen(u) PROVE IdsPassed' /\ Unique'
  <2>1. IdsPassed'
    BY <1>3, ReopenIds DEF Inv, IdInv
  <2>2. Unique'
    BY <1>3 DEF IdInv, Unique, Reopen
  <2> QED BY <2>1, <2>2
<1> QED BY <1>1, <1>2, <1>3, IdsKept

\* The entry whose writer is released is the last one in the store.
LEMMA TriggerApplied ==
    ASSUME Pipeline, stage = "trigger"
    PROVE  Head(job.entries) \in ToSet(kv) /\ Head(job.entries) \in Entry
<1>1. /\ committed \in Seq(Entry) /\ Len(committed) \in Nat /\ kv \in Seq(Entry) /\ Len(kv) \in Nat
      /\ job.commitIndex \in Nat /\ job.commitIndex <= Len(committed)
      /\ 1 <= Len(kv) /\ Len(kv) <= job.commitIndex
      /\ job.entries = SubSeq(committed, Len(kv), job.commitIndex)
      /\ kv = SubSeq(committed, 1, Len(kv))
  BY DEF Pipeline, Task
<1>2. Len(kv) \in 1 .. Len(committed) /\ job.commitIndex \in Len(kv) .. Len(committed)
      /\ Len(kv) \in 1 .. Len(kv) /\ Len(kv) \in 0 .. Len(committed)
  BY <1>1
<1>3. Head(job.entries) = committed[Len(kv)]
  BY <1>1, <1>2, HeadTailOfSubSeq
<1>4. PICK n \in Nat : n = Len(kv)
  BY <1>1
<1>5. \A k \in 1 .. n : SubSeq(committed, 1, n)[k] = committed[k]
  BY <1>1, <1>2, <1>4
<1>6. kv[n] = committed[n] /\ n \in 1 .. Len(kv) /\ kv = SubSeq(committed, 1, n)
  BY <1>1, <1>2, <1>4, <1>5
<1>7. kv[n] \in Entry /\ n \in DOMAIN kv
  BY <1>1, <1>6, ElementOfSeq
<1>8. kv[n] \in ToSet(kv)
  BY <1>7 DEF ToSet
<1> QED BY <1>3, <1>4, <1>6, <1>7, <1>8, Zenon

LEMMA StoreGrows ==
    ASSUME Pipeline, JobPut
    PROVE  /\ kv \in Seq(Entry) /\ kv' \in Seq(Entry) /\ Len(kv') = Len(kv) + 1 /\ Len(kv) \in Nat
           /\ \A k \in 1 .. Len(kv) : kv'[k] = kv[k]
           /\ ToSet(kv) \subseteq ToSet(kv')
<1>1. job.entries \in Seq(Entry) /\ job.entries # << >> /\ kv \in Seq(Entry)
      /\ kv' = Append(kv, Head(job.entries))
  BY DEF Pipeline, Task, JobPut
<1>2. PICK e \in Entry : e = Head(job.entries)
  BY <1>1
<1>3. /\ kv' \in Seq(Entry) /\ Len(kv') = Len(kv) + 1 /\ Len(kv) \in Nat
      /\ \A k \in 1 .. Len(kv) : kv'[k] = kv[k]
  BY <1>1, <1>2
<1>4. DOMAIN kv = 1 .. Len(kv) /\ DOMAIN kv' = 1 .. Len(kv) + 1
  BY <1>1, <1>3
<1>5. \A k \in DOMAIN kv : k \in DOMAIN kv' /\ kv'[k] = kv[k]
  BY <1>3, <1>4
<1>6. ToSet(kv) \subseteq ToSet(kv')
  BY <1>5 DEF ToSet
<1> QED BY <1>1, <1>3, <1>6

LEMMA PrefixSet ==
    ASSUME NEW s \in Seq(Entry), NEW n \in Nat, n <= Len(s)
    PROVE  ToSet(SubSeq(s, 1, n)) = {s[k] : k \in 1 .. n}
<1> DEFINE t == SubSeq(s, 1, n)
<1>1. t \in Seq(Entry) /\ Len(t) = n /\ \A k \in 1 .. n : t[k] = s[k]
  OBVIOUS
<1> HIDE DEF t
<1>2. DOMAIN t = 1 .. n
  BY <1>1
<1> QED BY <1>1, <1>2 DEF ToSet, t

LEMMA WritersStep == Inv /\ IdInv /\ [Next]_vars => Writers'
<1> SUFFICES ASSUME Inv, IdInv, [Next]_vars PROVE Writers'
  OBVIOUS
<1>1. \A p \in LocalPut :
         /\ put[p] \in {"propose", "wait"} =>
               requestId[p] # 0 /\ (requestId[p] \in chans \/ p \in ToSet(kv))
         /\ put[p] = "acked" => p \in ToSet(kv)
  BY DEF IdInv, Writers
<1>2. /\ put \in [LocalPut -> {"start", "rejected", "propose", "wait", "acked", "failed", "past"}]
      /\ requestId \in [Entry -> Nat] /\ LocalPut \subseteq Entry
  BY DEF Inv, Clients, Entry
<1>3. ASSUME UNCHANGED <<put, requestId, chans>>, ToSet(kv) \subseteq ToSet(kv') PROVE Writers'
  BY <1>1, <1>3 DEF Writers
<1>4. ASSUME NEW p \in LocalPut, Register(p) PROVE Writers'
  <2>1. /\ put' = [put EXCEPT ![p] = "propose"] /\ suffix' = suffix + 1
        /\ requestId' = [requestId EXCEPT ![p] = idOf(suffix')]
        /\ chans' = chans \cup {requestId'[p]} /\ kv' = kv
    BY <1>4 DEF Register, applyVars
  <2>2. idOf(suffix') # 0
    <3>1. suffix' \in Nat
      BY <2>1 DEF Inv, Clients
    <3> QED BY <3>1, IdFacts
  <2>3. requestId'[p] # 0 /\ put'[p] = "propose"
    BY <1>2, <2>1, <2>2
  <2>4. \A q \in LocalPut : q # p => requestId'[q] = requestId[q] /\ put'[q] = put[q]
    BY <1>2, <2>1
  <2> SUFFICES ASSUME NEW q \in LocalPut
               PROVE  /\ put'[q] \in {"propose", "wait"} =>
                            requestId'[q] # 0 /\ (requestId'[q] \in chans' \/ q \in ToSet(kv'))
                      /\ put'[q] = "acked" => q \in ToSet(kv')
    BY DEF Writers
  <2>5. CASE q = p
    BY <2>1, <2>3, <2>5
  <2>6. CASE q # p
    BY <1>1, <2>1, <2>4, <2>6
  <2> QED BY <2>5, <2>6
<1>5. ASSUME NEW p \in LocalPut, RejectPut(p) \/ Propose(p) \/ PutTimeout(p) PROVE Writers'
  <2>1. UNCHANGED <<requestId, chans, kv>>
    BY <1>5 DEF RejectPut, Propose, PutTimeout, idVars, applyVars
  <2>2. /\ \E x \in {"rejected", "wait", "failed"} : put' = [put EXCEPT ![p] = x]
        /\ put'[p] = "wait" => put[p] = "propose"
    BY <1>2, <1>5 DEF RejectPut, Propose, PutTimeout
  <2>3. \A q \in LocalPut :
           /\ put'[q] \in {"propose", "wait"} => put[q] \in {"propose", "wait"}
           /\ put'[q] = "acked" => put[q] = "acked"
    BY <1>2, <2>2
  <2> QED BY <1>1, <2>1, <2>3 DEF Writers
<1>6. ASSUME NEW p \in LocalPut, Acknowledge(p) PROVE Writers'
  <2>1. /\ put[p] = "wait" /\ requestId[p] \notin chans /\ put' = [put EXCEPT ![p] = "acked"]
        /\ UNCHANGED <<requestId, chans, kv>>
    BY <1>6 DEF Acknowledge, idVars, applyVars
  <2>2. p \in ToSet(kv)
    BY <1>1, <2>1
  <2>3. put'[p] = "acked" /\ \A q \in LocalPut : q # p => put'[q] = put[q]
    BY <1>2, <2>1
  <2>4. ASSUME NEW q \in LocalPut
        PROVE  /\ put'[q] \in {"propose", "wait"} =>
                     requestId[q] # 0 /\ (requestId[q] \in chans \/ q \in ToSet(kv))
               /\ put'[q] = "acked" => q \in ToSet(kv)
    <3>1. CASE q = p
      BY <2>2, <2>3, <3>1
    <3>2. CASE q # p
      BY <1>1, <2>3, <3>2
    <3> QED BY <3>1, <3>2
  <2> QED BY <2>1, <2>4 DEF Writers
<1>7. CASE JobTrigger
  <2>1. /\ stage = "trigger" /\ chans' = chans \ {requestId[Head(job.entries)]}
        /\ UNCHANGED <<requestId, put, kv>>
    BY <1>7 DEF JobTrigger, Trigger, idVars
  <2>2. PICK e \in Entry : e = Head(job.entries) /\ e \in ToSet(kv)
    BY <2>1, TriggerApplied DEF Inv
  <2>3. ASSUME NEW p \in LocalPut, requestId[p] # 0, requestId[p] = requestId[e]
        PROVE  p \in ToSet(kv)
    <3>1. e \in LocalPut
      BY <2>3 DEF Inv, Clients, Entry
    <3> QED BY <2>2, <2>3, <3>1 DEF IdInv, Unique
  <2> QED BY <1>1, <2>1, <2>2, <2>3 DEF Writers
<1>8. ASSUME NEW u, Reopen(u) PROVE Writers'
  <2>1. put' = [p \in LocalPut |-> IF put[p] \in {"propose", "wait", "acked"} THEN "past" ELSE put[p]]
    BY <1>8 DEF Reopen
  <2>2. \A p \in LocalPut : put'[p] \notin {"propose", "wait", "acked"}
    BY <2>1
  <2> QED BY <2>2 DEF Writers
<1>9. ASSUME NEW es, Commit(es) PROVE Writers'
  BY <1>3, <1>9 DEF Commit, clientVars, idVars, applyVars
<1>10. CASE JobPut
  BY <1>3, <1>10, StoreGrows DEF JobPut, clientVars, idVars, Inv
<1>11. CASE ApplyLoop \/ NextTask \/ JobCommitIndex \/ JobWake
  BY <1>3, <1>11 DEF ApplyLoop, NextTask, JobCommitIndex, JobWake, clientVars, idVars, applyVars
<1>12. ASSUME NEW g \in Read,
              RejectGet(g) \/ GetBegin(g) \/ GetWait(g) \/ GetRead(g) \/ GetTimeout(g)
       PROVE  Writers'
  BY <1>3, <1>12 DEF RejectGet, GetBegin, GetWait, GetRead, GetTimeout, clientVars, idVars, applyVars
<1>13. CASE UNCHANGED vars
  BY <1>3, <1>13 DEF vars, clientVars, idVars, applyVars
<1> QED BY <1>4, <1>5, <1>6, <1>7, <1>8, <1>9, <1>10, <1>11, <1>12, <1>13, Zenon
        DEF Next, Scheduler

LEMMA SawStep == Inv /\ IdInv /\ [Next]_vars => Saw'
<1> SUFFICES ASSUME Inv, IdInv, [Next]_vars PROVE Saw'
  OBVIOUS
<1>1. \A g \in Read :
         /\ get[g] \in {"begun", "read", "wait"} => ackedAt[g] \subseteq ToSet(kv)
         /\ get[g] = "done" =>
               seen[g] <= Len(kv) /\ ackedAt[g] \subseteq ToSet(SubSeq(kv, 1, seen[g]))
  BY DEF IdInv, Saw
<1>2. /\ get \in [Read -> GetState] /\ seen \in [Read -> Nat]
      /\ ackedAt \in [Read -> SUBSET LocalPut] /\ kv \in Seq(Entry) /\ Len(kv) \in Nat
  BY DEF Inv, Readers, Pipeline, GetState
<1>3. ASSUME UNCHANGED <<get, seen, ackedAt, kv>> PROVE Saw'
  BY <1>1, <1>3 DEF Saw
<1>4. CASE JobPut
  <2>1. UNCHANGED <<get, seen, ackedAt>>
    BY <1>4 DEF JobPut, readVars
  <2>2. /\ kv' \in Seq(Entry) /\ Len(kv') = Len(kv) + 1 /\ ToSet(kv) \subseteq ToSet(kv')
        /\ \A k \in 1 .. Len(kv) : kv'[k] = kv[k]
    BY <1>4, StoreGrows DEF Inv
  <2>3. ASSUME NEW n \in Nat, n <= Len(kv)
        PROVE  n <= Len(kv') /\ ToSet(SubSeq(kv', 1, n)) = ToSet(SubSeq(kv, 1, n))
    <3>1. n <= Len(kv')
      BY <1>2, <2>2, <2>3
    <3>2. ToSet(SubSeq(kv', 1, n)) = {kv'[k] : k \in 1 .. n}
      BY <2>2, <3>1, PrefixSet
    <3>3. ToSet(SubSeq(kv, 1, n)) = {kv[k] : k \in 1 .. n}
      BY <1>2, <2>3, PrefixSet
    <3>4. \A k \in 1 .. n : kv'[k] = kv[k]
      BY <1>2, <2>2, <2>3
    <3> QED BY <3>1, <3>2, <3>3, <3>4
  <2>4. ASSUME NEW g \in Read
        PROVE  /\ get[g] \in {"begun", "read", "wait"} => ackedAt[g] \subseteq ToSet(kv')
               /\ get[g] = "done" =>
                     seen[g] <= Len(kv') /\ ackedAt[g] \subseteq ToSet(SubSeq(kv', 1, seen[g]))
    <3>1. seen[g] \in Nat
      BY <1>2
    <3>2. get[g] \in {"begun", "read", "wait"} => ackedAt[g] \subseteq ToSet(kv')
      BY <1>1, <2>2
    <3>3. get[g] = "done" =>
             seen[g] <= Len(kv') /\ ackedAt[g] \subseteq ToSet(SubSeq(kv', 1, seen[g]))
      BY <1>1, <2>3, <3>1, Zenon
    <3> QED BY <3>2, <3>3
  <2> QED BY <2>1, <2>4 DEF Saw
<1>5. ASSUME NEW u, Reopen(u) PROVE Saw'
  <2>1. get' = [g \in Read |-> IF get[g] \in {"begun", "read", "wait", "done"} THEN "past" ELSE get[g]]
    BY <1>5 DEF Reopen
  <2>2. \A g \in Read : get'[g] \notin {"begun", "read", "wait", "done"}
    BY <2>1
  <2> QED BY <2>2 DEF Saw
<1>6. ASSUME NEW g \in Read, GetBegin(g) PROVE Saw'
  <2>1. /\ get' = [get EXCEPT ![g] = "begun"]
        /\ ackedAt' = [ackedAt EXCEPT ![g] = {p \in LocalPut : put[p] = "acked"}]
        /\ UNCHANGED <<seen, kv>>
    BY <1>6 DEF GetBegin, applyVars
  <2>2. /\ get'[g] = "begun" /\ ackedAt'[g] = {p \in LocalPut : put[p] = "acked"}
        /\ \A h \in Read : h # g => get'[h] = get[h] /\ ackedAt'[h] = ackedAt[h]
    BY <1>2, <2>1
  <2>3. ackedAt'[g] \subseteq ToSet(kv)
    BY <2>2 DEF IdInv, Writers
  <2>4. ASSUME NEW h \in Read
        PROVE  /\ get'[h] \in {"begun", "read", "wait"} => ackedAt'[h] \subseteq ToSet(kv)
               /\ get'[h] = "done" =>
                     seen[h] <= Len(kv) /\ ackedAt'[h] \subseteq ToSet(SubSeq(kv, 1, seen[h]))
    <3>1. CASE h = g
      BY <2>2, <2>3, <3>1
    <3>2. CASE h # g
      BY <1>1, <2>2, <3>2
    <3> QED BY <3>1, <3>2
  <2> QED BY <2>1, <2>4 DEF Saw
<1>7. ASSUME NEW g \in Read, RejectGet(g) \/ GetWait(g) \/ GetTimeout(g) PROVE Saw'
  <2>1. UNCHANGED <<seen, ackedAt, kv>>
    BY <1>7 DEF RejectGet, GetWait, GetTimeout, applyVars
  <2>2. /\ \E x \in {"rejected", "read", "wait", "failed"} : get' = [get EXCEPT ![g] = x]
        /\ get'[g] \in {"read", "wait"} => get[g] = "begun"
    BY <1>2, <1>7 DEF RejectGet, GetWait, GetTimeout
  <2>3. \A h \in Read :
           /\ get'[h] \in {"begun", "read", "wait"} => get[h] \in {"begun", "read", "wait"}
           /\ get'[h] = "done" => get[h] = "done"
    BY <1>2, <2>2
  <2> QED BY <1>1, <2>1, <2>3 DEF Saw
<1>8. ASSUME NEW g \in Read, GetRead(g) PROVE Saw'
  <2>1. /\ get[g] \in {"read", "wait"} /\ get' = [get EXCEPT ![g] = "done"]
        /\ seen' = [seen EXCEPT ![g] = Len(kv)] /\ UNCHANGED <<ackedAt, kv>>
    BY <1>8 DEF GetRead, applyVars
  <2>2. /\ get'[g] = "done" /\ seen'[g] = Len(kv)
        /\ \A h \in Read : h # g => get'[h] = get[h] /\ seen'[h] = seen[h]
    BY <1>2, <2>1
  <2>3. ackedAt[g] \subseteq ToSet(SubSeq(kv, 1, Len(kv))) /\ Len(kv) <= Len(kv)
    <3>1. SubSeq(kv, 1, Len(kv)) = kv
      BY <1>2, SubSeqFull
    <3>2. ackedAt[g] \subseteq ToSet(kv)
      BY <1>1, <2>1
    <3>3. Len(kv) <= Len(kv)
      BY <1>2
    <3> QED BY <3>1, <3>2, <3>3, Zenon
  <2>4. ASSUME NEW h \in Read
        PROVE  /\ get'[h] \in {"begun", "read", "wait"} => ackedAt[h] \subseteq ToSet(kv)
               /\ get'[h] = "done" =>
                     seen'[h] <= Len(kv) /\ ackedAt[h] \subseteq ToSet(SubSeq(kv, 1, seen'[h]))
    <3>1. CASE h = g
      BY <2>2, <2>3, <3>1
    <3>2. CASE h # g
      BY <1>1, <2>2, <3>2
    <3> QED BY <3>1, <3>2
  <2> QED BY <2>1, <2>4 DEF Saw
<1>9. ASSUME NEW p \in LocalPut,
             RejectPut(p) \/ Register(p) \/ Propose(p) \/ Acknowledge(p) \/ PutTimeout(p)
      PROVE  Saw'
  BY <1>3, <1>9 DEF RejectPut, Register, Propose, Acknowledge, PutTimeout, applyVars, readVars
<1>10. ASSUME NEW es, Commit(es) PROVE Saw'
  BY <1>3, <1>10 DEF Commit, applyVars, readVars
<1>11. CASE ApplyLoop \/ NextTask \/ JobTrigger \/ JobCommitIndex \/ JobWake
  BY <1>3, <1>11 DEF ApplyLoop, NextTask, JobTrigger, JobCommitIndex, JobWake, applyVars, readVars
<1>12. CASE UNCHANGED vars
  BY <1>3, <1>12 DEF vars, applyVars, readVars
<1> QED BY <1>4, <1>5, <1>6, <1>7, <1>8, <1>9, <1>10, <1>11, <1>12, Zenon DEF Next, Scheduler

LEMMA IdInvInductive ==
    /\ Init => IdInv
    /\ Inv /\ Inv' /\ IdInv /\ IdsLast' /\ [Next]_vars => IdInv'
<1>1. ASSUME Init PROVE IdInv
  <2>1. /\ \A p \in LocalPut : requestId[p] = 0 /\ put[p] = "start"
        /\ \A g \in Read : get[g] = "start"
    BY <1>1 DEF Init
  <2> QED BY <2>1 DEF IdInv, IdsPassed, Unique, Writers, Saw
<1> QED BY <1>1, IdsStep, WritersStep, SawStep DEF IdInv
-----------------------------------------------------------------------------
(* Each millisecond has cntSize ids, and the timestamp comes round tsSize    *)
(* milliseconds after the first start.  The ids last when the puts of all    *)
(* lives fit into the milliseconds that are left after the last start.       *)
FewPuts ==
    /\ IsFiniteSet(LocalPut)
    /\ Cardinality(LocalPut) <= (FirstStart + tsSize - MaxStart) * cntSize

Registered == {p \in LocalPut : requestId[p] # 0}

\* A start takes at most one id for each put that has one.
TakenBound ==
    /\ started <= MaxStart
    /\ suffix - NewGenerator(started) <= Cardinality(Registered)

LEMMA TakenStep ==
    ASSUME FewPuts, Inv, TakenBound, [Next]_vars
    PROVE  TakenBound'
<1>1. /\ IsFiniteSet(Registered) /\ Cardinality(Registered) \in Nat
      /\ suffix \in Nat /\ started \in Nat /\ NewGenerator(started) \in Nat
      /\ suffix - NewGenerator(started) <= Cardinality(Registered) /\ started <= MaxStart
  <2>1. IsFiniteSet(Registered)
    BY FS_Subset DEF FewPuts, Registered
  <2> QED BY <2>1, FS_CardinalityType, FirstSuffix DEF Inv, Clients, TakenBound
<1>2. ASSUME UNCHANGED idVars PROVE TakenBound'
  BY <1>2 DEF TakenBound, Registered, idVars
<1>3. ASSUME NEW p \in LocalPut, Register(p) PROVE TakenBound'
  <2>1. /\ put[p] = "start" /\ suffix' = suffix + 1 /\ started' = started
        /\ requestId' = [requestId EXCEPT ![p] = idOf(suffix')]
    BY <1>3 DEF Register
  <2>2. requestId \in [Entry -> Nat] /\ LocalPut \subseteq Entry /\ requestId[p] = 0
    BY <2>1 DEF Inv, Clients, Entry
  <2>3. suffix' \in Nat /\ idOf(suffix') # 0
    <3>1. suffix' \in Nat
      BY <1>1, <2>1
    <3> QED BY <3>1, IdFacts
  <2>4. /\ requestId'[p] # 0
        /\ \A q \in LocalPut : q # p => requestId'[q] = requestId[q]
    BY <2>1, <2>2, <2>3
  <2>5. Registered' = Registered \cup {p} /\ p \notin Registered
    BY <2>2, <2>4 DEF Registered
  <2>6. Cardinality(Registered') = Cardinality(Registered) + 1
    BY <1>1, <2>5, FS_AddElement
  <2>7. suffix' - NewGenerator(started) <= Cardinality(Registered')
    BY <1>1, <2>1, <2>6
  <2> QED BY <1>1, <2>1, <2>7 DEF TakenBound
<1>4. ASSUME NEW u \in FirstStart .. MaxStart, Reopen(u) PROVE TakenBound'
  <2>1. started' = u /\ suffix' = NewGenerator(u) /\ requestId' = requestId
    BY <1>4 DEF Reopen
  <2>2. u \in Nat /\ u <= MaxStart
    BY DBAssumption
  <2>3. NewGenerator(u) \in Nat
    BY <2>2, FirstSuffix
  <2>4. Registered' = Registered
    BY <2>1 DEF Registered
  <2>5. NewGenerator(u) - NewGenerator(u) <= Cardinality(Registered)
    BY <1>1, <2>3
  <2> QED BY <2>1, <2>2, <2>4, <2>5 DEF TakenBound
<1>5. UNCHANGED idVars \/ (\E p \in LocalPut : Register(p))
      \/ (\E u \in FirstStart .. MaxStart : Reopen(u))
  BY IdsKept
<1> QED BY <1>2, <1>3, <1>4, <1>5

\* When the puts of a node fit into what is left of the timestamp after its last
\* start, however fast they come and however they fall on its lives, no id comes
\* round: the hypothesis of the theorems below holds.
THEOREM FewPutsLast ==
    ASSUME FewPuts
    PROVE  Spec => []IdsLast
<1>1. Init => TakenBound
  <2> SUFFICES ASSUME Init PROVE TakenBound
    OBVIOUS
  <2>1. started = FirstStart /\ suffix = NewGenerator(FirstStart)
    BY DEF Init
  <2>2. FirstStart \in Nat /\ FirstStart <= MaxStart
    BY DBAssumption, Sizes
  <2>3. NewGenerator(FirstStart) \in Nat
    BY <2>2, FirstSuffix
  <2>4. Cardinality(Registered) \in Nat
    BY FS_Subset, FS_CardinalityType DEF FewPuts, Registered
  <2> QED BY <2>1, <2>2, <2>3, <2>4 DEF TakenBound
<1>2. Inv /\ TakenBound /\ [Next]_vars => TakenBound'
  BY TakenStep
<1>3. Inv /\ TakenBound => IdsLast
  <2> SUFFICES ASSUME Inv, TakenBound PROVE IdsLast
    OBVIOUS
  <2>1. PICK a \in Nat : a = suffix - NewGenerator(started)
    <3>1. /\ suffix \in Nat /\ started \in Nat /\ NewGenerator(started) <= suffix
      BY DEF Inv, Clients
    <3>2. NewGenerator(started) \in Nat
      BY <3>1, FirstSuffix
    <3> QED BY <3>1, <3>2
  <2>2. PICK left \in Nat : left = FirstStart + tsSize - MaxStart
    BY DBAssumption, Sizes
  <2>3. a <= left * cntSize
    <3>1. /\ Cardinality(Registered) \in Nat /\ Cardinality(Registered) <= Cardinality(LocalPut)
          /\ Cardinality(LocalPut) \in Nat
      BY FS_Subset, FS_CardinalityType DEF FewPuts, Registered
    <3>2. a <= Cardinality(Registered) /\ Cardinality(LocalPut) <= left * cntSize
      BY <2>1, <2>2 DEF TakenBound, FewPuts
    <3>3. left * cntSize \in Nat
      BY <2>2, Sizes
    <3> QED BY <3>1, <3>2, <3>3
  <2>4. /\ started \in Nat /\ FirstStart \in Nat /\ started <= MaxStart /\ MaxStart \in Nat
    BY DBAssumption, Sizes DEF Inv, Clients, TakenBound
  <2>5. PICK d \in Nat : MaxStart = started + d
    <3>1. MaxStart - started \in Nat /\ MaxStart = started + (MaxStart - started)
      BY <2>4
    <3> QED BY <3>1
  <2>6. /\ started * cntSize + d * cntSize + left * cntSize = FirstStart * cntSize + suffixSize
        /\ started * cntSize \in Nat /\ d * cntSize \in Nat /\ left * cntSize \in Nat
        /\ FirstStart * cntSize \in Nat /\ suffixSize \in Nat
    <3>1. started + d + left = FirstStart + tsSize
      BY <2>2, <2>4, <2>5, Sizes
    <3>3. suffixSize = tsSize * cntSize /\ tsSize \in Nat /\ cntSize \in Nat
      BY Sizes DEF suffixSize
    <3>4. /\ started * cntSize \in Nat /\ d * cntSize \in Nat /\ left * cntSize \in Nat
          /\ FirstStart * cntSize \in Nat /\ suffixSize \in Nat
      BY <2>2, <2>4, <2>5, <3>3
    <3>5. started * cntSize + d * cntSize + left * cntSize = FirstStart * cntSize + tsSize * cntSize
      <4>0. started \in Nat /\ d \in Nat /\ left \in Nat /\ FirstStart \in Nat /\ started + d \in Nat
        BY <2>2, <2>4, <2>5
      <4>1. (started + d + left) * cntSize = (started + d) * cntSize + left * cntSize
        BY <4>0, <3>3
      <4>2. (started + d) * cntSize = started * cntSize + d * cntSize
        BY <4>0, <3>3
      <4>3. (FirstStart + tsSize) * cntSize = FirstStart * cntSize + tsSize * cntSize
        BY <4>0, <3>3
      <4>4. (started + d + left) * cntSize = (FirstStart + tsSize) * cntSize
        BY <3>1, Zenon
      <4> QED BY <4>1, <4>2, <4>3, <4>4, Zenon
    <3> QED BY <3>3, <3>4, <3>5
  <2>7. started * cntSize + a <= FirstStart * cntSize + suffixSize
    BY <2>1, <2>3, <2>6
  <2> QED BY <2>1, <2>7 DEF IdsLast, position
<1> QED BY <1>1, <1>2, <1>3, Invariance, Safety, PTL

\* A client of /put is told of success only when its own command is in the
\* store, across any number of restarts: as long as the ids have not come
\* round, a trigger releases no other writer.
THEOREM SuccessIsApplied == Spec /\ []IdsLast => []SuccessMeansApplied
<1>1. IdInv => SuccessMeansApplied
  BY DEF IdInv, Writers, SuccessMeansApplied, response
<1> QED BY <1>1, IdInvInductive, Invariance, Safety, PTL

\* A Get that begins after a Put returned sees it, as long as the ids have not
\* come round.
THEOREM ReadAfterWrite == Spec /\ []IdsLast => []ReadsAckedPuts
<1>1. IdInv => ReadsAckedPuts
  BY DEF IdInv, Saw, ReadsAckedPuts
<1> QED BY <1>1, IdInvInductive, Invariance, Safety, PTL
=============================================================================
