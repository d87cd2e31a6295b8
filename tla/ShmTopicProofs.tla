--------------------------- MODULE ShmTopicProofs ---------------------------
(***************************************************************************)
(* For every set of readers and handles and every limit: objects in the    *)
(* segment have one owner whatever fails, and while allocation succeeds    *)
(* nothing leaks and the assertions of lookupNextMessage_ hold; and while  *)
(* subscriptions do not expire readers get what TopicFeed promises.        *)
(***************************************************************************)
EXTENDS ShmTopic, SequenceTheorems, FiniteSetTheorems, TLAPS

Message == [handle : Handles, seq : Nat]

\* What IInv says of a queue ms, a recycle bin, the allocated handles and the
\* handles of other objects, element by element.
Apart(ms, bin, alloc, others) ==
  /\ \A i, j \in 1..Len(ms) : i # j => ms[i].handle # ms[j].handle
  /\ \A i, j \in 1..Len(bin) : i # j => bin[i] # bin[j]
  /\ \A i \in 1..Len(ms) : \A j \in 1..Len(bin) : ms[i].handle # bin[j]
  /\ \A i \in 1..Len(ms) : ms[i].handle \in alloc /\ ms[i].handle \notin others
  /\ \A j \in 1..Len(bin) : bin[j] \in alloc /\ bin[j] \notin others
  /\ others \subseteq alloc

Covered(ms, bin, alloc, others) ==
  \A h \in alloc \ others :
    (\E i \in 1..Len(ms) : h = ms[i].handle) \/ (\E j \in 1..Len(bin) : h = bin[j])

Numbered(ms, last) == \A i \in 1..Len(ms) : ms[i].seq = last - Len(ms) + i

InOrder(ms, bin, alloc, others, last) ==
  /\ ms \in Seq(Message) /\ bin \in Seq(Handles) /\ alloc \in SUBSET Handles
  /\ Len(bin) <= MaxTrash
  /\ Apart(ms, bin, alloc, others)
  /\ ~AllocFails => Numbered(ms, last) /\ Covered(ms, bin, alloc, others)

\* The same of a store.
StoreOK(q, others, last) ==
  /\ q \in StoreType
  /\ InOrder(q.messages, q.bin, q.allocated, others, last)

-----------------------------------------------------------------------------
(* Retirement keeps a store in order: the first n of k retired handles go  *)
(* to the bin, the others are freed, the rest of the queue stays where its *)
(* numbers say.                                                            *)
LEMMA RetireInOrder ==
  ASSUME NEW ms, NEW bin, NEW alloc, NEW others, NEW last \in Nat,
         InOrder(ms, bin, alloc, others, last),
         NEW k \in 0..Len(ms), NEW n \in 0..k, Len(bin) + n <= MaxTrash,
         NEW gone,
         \A h : h \in gone <=> \E i \in (n + 1)..k : h = ms[i].handle
  PROVE  InOrder(SubSeq(ms, k + 1, Len(ms)),
                 bin \o [i \in 1..n |-> ms[i].handle],
                 alloc \ gone, others, last)
  <1> DEFINE N == Len(ms)
             B == Len(bin)
             new == [i \in 1..n |-> ms[i].handle]
             rest == SubSeq(ms, k + 1, N)
             full == bin \o new
  <1>1. ms \in Seq(Message) /\ bin \in Seq(Handles) /\ alloc \in SUBSET Handles
    BY DEF InOrder
  <1>2. /\ N \in Nat /\ B \in Nat /\ k \in Nat /\ n \in Nat /\ n <= k /\ k <= N
        /\ \A i \in 1..N : ms[i] \in Message /\ ms[i].handle \in Handles
    <2>1. N \in Nat /\ B \in Nat
      BY <1>1, LenProperties
    <2>2. \A i \in 1..N : ms[i] \in Message
      BY <1>1, ElementOfSeq
    <2>3. \A e \in Message : e.handle \in Handles
      BY DEF Message
    <2> QED
      BY <2>1, <2>2, <2>3
  <1>3. /\ \A h \in gone : \E i \in (n + 1)..k : h = ms[i].handle
        /\ \A i \in (n + 1)..k : ms[i].handle \in gone
    OBVIOUS
  <1>4. /\ new \in Seq(Handles) /\ Len(new) = n
        /\ \A i \in 1..n : new[i] = ms[i].handle
    <2>1. \A i \in 1..n : ms[i].handle \in Handles
      BY <1>2
    <2> QED
      BY <1>2, <2>1
  <1>5. /\ rest \in Seq(Message) /\ Len(rest) = N - k
        /\ \A i \in 1..(N - k) : rest[i] = ms[k + i]
    <2>1. \A i \in (k + 1)..N : ms[i] \in Message
      BY <1>2
    <2>2. k + 1 \in Int /\ N \in Int
      BY <1>2
    <2>3. /\ rest \in Seq(Message)
          /\ Len(rest) = IF k + 1 <= N THEN N - (k + 1) + 1 ELSE 0
          /\ \A i \in 1..(N - (k + 1) + 1) : rest[i] = ms[(k + 1) + i - 1]
      BY <2>1, <2>2, SubSeqProperties
    <2> HIDE DEF rest
    <2>4. Len(rest) = N - k
      BY <1>2, <2>3
    <2>5. ASSUME NEW i \in 1..(N - k) PROVE rest[i] = ms[k + i]
      <3>1. i \in 1..(N - (k + 1) + 1) /\ (k + 1) + i - 1 = k + i
        BY <1>2
      <3> QED
        BY <2>3, <3>1
    <2> QED
      BY <2>3, <2>4, <2>5
  <1> HIDE DEF new
  <1>6. /\ full \in Seq(Handles) /\ Len(full) = B + n
        /\ \A j \in 1..(B + n) : full[j] = IF j <= B THEN bin[j] ELSE ms[j - B].handle
    <2>1. /\ full \in Seq(Handles) /\ Len(full) = B + Len(new)
          /\ \A j \in 1..(B + Len(new)) : full[j] = IF j <= B THEN bin[j] ELSE new[j - B]
      BY <1>1, <1>4, ConcatProperties
    <2>2. ASSUME NEW j \in 1..(B + n), ~(j <= B)
          PROVE  j - B \in 1..n
      BY <1>2, <2>2
    <2> QED
      BY <1>4, <2>1, <2>2
  <1>7. Apart(ms, bin, alloc, others)
    BY DEF InOrder
  <1> HIDE DEF rest, full
  <1>8. Apart(rest, full, alloc \ gone, others)
    <2>1. /\ \A i, j \in 1..N : i # j => ms[i].handle # ms[j].handle
          /\ \A i, j \in 1..B : i # j => bin[i] # bin[j]
          /\ \A i \in 1..N : \A j \in 1..B : ms[i].handle # bin[j]
          /\ \A i \in 1..N : ms[i].handle \in alloc /\ ms[i].handle \notin others
          /\ \A j \in 1..B : bin[j] \in alloc /\ bin[j] \notin others
          /\ others \subseteq alloc
      BY <1>7 DEF Apart
    <2>2. \A i \in 1..(N - k) : k + i \in 1..N /\ k + i > k /\ rest[i] = ms[k + i]
      BY <1>2, <1>5
    <2>3. \A j \in 1..(B + n) :
            \/ j \in 1..B /\ full[j] = bin[j]
            \/ j > B /\ j - B \in 1..n /\ j - B \in 1..N /\ full[j] = ms[j - B].handle
      BY <1>2, <1>6
    <2> HIDE DEF N, B
    <2>4. ASSUME NEW i \in 1..(N - k), NEW j \in 1..(N - k), i # j
          PROVE  rest[i].handle # rest[j].handle
      <3>1. k + i # k + j
        BY <1>2, <2>4
      <3> QED
        BY <2>1, <2>2, <3>1
    <2>5. ASSUME NEW i \in 1..(B + n), NEW j \in 1..(B + n), i # j
          PROVE  full[i] # full[j]
      <3>1. i - B # j - B
        BY <1>2, <2>5
      <3> QED
        BY <2>1, <2>3, <2>5, <3>1
    <2>6. ASSUME NEW i \in 1..(N - k), NEW j \in 1..(B + n)
          PROVE  rest[i].handle # full[j]
      <3>1. CASE j \in 1..B /\ full[j] = bin[j]
        BY <2>1, <2>2, <3>1
      <3>2. CASE j > B /\ j - B \in 1..n /\ j - B \in 1..N /\ full[j] = ms[j - B].handle
        <4>1. k + i # j - B
          BY <1>2, <3>2
        <4> QED
          BY <2>1, <2>2, <3>2, <4>1
      <3> QED
        BY <2>3, <3>1, <3>2
    <2>7. ASSUME NEW i \in (n + 1)..k
          PROVE  /\ i \in 1..N /\ ms[i].handle \notin others
                 /\ \A j \in 1..(N - k) : rest[j].handle # ms[i].handle
                 /\ \A j \in 1..(B + n) : full[j] # ms[i].handle
      <3>1. i \in 1..N /\ i > n /\ i <= k
        BY <1>2
      <3>2. \A j \in 1..(N - k) : k + j # i
        BY <1>2, <3>1
      <3>3. \A j \in 1..n : j # i
        BY <1>2, <3>1
      <3>4. \A j \in 1..(N - k) : rest[j].handle # ms[i].handle
        BY <2>1, <2>2, <3>1, <3>2
      <3>5. \A j \in 1..(B + n) : full[j] # ms[i].handle
        BY <2>1, <2>3, <3>1, <3>3
      <3> QED
        BY <2>1, <3>1, <3>4, <3>5
    <2>8. \A i \in 1..(N - k) :
            rest[i].handle \in alloc \ gone /\ rest[i].handle \notin others
      BY <1>3, <2>1, <2>2, <2>7
    <2>9. \A j \in 1..(B + n) : full[j] \in alloc \ gone /\ full[j] \notin others
      <3>1. \A j \in 1..(B + n) : full[j] \in alloc /\ full[j] \notin others
        BY <2>1, <2>3
      <3> QED
        BY <1>3, <2>7, <3>1
    <2>10. others \subseteq alloc \ gone
      BY <1>3, <2>1, <2>7
    <2> QED
      BY <1>5, <1>6, <2>4, <2>5, <2>6, <2>8, <2>9, <2>10 DEF Apart
  <1>9. ASSUME ~AllocFails
        PROVE  Numbered(rest, last) /\ Covered(rest, full, alloc \ gone, others)
    <2>1. Numbered(ms, last) /\ Covered(ms, bin, alloc, others)
      BY <1>9 DEF InOrder
    <2>2. Numbered(rest, last)
      BY <1>2, <1>5, <2>1 DEF Numbered
    <2>3. ASSUME NEW h \in (alloc \ gone) \ others,
                 ~ \E i \in 1..Len(rest) : h = rest[i].handle
          PROVE  \E j \in 1..Len(full) : h = full[j]
      <3>1. CASE \E j \in 1..B : h = bin[j]
        BY <1>2, <1>6, <3>1
      <3>2. CASE \E i \in 1..N : h = ms[i].handle
        <4>1. PICK i \in 1..N : h = ms[i].handle
          BY <3>2
        <4>2. ~(i > k)
          <5>1. ASSUME i > k PROVE i - k \in 1..(N - k) /\ k + (i - k) = i
            BY <1>2, <5>1
          <5> QED
            BY <1>5, <2>3, <4>1, <5>1
        <4>3. ~(i > n)
          BY <1>2, <1>3, <4>1, <4>2
        <4>4. B + i \in 1..(B + n) /\ ~((B + i) <= B) /\ (B + i) - B = i
          BY <1>2, <4>3
        <4>5. full[B + i] = h
          BY <1>6, <4>1, <4>4
        <4> QED
          BY <1>6, <4>4, <4>5
      <3> QED
        BY <2>1, <2>3, <3>1, <3>2 DEF Covered
    <2> QED
      BY <2>2, <2>3 DEF Covered
  <1>10. Len(full) <= MaxTrash
    BY <1>2, <1>6
  <1>11. rest \in Seq(Message) /\ full \in Seq(Handles) /\ alloc \ gone \in SUBSET Handles
    BY <1>1, <1>5, <1>6
  <1>12. InOrder(rest, full, alloc \ gone, others, last)
    BY <1>8, <1>9, <1>10, <1>11 DEF InOrder
  <1> QED
    BY <1>12 DEF rest, full, new

\* The positions of a queue can be counted.
LEMMA PositionsFinite ==
  ASSUME NEW n \in Nat
  PROVE  IsFiniteSet(1..n) /\ Cardinality(1..n) = n
  BY FS_Interval

\* Retirement fills the recycle bin up to its limit and no further.
LEMMA ShortBin ==
  ASSUME NEW ms, NEW bin, NEW alloc, NEW others, NEW last,
         InOrder(ms, bin, alloc, others, last), NEW k \in 0..Len(ms)
  PROVE  LET n == IF k <= MaxTrash - Len(bin) THEN k ELSE MaxTrash - Len(bin)
         IN  n \in 0..k /\ Len(bin) + n <= MaxTrash
  <1>1. Len(ms) \in Nat /\ Len(bin) \in Nat /\ MaxTrash \in Nat /\ Len(bin) <= MaxTrash
    BY LenProperties, ShmTopicAssumption DEF InOrder
  <1> DEFINE B == Len(bin)
  <1>2. B \in Nat /\ B <= MaxTrash /\ k \in Nat
    BY <1>1
  <1> HIDE DEF B
  <1>3. LET n == IF k <= MaxTrash - B THEN k ELSE MaxTrash - B
        IN  n \in 0..k /\ B + n <= MaxTrash
    BY <1>1, <1>2
  <1> QED
    BY <1>3 DEF B

\* The same of stores.
LEMMA RetireFirstOK ==
  ASSUME NEW q, NEW others, NEW last \in Nat, StoreOK(q, others, last),
         NEW k \in 0..Len(q.messages)
  PROVE  StoreOK(RetireFirst(q, k), others, last)
  <1> DEFINE n == IF k <= MaxTrash - Len(q.bin) THEN k ELSE MaxTrash - Len(q.bin)
             gone == {q.messages[i].handle : i \in (n + 1)..k}
             mem == [h \in Handles |-> IF h \in gone THEN Garbage ELSE q.payload[h]]
             r == RetireFirst(q, k)
  <1>1. /\ InOrder(q.messages, q.bin, q.allocated, others, last)
        /\ q.payload \in [Handles -> Nat]
    BY DEF StoreOK, StoreType
  <1>2. n \in 0..k /\ Len(q.bin) + n <= MaxTrash
    BY <1>1, ShortBin
  <1>3. \A h : h \in gone <=> \E i \in (n + 1)..k : h = q.messages[i].handle
    OBVIOUS
  <1>4. /\ r.messages = SubSeq(q.messages, k + 1, Len(q.messages))
        /\ r.bin = q.bin \o [i \in 1..n |-> q.messages[i].handle]
        /\ r.payload = mem
        /\ r.allocated = q.allocated \ gone
        /\ r = [messages |-> r.messages, bin |-> r.bin,
                payload |-> r.payload, allocated |-> r.allocated]
    BY DEF RetireFirst
  <1> HIDE DEF n, gone, r
  <1>5. mem \in [Handles -> Nat]
    BY <1>1 DEF Garbage
  <1>6. InOrder(SubSeq(q.messages, k + 1, Len(q.messages)),
                q.bin \o [i \in 1..n |-> q.messages[i].handle],
                q.allocated \ gone, others, last)
    BY <1>1, <1>2, <1>3, RetireInOrder
  <1>7. StoreOK(r, others, last)
    <2> HIDE DEF mem
    <2>1. InOrder(r.messages, r.bin, r.allocated, others, last) /\ r.payload \in [Handles -> Nat]
      BY <1>4, <1>5, <1>6
    <2>2. r \in StoreType
      BY <1>4, <2>1 DEF InOrder, StoreType, Message
    <2> QED
      BY <2>1, <2>2 DEF StoreOK
  <1> QED
    BY <1>7 DEF r

\* retireMessages_ keeps the store sound, whoever reads it.
LEMMA RetireOK ==
  ASSUME NEW q, NEW others, NEW last \in Nat, StoreOK(q, others, last),
         NEW subs, NEW data
  PROVE  StoreOK(Retire(q, subs, data), others, last)
  <1> DEFINE passed == {i \in 1..Len(q.messages) :
                         \A j \in 1..i : Passed(q.messages[j], subs, data)}
  <1>1. CASE Singleton
    BY <1>1 DEF Retire
  <1>2. CASE ~Singleton
    <2>1. Len(q.messages) \in Nat
      BY LenProperties DEF StoreOK, InOrder
    <2>2. /\ IsFiniteSet(1..Len(q.messages))
          /\ Cardinality(1..Len(q.messages)) = Len(q.messages)
      BY <2>1, PositionsFinite
    <2>3. passed \in SUBSET (1..Len(q.messages))
      OBVIOUS
    <2>4. Retire(q, subs, data) = RetireFirst(q, Cardinality(passed))
      BY <1>2 DEF Retire
    <2> HIDE DEF passed
    <2>5. IsFiniteSet(passed) /\ Cardinality(passed) <= Len(q.messages)
      BY <2>2, <2>3, FS_Subset
    <2>6. Cardinality(passed) \in 0..Len(q.messages)
      BY <2>1, <2>5, FS_CardinalityType
    <2>7. StoreOK(RetireFirst(q, Cardinality(passed)), others, last)
      BY <2>6, RetireFirstOK
    <2> QED
      BY <2>4, <2>7
  <1> QED
    BY <1>1, <1>2

-----------------------------------------------------------------------------
(* The other changes of a store.                                           *)

\* Objects that are destroyed belonged to nobody else.
LEMMA DropOK ==
  ASSUME NEW q, NEW subs, NEW last, StoreOK(q, subs, last),
         NEW gone \in SUBSET subs
  PROVE  StoreOK([q EXCEPT !.allocated = @ \ gone], subs \ gone, last)
  <1> DEFINE r == [q EXCEPT !.allocated = @ \ gone]
  <1>1. /\ r.messages = q.messages /\ r.bin = q.bin
        /\ r.allocated = q.allocated \ gone
        /\ r \in StoreType
    BY DEF StoreOK, StoreType
  <1> HIDE DEF r
  <1>2. InOrder(q.messages, q.bin, q.allocated, subs, last)
    BY DEF StoreOK
  <1>3. Apart(q.messages, q.bin, q.allocated \ gone, subs \ gone)
    BY <1>2 DEF InOrder, Apart
  <1>4. Covered(q.messages, q.bin, q.allocated, subs) =>
          Covered(q.messages, q.bin, q.allocated \ gone, subs \ gone)
    BY DEF Covered
  <1>5. InOrder(q.messages, q.bin, q.allocated \ gone, subs \ gone, last)
    BY <1>2, <1>3, <1>4 DEF InOrder
  <1> QED
    BY <1>1, <1>5 DEF StoreOK, r

\* An object in hand becomes the last message.
LEMMA AppendInOrder ==
  ASSUME NEW ms, NEW bin, NEW alloc, NEW others, NEW last \in Nat,
         NEW h \in Handles, h \notin others,
         InOrder(ms, bin, alloc, others \cup {h}, last)
  PROVE  InOrder(Append(ms, [handle |-> h, seq |-> last + 1]), bin, alloc, others, last + 1)
  <1> DEFINE e == [handle |-> h, seq |-> last + 1]
             N == Len(ms)
             more == Append(ms, e)
  <1>1. e \in Message /\ e.handle = h /\ e.seq = last + 1
    BY DEF Message
  <1>2. ms \in Seq(Message) /\ N \in Nat
    BY LenProperties DEF InOrder
  <1> HIDE DEF e
  <1>3. /\ more \in Seq(Message) /\ Len(more) = N + 1
        /\ \A i \in 1..N : more[i] = ms[i]
        /\ more[N + 1] = e
    BY <1>1, <1>2, AppendProperties
  <1>4. /\ \A i, j \in 1..N : i # j => ms[i].handle # ms[j].handle
        /\ \A i, j \in 1..Len(bin) : i # j => bin[i] # bin[j]
        /\ \A i \in 1..N : \A j \in 1..Len(bin) : ms[i].handle # bin[j]
        /\ \A i \in 1..N : ms[i].handle \in alloc /\ ms[i].handle \notin others \cup {h}
        /\ \A j \in 1..Len(bin) : bin[j] \in alloc /\ bin[j] \notin others \cup {h}
        /\ others \cup {h} \subseteq alloc
    BY DEF InOrder, Apart
  <1>0. N = Len(ms)
    OBVIOUS
  <1> HIDE DEF more, N
  <1>5. \A i \in 1..(N + 1) : (i \in 1..N /\ more[i] = ms[i]) \/ (i = N + 1 /\ more[i] = e)
    BY <1>2, <1>3
  <1>6. Apart(more, bin, alloc, others)
    <2>1. \A i, j \in 1..(N + 1) : i # j => more[i].handle # more[j].handle
      BY <1>1, <1>4, <1>5
    <2>2. \A i \in 1..(N + 1) : \A j \in 1..Len(bin) : more[i].handle # bin[j]
      BY <1>1, <1>4, <1>5
    <2>3. \A i \in 1..(N + 1) : more[i].handle \in alloc /\ more[i].handle \notin others
      BY <1>1, <1>4, <1>5
    <2> QED
      BY <1>3, <1>4, <2>1, <2>2, <2>3 DEF Apart
  <1>7. ASSUME ~AllocFails
        PROVE  Numbered(more, last + 1) /\ Covered(more, bin, alloc, others)
    <2>1. \A i \in 1..N : ms[i].seq = last - N + i
      BY <1>0, <1>7 DEF InOrder, Numbered
    <2>2. \A x \in alloc \ (others \cup {h}) :
            (\E i \in 1..N : x = ms[i].handle) \/ (\E j \in 1..Len(bin) : x = bin[j])
      BY <1>0, <1>7 DEF InOrder, Covered
    <2>3. \A i \in 1..(N + 1) : more[i].seq = (last + 1) - (N + 1) + i
      BY <1>1, <1>2, <1>5, <2>1
    <2>4. N + 1 \in 1..(N + 1) /\ \A i \in 1..N : i \in 1..(N + 1)
      BY <1>2
    <2>5. \A x \in alloc \ others :
            (\E i \in 1..(N + 1) : x = more[i].handle) \/ (\E j \in 1..Len(bin) : x = bin[j])
      BY <1>1, <1>3, <2>2, <2>4
    <2> QED
      BY <1>3, <2>3, <2>5 DEF Numbered, Covered
  <1>8. InOrder(more, bin, alloc, others, last + 1)
    BY <1>3, <1>6, <1>7 DEF InOrder
  <1> QED
    BY <1>8 DEF more, e

\* The last object of the recycle bin is taken into hand.
LEMMA PopInOrder ==
  ASSUME NEW ms, NEW bin, NEW alloc, NEW others, NEW last,
         InOrder(ms, bin, alloc, others, last), bin # <<>>
  PROVE  /\ bin[Len(bin)] \in Handles /\ bin[Len(bin)] \notin others
         /\ bin[Len(bin)] \in alloc
         /\ InOrder(ms, SubSeq(bin, 1, Len(bin) - 1), alloc,
                    others \cup {bin[Len(bin)]}, last)
  <1> DEFINE B == Len(bin)
             h == bin[B]
             less == SubSeq(bin, 1, B - 1)
  <1>1. bin \in Seq(Handles) /\ B \in Nat \ {0}
    BY EmptySeq DEF InOrder
  <1>2. /\ \A i, j \in 1..Len(ms) : i # j => ms[i].handle # ms[j].handle
        /\ \A i, j \in 1..B : i # j => bin[i] # bin[j]
        /\ \A i \in 1..Len(ms) : \A j \in 1..B : ms[i].handle # bin[j]
        /\ \A i \in 1..Len(ms) : ms[i].handle \in alloc /\ ms[i].handle \notin others
        /\ \A j \in 1..B : bin[j] \in alloc /\ bin[j] \notin others
        /\ others \subseteq alloc
    BY DEF InOrder, Apart
  <1>0. B = Len(bin) /\ Len(bin) <= MaxTrash /\ MaxTrash \in Nat
    BY ShmTopicAssumption DEF InOrder
  <1> HIDE DEF B
  <1>3. B \in 1..B /\ h \in Handles /\ h \in alloc /\ h \notin others
    <2>1. B \in 1..B
      BY <1>1
    <2>2. h \in Handles
      BY <1>0, <1>1, <2>1, ElementOfSeq
    <2> QED
      BY <1>2, <2>1, <2>2
  <1>4. /\ less \in Seq(Handles) /\ Len(less) = B - 1
        /\ \A j \in 1..(B - 1) : less[j] = bin[j]
    <2>1. \A j \in 1..(B - 1) : j \in 1..B
      BY <1>1
    <2>2. \A j \in 1..(B - 1) : bin[j] \in Handles
      BY <1>0, <1>1, <2>1, ElementOfSeq
    <2>3. 1 \in Int /\ B - 1 \in Int
      BY <1>1
    <2>4. /\ less \in Seq(Handles)
          /\ Len(less) = IF 1 <= B - 1 THEN (B - 1) - 1 + 1 ELSE 0
          /\ \A j \in 1..((B - 1) - 1 + 1) : less[j] = bin[1 + j - 1]
      BY <2>2, <2>3, SubSeqProperties
    <2> HIDE DEF less
    <2>5. Len(less) = B - 1
      BY <1>1, <2>4
    <2>6. ASSUME NEW j \in 1..(B - 1) PROVE less[j] = bin[j]
      <3>1. j \in 1..((B - 1) - 1 + 1) /\ 1 + j - 1 = j
        BY <1>1
      <3> QED
        BY <2>4, <3>1
    <2> QED
      BY <2>4, <2>5, <2>6
  <1>5. \A j \in 1..(B - 1) : j \in 1..B /\ j # B
    BY <1>1
  <1> HIDE DEF less
  <1>6. \A i \in 1..Len(ms) : ms[i].handle # h
    BY <1>2, <1>3
  <1>7. \A j \in 1..(B - 1) : less[j] # h
    BY <1>2, <1>3, <1>4, <1>5
  <1> HIDE DEF h
  <1>8. Apart(ms, less, alloc, others \cup {h})
    <2>1. \A i, j \in 1..(B - 1) : i # j => less[i] # less[j]
      BY <1>2, <1>4, <1>5
    <2>2. \A i \in 1..Len(ms) : \A j \in 1..(B - 1) : ms[i].handle # less[j]
      BY <1>2, <1>4, <1>5
    <2>3. \A i \in 1..Len(ms) : ms[i].handle \in alloc /\ ms[i].handle \notin others \cup {h}
      BY <1>2, <1>6
    <2>4. \A j \in 1..(B - 1) : less[j] \in alloc /\ less[j] \notin others \cup {h}
      BY <1>2, <1>4, <1>5, <1>7
    <2>5. others \cup {h} \subseteq alloc
      BY <1>2, <1>3
    <2> QED
      BY <1>2, <1>4, <2>1, <2>2, <2>3, <2>4, <2>5 DEF Apart
  <1>9. Covered(ms, bin, alloc, others) => Covered(ms, less, alloc, others \cup {h})
    <2> SUFFICES ASSUME Covered(ms, bin, alloc, others),
                        NEW x \in alloc \ (others \cup {h}),
                        ~ \E i \in 1..Len(ms) : x = ms[i].handle
                 PROVE  \E j \in 1..Len(less) : x = less[j]
      BY DEF Covered
    <2>1. PICK j \in 1..B : x = bin[j]
      BY <1>0 DEF Covered
    <2>2. j # B
      BY <2>1 DEF h
    <2>3. j \in 1..(B - 1)
      BY <1>1, <2>2
    <2> QED
      BY <1>4, <2>1, <2>3
  <1>10. Len(less) <= MaxTrash
    BY <1>0, <1>1, <1>4
  <1>11. InOrder(ms, less, alloc, others \cup {h}, last)
    BY <1>4, <1>8, <1>9, <1>10 DEF InOrder
  <1> QED
    BY <1>3, <1>11 DEF h, less, B

-----------------------------------------------------------------------------
(* The inductive invariant in these terms.                                 *)

Others ==
  /\ lastSeq \in Nat
  /\ subscriptions \subseteq Handles
  /\ subData \in [Handles -> [qos : SubscriptionQos, latest : Nat]]
  /\ reader \in [Readers -> Handles \cup {NoHandle}]
  /\ aborted \subseteq Readers
  /\ ~AllocFails => aborted = {}

Single == Singleton => Len(messages) <= 1

\* The two ways to say that no object has two owners agree ...
LEMMA OwnedIsApart ==
  ASSUME NEW q, NEW subs
  PROVE  Owned(q, subs) <=> Apart(q.messages, q.bin, q.allocated, subs)
  BY DEF Owned, Apart, NoRepeats, MessageHandles, BinHandles

\* ... as do those that none is without one.
LEMMA ExactIsCovered ==
  ASSUME NEW q, NEW subs
  PROVE  Exact(q, subs) <=> Covered(q.messages, q.bin, q.allocated, subs)
  BY DEF Exact, Covered, MessageHandles, BinHandles

\* What the fields of the store are.
LEMMA StoreFields ==
  /\ Store.messages = messages /\ Store.bin = recycleBin
  /\ Store.payload = payload /\ Store.allocated = allocated
  BY DEF Store

\* The invariant as a statement about the store and about the others.
LEMMA IInvForm == IInv <=> StoreOK(Store, subscriptions, lastSeq) /\ Others /\ Single
  <1>1. AtMostOneOwner <=> Apart(messages, recycleBin, allocated, subscriptions)
    BY OwnedIsApart, StoreFields DEF AtMostOneOwner
  <1>2. NothingLeaks <=> (~AllocFails => Covered(messages, recycleBin, allocated, subscriptions))
    BY ExactIsCovered, StoreFields DEF NothingLeaks
  <1>3. Contiguous <=> Numbered(messages, lastSeq)
    BY StoreFields DEF Contiguous, UpTo, Numbered
  <1>4. Store \in StoreType =>
          messages \in Seq(Message) /\ recycleBin \in Seq(Handles) /\ allocated \in SUBSET Handles
    BY StoreFields DEF StoreType, Message
  <1> QED
    BY <1>1, <1>2, <1>3, <1>4, StoreFields
       DEF IInv, TypeOK, Others, Single, StoreOK, InOrder, LookupHolds

\* A store that is sound is so after it was written back.
LEMMA CommitOK ==
  ASSUME NEW q, NEW subs, NEW last, StoreOK(q, subs, last), Commit(q)
  PROVE  StoreOK(Store', subs, last) /\ messages' = q.messages
  <1>1. Store' = [messages |-> q.messages, bin |-> q.bin,
                  payload |-> q.payload, allocated |-> q.allocated]
    BY DEF Store, Commit
  <1>2. Store' = q
    BY <1>1 DEF StoreOK, StoreType
  <1> QED
    BY <1>2 DEF Commit

-----------------------------------------------------------------------------
(* One step of each kind.                                                  *)

OK == StoreOK(Store, subscriptions, lastSeq) /\ Others /\ Single

\* The end of doPublish_: subscriptions may expire, what was read is retired.
LEMMA PublishedOK ==
  ASSUME Others, NEW q, StoreOK(q, subscriptions, lastSeq + 1),
         Singleton => Len(q.messages) <= 1, Published(q)
  PROVE  OK'
  <1>1. PICK gone \in Expired :
          LET left == subscriptions \ gone
              rest == [q EXCEPT !.allocated = @ \ gone]
          IN  /\ Commit(IF gone = {} THEN q ELSE Retire(rest, left, subData))
              /\ subscriptions' = left
              /\ subData' = [h \in Handles |-> IF h \in gone THEN NoData ELSE subData[h]]
    BY DEF Published
  <1>2. gone \in SUBSET subscriptions
    BY DEF Expired
  <1>3. lastSeq' = lastSeq + 1 /\ UNCHANGED <<reader, aborted>> /\ lastSeq + 1 \in Nat
    BY DEF Published, Others
  <1>4. Others'
    <2>1. NoData \in [qos : SubscriptionQos, latest : Nat]
      BY DEF NoData, SubscriptionQos
    <2>2. subData' \in [Handles -> [qos : SubscriptionQos, latest : Nat]]
      BY <1>1, <2>1 DEF Others
    <2> QED
      BY <1>1, <1>3, <2>2 DEF Others
  <1> DEFINE rest == [q EXCEPT !.allocated = @ \ gone]
             left == subscriptions \ gone
             r == Retire(rest, left, subData)
  <1>5. CASE gone = {}
    <2>1. Commit(q) /\ subscriptions' = subscriptions
      BY <1>1, <1>5
    <2> QED
      BY <1>3, <1>4, <2>1, CommitOK DEF OK, Single
  <1>6. CASE gone # {}
    <2>1. Commit(r) /\ subscriptions' = left
      BY <1>1, <1>6
    <2>2. StoreOK(rest, left, lastSeq + 1)
      BY <1>2, DropOK
    <2>3. StoreOK(r, left, lastSeq + 1)
      BY <1>3, <2>2, RetireOK
    <2>4. Singleton => r.messages = q.messages
      BY DEF Retire, StoreOK, StoreType
    <2> HIDE DEF r, left
    <2>5. StoreOK(Store', left, lastSeq + 1) /\ messages' = r.messages
      BY <2>1, <2>3, CommitOK
    <2> QED
      BY <1>3, <1>4, <2>1, <2>4, <2>5 DEF OK, Single
  <1> QED
    BY <1>5, <1>6

\* Overwriting the one message of a singleton topic keeps the invariant.
LEMMA PublishInPlaceOK ==
  ASSUME OK, PublishInPlace
  PROVE  OK'
  <1> DEFINE h == messages[1].handle
             e == [handle |-> h, seq |-> lastSeq + 1]
             ms == [messages EXCEPT ![1] = e]
             mem == [payload EXCEPT ![h] = lastSeq + 1]
             q == [messages |-> ms, bin |-> recycleBin, payload |-> mem,
                   allocated |-> allocated]
  <1>1. Published(q)
    BY DEF PublishInPlace
  <1>2. InOrder(messages, recycleBin, allocated, subscriptions, lastSeq)
    BY StoreFields DEF OK, StoreOK
  <1>3. messages \in Seq(Message) /\ messages # <<>> /\ Len(messages) = 1 /\ lastSeq \in Nat
    <2>1. messages \in Seq(Message) /\ messages # <<>> /\ Len(messages) <= 1 /\ lastSeq \in Nat
      BY <1>2 DEF PublishInPlace, InPlace, InOrder, OK, Single, Others
    <2> DEFINE N == Len(messages)
    <2>2. N \in Nat \ {0} /\ N <= 1
      BY <2>1, EmptySeq
    <2> HIDE DEF N
    <2>3. N = 1
      BY <2>2
    <2> QED
      BY <2>1, <2>3 DEF N
  <1>4. messages[1] \in Message /\ h \in Handles
    <2>1. messages[1] \in Message
      BY <1>3, ElementOfSeq
    <2> QED
      BY <2>1 DEF Message
  <1>5. /\ q = [messages |-> ms, bin |-> recycleBin, payload |-> mem, allocated |-> allocated]
        /\ q.messages = ms /\ q.bin = recycleBin
        /\ q.payload = mem /\ q.allocated = allocated
    OBVIOUS
  <1>6. /\ ms \in Seq(Message) /\ Len(ms) = 1
        /\ ms[1].handle = h /\ ms[1].seq = lastSeq + 1
    <2>1. e \in Message /\ e.handle = h /\ e.seq = lastSeq + 1
      BY <1>3, <1>4 DEF Message
    <2>2. 1 \in 1..Len(messages)
      BY <1>3
    <2> HIDE DEF e, h
    <2> QED
      BY <1>3, <2>1, <2>2, ExceptSeq
  <1>7. mem \in [Handles -> Nat]
    <2>1. payload \in [Handles -> Nat] /\ lastSeq + 1 \in Nat
      BY <1>3, StoreFields DEF OK, StoreOK, StoreType
    <2> HIDE DEF h, q
    <2> QED
      BY <2>1
  <1> HIDE DEF ms, mem, q
  <1>8. Apart(ms, recycleBin, allocated, subscriptions)
    <2>1. Apart(messages, recycleBin, allocated, subscriptions)
      BY <1>2 DEF InOrder
    <2>2. \A i \in 1..Len(ms) : i = 1 /\ ms[i].handle = messages[1].handle
      BY <1>6
    <2>3. 1 \in 1..Len(messages)
      BY <1>3
    <2> QED
      BY <2>1, <2>2, <2>3 DEF Apart
  <1>9. ~AllocFails =>
          Numbered(ms, lastSeq + 1) /\ Covered(ms, recycleBin, allocated, subscriptions)
    <2>1. Numbered(ms, lastSeq + 1)
      BY <1>3, <1>6 DEF Numbered
    <2>2. Covered(messages, recycleBin, allocated, subscriptions) =>
            Covered(ms, recycleBin, allocated, subscriptions)
      BY <1>3, <1>6 DEF Covered
    <2> QED
      BY <1>2, <2>1, <2>2 DEF InOrder
  <1>10. StoreOK(q, subscriptions, lastSeq + 1)
    <2>1. q.messages = ms /\ q.bin = recycleBin /\ q.allocated = allocated
      BY <1>5
    <2>2. q \in StoreType
      BY <1>2, <1>5, <1>6, <1>7 DEF StoreType, InOrder, Message
    <2>3. InOrder(ms, recycleBin, allocated, subscriptions, lastSeq + 1)
      BY <1>2, <1>6, <1>8, <1>9 DEF InOrder
    <2> QED
      BY <2>1, <2>2, <2>3 DEF StoreOK
  <1>11. Len(q.messages) <= 1
    BY <1>5, <1>6
  <1> QED
    BY <1>1, <1>10, <1>11, PublishedOK DEF OK

\* A payload that is recycled or allocated belongs to nobody else.
LEMMA TakeOK ==
  ASSUME OK, NEW h \in PayloadHandles
  PROVE  /\ h \in Handles /\ h \notin subscriptions
         /\ StoreOK(Take(h), subscriptions \cup {h}, lastSeq)
         /\ Take(h).messages = messages
  <1> DEFINE less == IF recycleBin = <<>> THEN <<>>
                     ELSE SubSeq(recycleBin, 1, Len(recycleBin) - 1)
             q == Take(h)
  <1>1. /\ InOrder(messages, recycleBin, allocated, subscriptions, lastSeq)
        /\ payload \in [Handles -> Nat] /\ lastSeq \in Nat
    BY StoreFields DEF OK, StoreOK, StoreType, Others
  <1>2. /\ h \in Handles /\ h \notin subscriptions
        /\ InOrder(messages, less, allocated \cup {h}, subscriptions \cup {h}, lastSeq)
    <2>1. CASE recycleBin = <<>>
      <3>1. h \in Handles /\ h \notin allocated
        BY <2>1 DEF PayloadHandles
      <3>2. h \notin subscriptions
        BY <1>1, <3>1 DEF InOrder, Apart
      <3>3. Apart(messages, recycleBin, allocated \cup {h}, subscriptions \cup {h})
        BY <1>1, <3>1 DEF InOrder, Apart
      <3>4. Covered(messages, recycleBin, allocated, subscriptions) =>
              Covered(messages, recycleBin, allocated \cup {h}, subscriptions \cup {h})
        BY DEF Covered
      <3>5. allocated \cup {h} \in SUBSET Handles
        BY <1>1, <3>1 DEF InOrder
      <3>6. InOrder(messages, recycleBin, allocated \cup {h}, subscriptions \cup {h}, lastSeq)
        BY <1>1, <3>3, <3>4, <3>5 DEF InOrder
      <3> QED
        BY <2>1, <3>1, <3>2, <3>6
    <2>2. CASE recycleBin # <<>>
      <3>1. h = recycleBin[Len(recycleBin)]
        BY <2>2 DEF PayloadHandles
      <3>2. /\ h \in Handles /\ h \notin subscriptions /\ h \in allocated
            /\ InOrder(messages, less, allocated, subscriptions \cup {h}, lastSeq)
        BY <1>1, <2>2, <3>1, PopInOrder
      <3>3. allocated \cup {h} = allocated
        BY <3>2
      <3> QED
        BY <3>2, <3>3
    <2> QED
      BY <2>1, <2>2
  <1>3. q = [messages |-> messages, bin |-> less,
             payload |-> [payload EXCEPT ![h] = lastSeq + 1],
             allocated |-> allocated \cup {h}]
    BY DEF Take
  <1> HIDE DEF less, q
  <1>4. [payload EXCEPT ![h] = lastSeq + 1] \in [Handles -> Nat]
    <2>1. lastSeq + 1 \in Nat
      BY <1>1
    <2> QED
      BY <1>1, <2>1
  <1>5. q \in StoreType
    BY <1>2, <1>3, <1>4 DEF StoreType, InOrder, Message
  <1>6. /\ q.messages = messages /\ q.bin = less /\ q.allocated = allocated \cup {h}
    BY <1>3
  <1>7. StoreOK(q, subscriptions \cup {h}, lastSeq)
    BY <1>2, <1>5, <1>6 DEF StoreOK
  <1> QED
    BY <1>2, <1>6, <1>7 DEF q

\* A full queue gives up its oldest messages.
LEMMA MakeRoomOK ==
  ASSUME NEW q, NEW others, NEW last \in Nat, StoreOK(q, others, last)
  PROVE  /\ StoreOK(MakeRoom(q), others, last)
         /\ q.messages = <<>> => MakeRoom(q).messages = <<>>
  <1> DEFINE N == Len(q.messages)
             k == IF N >= MaxMessageCount THEN N - MaxMessageCount + 1 ELSE 0
  <1>1. N \in Nat /\ MaxMessageCount \in Nat \ {0}
    BY LenProperties, ShmTopicAssumption DEF StoreOK, InOrder
  <1>2. MakeRoom(q) = RetireFirst(q, k)
    BY DEF MakeRoom
  <1>0. N = Len(q.messages)
    OBVIOUS
  <1> HIDE DEF N
  <1>3. k \in 0..N /\ (N = 0 => k = 0)
    BY <1>1
  <1> HIDE DEF k
  <1>4. StoreOK(RetireFirst(q, k), others, last)
    BY <1>0, <1>3, RetireFirstOK
  <1>5. ASSUME q.messages = <<>> PROVE RetireFirst(q, k).messages = <<>>
    <2>1. N = 0
      BY <1>0, <1>5
    <2>2. RetireFirst(q, k).messages = SubSeq(<<>>, 1, 0)
      BY <1>0, <1>3, <1>5, <2>1 DEF RetireFirst
    <2> QED
      BY <2>2, SubSeqEmpty
  <1> QED
    BY <1>2, <1>4, <1>5

\* A store with other messages has its bin and its memory unchanged.
LEMMA WithMessages ==
  ASSUME NEW q \in StoreType, NEW ms \in Seq(Message)
  PROVE  LET r == [q EXCEPT !.messages = ms]
         IN  /\ r.messages = ms /\ r.bin = q.bin /\ r.allocated = q.allocated
             /\ r \in StoreType
  BY DEF StoreType, Message

\* Publishing to a queue keeps the invariant ...
LEMMA PublishNewOK ==
  ASSUME OK, PublishNew
  PROVE  OK'
  <1>1. PICK h \in PayloadHandles :
          Published([MakeRoom(Take(h)) EXCEPT
                       !.messages = Append(@, [handle |-> h, seq |-> lastSeq + 1])])
    BY DEF PublishNew
  <1> DEFINE room == MakeRoom(Take(h))
             e == [handle |-> h, seq |-> lastSeq + 1]
             q == [room EXCEPT !.messages = Append(@, e)]
  <1>2. lastSeq \in Nat /\ h \in Handles /\ h \notin subscriptions
    BY TakeOK DEF OK, Others
  <1>3. StoreOK(room, subscriptions \cup {h}, lastSeq)
    BY <1>2, TakeOK, MakeRoomOK
  <1>4. Singleton => room.messages = <<>>
    BY <1>2, TakeOK, MakeRoomOK DEF PublishNew, InPlace
  <1> HIDE DEF room
  <1>6. InOrder(Append(room.messages, e), room.bin, room.allocated, subscriptions, lastSeq + 1)
    BY <1>2, <1>3, AppendInOrder DEF StoreOK
  <1>5. /\ q.messages = Append(room.messages, e) /\ q.bin = room.bin
        /\ q.allocated = room.allocated /\ q \in StoreType
    <2>1. room \in StoreType /\ Append(room.messages, e) \in Seq(Message)
      BY <1>3, <1>6 DEF StoreOK, InOrder
    <2> HIDE DEF e
    <2> QED
      BY <2>1, WithMessages
  <1> HIDE DEF q, e
  <1>8. StoreOK(q, subscriptions, lastSeq + 1)
    BY <1>5, <1>6 DEF StoreOK
  <1>9. ASSUME Singleton PROVE Len(q.messages) <= 1
    <2>1. q.messages = Append(<<>>, e)
      BY <1>4, <1>5, <1>9
    <2> QED
      BY <2>1
  <1>10. Published(q)
    BY <1>1 DEF q, room, e
  <1> QED
    BY <1>8, <1>9, <1>10, PublishedOK DEF OK

\* With failures only ownership counts, whatever the sequence number.
LEMMA FailingOK ==
  ASSUME NEW q, NEW others, NEW subs \in SUBSET others, NEW last, NEW newLast,
         AllocFails, StoreOK(q, others, last)
  PROVE  StoreOK(q, subs, newLast)
  BY DEF StoreOK, InOrder, Apart

\* ... also when there is no memory for the payload ...
LEMMA PublishRefusedOK ==
  ASSUME OK, PublishRefused
  PROVE  OK'
  <1>1. Store' = Store /\ subscriptions' = subscriptions
    BY DEF PublishRefused, Store
  <1>2. StoreOK(Store, subscriptions, lastSeq')
    BY FailingOK DEF OK, PublishRefused
  <1>3. Others' /\ Single'
    BY DEF OK, PublishRefused, Others, Single
  <1> QED
    BY <1>1, <1>2, <1>3 DEF OK

\* ... or none for the entry of the queue.
LEMMA PublishThrowsOK ==
  ASSUME OK, PublishThrows
  PROVE  OK'
  <1>1. /\ AllocFails /\ lastSeq' = lastSeq + 1 /\ lastSeq \in Nat
        /\ UNCHANGED <<subscriptions, subData, reader, aborted>>
    BY DEF PublishThrows, OK, Others
  <1>2. Others'
    BY <1>1 DEF OK, Others
  <1>3. CASE InPlace
    <2>0. PICK left \in {payload[messages[1].handle], Garbage} :
            Commit([Store EXCEPT !.payload = [@ EXCEPT ![messages[1].handle] = left]])
      BY <1>3 DEF PublishThrows
    <2> DEFINE q == [Store EXCEPT !.payload = [@ EXCEPT ![messages[1].handle] = left]]
    <2>1. Commit(q)
      BY <2>0
    <2>2. /\ q.messages = Store.messages /\ q.bin = Store.bin
          /\ q.allocated = Store.allocated /\ q \in StoreType
      <3>1. messages[1].handle \in Handles
        <4>1. messages \in Seq(Message) /\ 1 \in 1..Len(messages)
          BY <1>3, StoreFields, EmptySeq, LenProperties DEF InPlace, OK, StoreOK, InOrder
        <4>2. messages[1] \in Message
          BY <4>1, ElementOfSeq
        <4> QED
          BY <4>2 DEF Message
      <3>2. left \in Nat
        BY <2>0, <3>1, StoreFields DEF OK, StoreOK, StoreType, Garbage
      <3> QED
        BY <3>2 DEF OK, StoreOK, StoreType
    <2> HIDE DEF q
    <2>3. StoreOK(q, subscriptions, lastSeq)
      BY <2>2 DEF OK, StoreOK
    <2>4. StoreOK(q, subscriptions, lastSeq + 1)
      BY <1>1, <2>3, FailingOK
    <2>5. messages' = messages
      BY <2>1, <2>2, StoreFields DEF Commit
    <2> QED
      BY <1>1, <1>2, <2>1, <2>4, <2>5, CommitOK DEF OK, Single
  <1>4. CASE ~InPlace
    <2>1. PICK h \in PayloadHandles : Commit(Take(h)) \/ Commit(MakeRoom(Take(h)))
      BY <1>4 DEF PublishThrows
    <2>2. StoreOK(Take(h), subscriptions \cup {h}, lastSeq) /\ Take(h).messages = messages
      BY TakeOK
    <2>3. /\ StoreOK(MakeRoom(Take(h)), subscriptions \cup {h}, lastSeq)
          /\ messages = <<>> => MakeRoom(Take(h)).messages = <<>>
      BY <1>1, <2>2, MakeRoomOK
    <2>4. /\ StoreOK(Take(h), subscriptions, lastSeq + 1)
          /\ StoreOK(MakeRoom(Take(h)), subscriptions, lastSeq + 1)
      BY <1>1, <2>2, <2>3, FailingOK
    <2>5. StoreOK(Store', subscriptions, lastSeq + 1)
      BY <2>1, <2>4, CommitOK
    <2>6. Single'
      <3>1. Singleton => messages = <<>>
        BY <1>4 DEF InPlace
      <3>2. Singleton => messages' = <<>>
        BY <2>1, <2>2, <2>3, <3>1 DEF Commit
      <3> QED
        BY <3>2 DEF Single
    <2> QED
      BY <1>1, <1>2, <2>5, <2>6 DEF OK
  <1> QED
    BY <1>3, <1>4

\* A subscription is a new object, with the last number as the one it has read.
LEMMA SubscribeOK ==
  ASSUME OK, NEW r \in Readers, Subscribe(r)
  PROVE  OK'
  <1>1. PICK h \in Handles \ allocated, qos \in SubscriptionQos :
          /\ allocated' = allocated \cup {h}
          /\ subData' = [subData EXCEPT ![h] = [qos |-> qos, latest |-> lastSeq]]
          /\ subscriptions' = subscriptions \cup {h}
          /\ reader' = [reader EXCEPT ![r] = h]
    BY DEF Subscribe
  <1>2. UNCHANGED <<messages, recycleBin, lastSeq, payload, aborted>>
    BY DEF Subscribe
  <1>3. Others'
    <2>1. [qos |-> qos, latest |-> lastSeq] \in [qos : SubscriptionQos, latest : Nat]
      BY DEF OK, Others
    <2>2. subData' \in [Handles -> [qos : SubscriptionQos, latest : Nat]]
      BY <1>1, <2>1 DEF OK, Others
    <2>3. reader' \in [Readers -> Handles \cup {NoHandle}]
      BY <1>1 DEF OK, Others
    <2> QED
      BY <1>1, <1>2, <2>2, <2>3 DEF OK, Others
  <1>4. /\ InOrder(messages, recycleBin, allocated, subscriptions, lastSeq)
        /\ payload \in [Handles -> Nat]
    BY StoreFields DEF OK, StoreOK, StoreType
  <1>5. Apart(messages, recycleBin, allocated \cup {h}, subscriptions \cup {h})
    BY <1>4 DEF InOrder, Apart
  <1>6. Covered(messages, recycleBin, allocated, subscriptions) =>
          Covered(messages, recycleBin, allocated \cup {h}, subscriptions \cup {h})
    BY DEF Covered
  <1>7. InOrder(messages, recycleBin, allocated \cup {h}, subscriptions \cup {h}, lastSeq)
    BY <1>4, <1>5, <1>6 DEF InOrder
  <1>8. Store' = [messages |-> messages, bin |-> recycleBin, payload |-> payload,
                  allocated |-> allocated \cup {h}]
    BY <1>1, <1>2 DEF Store
  <1>9. Store' \in StoreType
    BY <1>4, <1>7, <1>8 DEF StoreType, InOrder, Message
  <1>10. StoreOK(Store', subscriptions', lastSeq')
    BY <1>1, <1>2, <1>7, <1>8, <1>9 DEF StoreOK
  <1> QED
    BY <1>2, <1>3, <1>10 DEF OK, Single

\* One that cannot be entered leaves its object without an owner.
LEMMA SubscribeThrowsOK ==
  ASSUME OK, NEW r \in Readers, SubscribeThrows(r)
  PROVE  OK'
  <1>1. PICK h \in Handles \ allocated : allocated' = allocated \cup {h}
    BY DEF SubscribeThrows
  <1>2. /\ AllocFails
        /\ UNCHANGED <<messages, recycleBin, lastSeq, subscriptions, subData, payload,
                       reader, aborted>>
    BY DEF SubscribeThrows
  <1>3. Others' /\ Single'
    BY <1>2 DEF OK, Others, Single
  <1>4. /\ InOrder(messages, recycleBin, allocated, subscriptions, lastSeq)
        /\ payload \in [Handles -> Nat]
    BY StoreFields DEF OK, StoreOK, StoreType
  <1>5. Apart(messages, recycleBin, allocated \cup {h}, subscriptions)
    BY <1>4 DEF InOrder, Apart
  <1>6. InOrder(messages, recycleBin, allocated \cup {h}, subscriptions, lastSeq)
    BY <1>2, <1>4, <1>5 DEF InOrder
  <1>7. Store' = [messages |-> messages, bin |-> recycleBin, payload |-> payload,
                  allocated |-> allocated \cup {h}]
    BY <1>1, <1>2 DEF Store
  <1>8. Store' \in StoreType
    BY <1>4, <1>6, <1>7 DEF StoreType, InOrder, Message
  <1> QED
    BY <1>2, <1>3, <1>6, <1>7, <1>8 DEF OK, StoreOK

\* What Unsubscribe and Deliver have in common: a store is retired.
LEMMA RetiredOK ==
  ASSUME NEW q, NEW subs, NEW data, StoreOK(q, subs, lastSeq), lastSeq \in Nat,
         Singleton => Len(q.messages) <= 1, Commit(Retire(q, subs, data))
  PROVE  StoreOK(Store', subs, lastSeq) /\ Single'
  <1> DEFINE r == Retire(q, subs, data)
  <1>1. StoreOK(r, subs, lastSeq)
    BY RetireOK
  <1>2. Singleton => r.messages = q.messages
    BY DEF Retire
  <1> HIDE DEF r
  <1>3. StoreOK(Store', subs, lastSeq) /\ messages' = r.messages
    BY <1>1, CommitOK DEF r
  <1> QED
    BY <1>2, <1>3 DEF Single

\* The object of a subscription that ends is destroyed.
LEMMA UnsubscribeOK ==
  ASSUME OK, NEW r \in Readers, Unsubscribe(r)
  PROVE  OK'
  <1> DEFINE h == reader[r]
             left == subscriptions \ {h}
             q == [Store EXCEPT !.allocated = @ \ {h}]
  <1>1. /\ h \in subscriptions /\ subscriptions' = left
        /\ subData' = [subData EXCEPT ![h] = NoData]
        /\ Commit(Retire(q, left, subData))
        /\ reader' = [reader EXCEPT ![r] = NoHandle]
        /\ UNCHANGED <<lastSeq, aborted>>
    BY DEF Unsubscribe
  <1>2. Others'
    <2>1. NoData \in [qos : SubscriptionQos, latest : Nat]
      BY DEF NoData, SubscriptionQos
    <2>2. subData' \in [Handles -> [qos : SubscriptionQos, latest : Nat]]
      BY <1>1, <2>1 DEF OK, Others
    <2>3. reader' \in [Readers -> Handles \cup {NoHandle}]
      BY <1>1 DEF OK, Others
    <2> QED
      BY <1>1, <2>2, <2>3 DEF OK, Others
  <1>3. StoreOK(q, left, lastSeq)
    <2>1. {h} \in SUBSET subscriptions
      BY <1>1
    <2> QED
      BY <2>1, DropOK DEF OK
  <1>4. q.messages = messages
    BY DEF Store
  <1> HIDE DEF q, left
  <1>5. Singleton => Len(q.messages) <= 1
    BY <1>4 DEF OK, Single
  <1>6. StoreOK(Store', left, lastSeq) /\ Single'
    BY <1>1, <1>3, <1>5, RetiredOK DEF OK, Others
  <1> QED
    BY <1>1, <1>2, <1>6 DEF OK

\* A reader that is given messages lets some of them be retired.
LEMMA DeliverOK ==
  ASSUME OK, NEW r \in Readers, reader[r] \in subscriptions,
         NEW i, NEW j \in 1..Len(messages), Deliver(r, i, j)
  PROVE  OK'
  <1> DEFINE data == [subData EXCEPT ![reader[r]].latest = messages[j].seq]
  <1>1. /\ subData' = data /\ Commit(Retire(Store, subscriptions, data))
        /\ UNCHANGED <<lastSeq, subscriptions, reader, aborted>>
    BY DEF Deliver
  <1>2. messages[j].seq \in Nat
    <2>1. messages \in Seq(Message)
      BY StoreFields DEF OK, StoreOK, InOrder
    <2>2. messages[j] \in Message
      BY <2>1, ElementOfSeq
    <2> QED
      BY <2>2 DEF Message
  <1>3. data \in [Handles -> [qos : SubscriptionQos, latest : Nat]]
    BY <1>2 DEF OK, Others
  <1> HIDE DEF data
  <1>4. Others'
    BY <1>1, <1>3 DEF OK, Others
  <1>5. StoreOK(Store', subscriptions, lastSeq) /\ Single'
    BY <1>1, StoreFields, RetiredOK DEF OK, Others, Single
  <1> QED
    BY <1>1, <1>4, <1>5 DEF OK

\* Without failures the asserted conditions hold wherever a reader may stand.
LEMMA LookupOK ==
  ASSUME OK, ~AllocFails, NEW last \in Nat
  PROVE  LookupAsserts(last)
  <1> DEFINE N == Len(messages)
  <1>1. /\ messages \in Seq(Message) /\ N \in Nat /\ lastSeq \in Nat
        /\ \A i \in 1..N : messages[i].seq = lastSeq - N + i
    BY StoreFields, LenProperties DEF OK, StoreOK, InOrder, Numbered, Others
  <1>2. N = Len(messages)
    OBVIOUS
  <1> HIDE DEF N
  <1>3. SUFFICES ASSUME Between(last + 1)
                 PROVE  LET k == last - messages[1].seq + 2
                        IN  k \in 1..N /\ messages[k].seq = last + 1
    BY <1>2 DEF LookupAsserts, LookupNext
  <1>4. messages # <<>> /\ messages[1].seq < last + 1 /\ last + 1 <= messages[N].seq
    BY <1>2, <1>3 DEF Between
  <1>5. N \in Nat \ {0}
    BY <1>1, <1>2, <1>4, EmptySeq
  <1>6. messages[1].seq = lastSeq - N + 1 /\ messages[N].seq = lastSeq
    BY <1>1, <1>5
  <1>7. last - messages[1].seq + 2 \in 1..N
    BY <1>1, <1>4, <1>5, <1>6
  <1> QED
    BY <1>1, <1>6, <1>7

\* So the three ways to read keep the invariant.
LEMMA ReadOK ==
  ASSUME OK, NEW r \in Readers, ReadLatest(r) \/ ReadNext(r) \/ ReadAll(r)
  PROVE  OK'
  <1>1. messages \in Seq(Message) /\ Len(messages) \in Nat /\ lastSeq \in Nat
    BY StoreFields, LenProperties DEF OK, StoreOK, InOrder, Others
  <1>2. CASE ReadLatest(r)
    <2>1. Len(messages) \in 1..Len(messages)
      BY <1>1, <1>2, EmptySeq DEF ReadLatest
    <2> QED
      BY <1>2, <2>1, DeliverOK DEF ReadLatest
  <1>3. ASSUME ReadNext(r) \/ ReadAll(r)
        PROVE  OK'
    <2> DEFINE k == LookupNext(Last(r))
    <2>1. /\ reader[r] \in subscriptions /\ LookupAsserts(Last(r)) /\ k <= Len(messages)
          /\ Deliver(r, k, k) \/ Deliver(r, k, Len(messages))
      BY <1>3 DEF ReadNext, ReadAll
    <2>2. k \in 1..Len(messages)
      <3>1. CASE Between(Last(r) + 1)
        BY <2>1, <3>1 DEF LookupAsserts
      <3>2. CASE ~Between(Last(r) + 1)
        <4>1. k = 1 \/ k = Len(messages) + 1
          BY <3>2 DEF LookupNext
        <4> HIDE DEF k
        <4>2. k # Len(messages) + 1
          BY <1>1, <2>1
        <4> QED
          BY <1>1, <2>1, <4>1, <4>2
      <3> QED
        BY <3>1, <3>2
    <2>3. Len(messages) \in 1..Len(messages)
      BY <1>1, <2>2
    <2> QED
      BY <2>1, <2>2, <2>3, DeliverOK
  <1> QED
    BY <1>2, <1>3

\* Steps that leave the segment alone keep it.
LEMMA UnchangedOK ==
  ASSUME OK, UNCHANGED <<messages, recycleBin, lastSeq, subscriptions, subData,
                         payload, allocated>>,
         reader' \in [Readers -> Handles \cup {NoHandle}], aborted' \subseteq Readers,
         ~AllocFails => aborted' = {}
  PROVE  OK'
  <1>1. Store' = Store
    BY DEF Store
  <1> QED
    BY <1>1 DEF OK, Others, Single

\* Every step keeps the invariant.
LEMMA NextOK ==
  ASSUME OK, [Next]_vars
  PROVE  OK'
  <1>1. CASE PublishInPlace
    BY <1>1, PublishInPlaceOK
  <1>2. CASE PublishNew
    BY <1>2, PublishNewOK
  <1>3. CASE PublishRefused
    BY <1>3, PublishRefusedOK
  <1>4. CASE PublishThrows
    BY <1>4, PublishThrowsOK
  <1>5. ASSUME NEW r \in Readers,
               \/ Subscribe(r) \/ SubscribeThrows(r)
               \/ Unsubscribe(r) \/ Abandon(r)
               \/ Reads(r)
        PROVE  OK'
    <2>1. CASE Subscribe(r) \/ SubscribeThrows(r)
      BY <2>1, SubscribeOK, SubscribeThrowsOK
    <2>2. CASE Unsubscribe(r)
      BY <2>2, UnsubscribeOK
    <2>3. CASE Abandon(r)
      <3>1. reader' \in [Readers -> Handles \cup {NoHandle}]
        BY <2>3 DEF Abandon, OK, Others
      <3> QED
        BY <2>3, <3>1, UnchangedOK DEF Abandon, OK, Others
    <2>4. CASE ReadLatest(r) \/ ReadNext(r) \/ ReadAll(r)
      BY <2>4, ReadOK
    <2>5. CASE ReadAborts(r)
      <3>1. subData[reader[r]] \in [qos : SubscriptionQos, latest : Nat]
        BY <2>5 DEF ReadAborts, OK, Others
      <3>2. Last(r) \in Nat
        BY <3>1 DEF Last
      <3>3. AllocFails
        BY <2>5, <3>2, LookupOK, ShmTopicAssumption DEF ReadAborts
      <3> QED
        BY <2>5, <3>3, UnchangedOK DEF ReadAborts, OK, Others
    <2> QED
      BY <1>5, <2>1, <2>2, <2>3, <2>4, <2>5 DEF Reads
  <1>6. CASE UNCHANGED vars
    BY <1>6, UnchangedOK DEF vars, OK, Others
  <1> QED
    BY <1>1, <1>2, <1>3, <1>4, <1>5, <1>6 DEF Next, Publish, ReadNothing

\* An empty topic has it.
LEMMA InitOK == Init => OK
  <1> SUFFICES ASSUME Init PROVE OK
    OBVIOUS
  <1>1. InOrder(messages, recycleBin, allocated, subscriptions, lastSeq)
    BY ShmTopicAssumption DEF Init, InOrder, Apart, Numbered, Covered
  <1>2. NoData \in [qos : SubscriptionQos, latest : Nat]
    BY DEF NoData, SubscriptionQos
  <1>3. Others
    BY <1>2 DEF Init, Others
  <1>4. payload \in [Handles -> Nat] /\ Len(messages) = 0
    BY DEF Init, Garbage
  <1>5. Store \in StoreType
    BY <1>1, <1>4 DEF Store, StoreType, InOrder, Message
  <1> QED
    BY <1>1, <1>3, <1>4, <1>5, StoreFields DEF OK, StoreOK, Single

(* The inductive invariant holds in every reachable state.                 *)
THEOREM TypeAndOwnership == Spec => []IInv
  <1>1. OK /\ [Next]_vars => OK'
    BY NextOK
  <1>2. IInv <=> OK
    BY IInvForm DEF OK
  <1> QED
    BY <1>1, <1>2, InitOK, PTL DEF Spec

(* Whatever fails, no object of the segment has two owners, and none that  *)
(* has an owner is destroyed.                                              *)
THEOREM NoObjectHasTwoOwners == Spec => []AtMostOneOwner
  <1>1. IInv => AtMostOneOwner
    BY DEF IInv
  <1> QED
    BY <1>1, TypeAndOwnership, PTL

(* While allocation succeeds, the assertions of lookupNextMessage_ never   *)
(* fail, for any number of readers and any interleaving of the calls.      *)
THEOREM LookupNeverAsserts == ASSUME ~AllocFails PROVE Spec => []LookupHolds
  <1>1. IInv => LookupHolds
    BY DEF IInv
  <1> QED
    BY <1>1, TypeAndOwnership, PTL

(* While allocation succeeds, no object of the segment is lost.            *)
THEOREM NoObjectIsLost == Spec => []NothingLeaks
  <1>1. IInv => NothingLeaks
    BY DEF IInv
  <1> QED
    BY <1>1, TypeAndOwnership, PTL

-----------------------------------------------------------------------------
(* What readers get.                                                       *)

\* Retirement takes messages from the front and the payloads of no others.
LEMMA RetireFirstFaithful ==
  ASSUME NEW q, NEW others, NEW last, StoreOK(q, others, last), Faithful(q),
         NEW k \in 0..Len(q.messages)
  PROVE  LET r == RetireFirst(q, k)
         IN  /\ Len(r.messages) = Len(q.messages) - k
             /\ \A i \in 1..(Len(q.messages) - k) : r.messages[i] = q.messages[k + i]
             /\ \A h \in others : r.payload[h] = q.payload[h]
             /\ Faithful(r)
<1> DEFINE ms == q.messages
           N == Len(ms)
           n == IF k <= MaxTrash - Len(q.bin) THEN k ELSE MaxTrash - Len(q.bin)
           gone == {ms[i].handle : i \in (n + 1)..k}
           r == RetireFirst(q, k)
           rest == SubSeq(ms, k + 1, N)
<1>1. /\ InOrder(ms, q.bin, q.allocated, others, last)
      /\ ms \in Seq(Message) /\ q.allocated \in SUBSET Handles /\ N \in Nat
      /\ Apart(ms, q.bin, q.allocated, others)
  BY LenProperties DEF StoreOK, InOrder
<1>2. n \in 0..k
  BY <1>1, ShortBin
<1>3. /\ r.messages = rest
      /\ r.payload = [h \in Handles |-> IF h \in gone THEN Garbage ELSE q.payload[h]]
  BY DEF RetireFirst
<1>4. /\ \A h \in gone : \E i \in (n + 1)..k : h = ms[i].handle
  OBVIOUS
<1> HIDE DEF n, gone, r
<1>5. /\ Len(rest) = N - k
      /\ \A i \in 1..(N - k) : rest[i] = ms[k + i]
  <2>1. k + 1 \in Int /\ N \in Int /\ \A i \in (k + 1)..N : ms[i] \in Message
    <3>1. \A i \in (k + 1)..N : i \in 1..N
      BY <1>1
    <3> QED
      BY <1>1, <3>1, ElementOfSeq
  <2>2. /\ Len(rest) = IF k + 1 <= N THEN N - (k + 1) + 1 ELSE 0
        /\ \A i \in 1..(N - (k + 1) + 1) : rest[i] = ms[(k + 1) + i - 1]
    BY <2>1, SubSeqProperties
  <2> HIDE DEF rest, N
  <2>3. ASSUME NEW i \in 1..(N - k) PROVE rest[i] = ms[k + i]
    <3>1. i \in 1..(N - (k + 1) + 1) /\ (k + 1) + i - 1 = k + i
      BY <1>1
    <3> QED
      BY <2>2, <3>1
  <2>4. Len(rest) = N - k
    BY <1>1, <2>2 DEF N
  <2> QED
    BY <2>3, <2>4
<1> HIDE DEF rest
<1>6. \A i \in 1..N : i > k => ms[i].handle \notin gone /\ ms[i].handle \in Handles
  BY <1>1, <1>2, <1>4 DEF Apart
<1>7. ASSUME NEW h \in others PROVE r.payload[h] = q.payload[h]
  <2>1. h \in Handles
    BY <1>1 DEF Apart
  <2>2. h \notin gone
    <3>1. \A i \in (n + 1)..k : i \in 1..N
      BY <1>1, <1>2
    <3> QED
      BY <1>1, <1>4, <3>1 DEF Apart
  <2> QED
    BY <1>3, <2>1, <2>2
<1>8. Faithful(r)
  <2> SUFFICES ASSUME NEW i \in 1..(N - k)
               PROVE  r.payload[rest[i].handle] = rest[i].seq
    BY <1>3, <1>5 DEF Faithful
  <2>1. k + i \in 1..N /\ k + i > k /\ rest[i] = ms[k + i]
    BY <1>1, <1>5
  <2>2. r.payload[ms[k + i].handle] = q.payload[ms[k + i].handle]
    BY <1>3, <1>6, <2>1
  <2> QED
    BY <2>1, <2>2 DEF Faithful
<1> QED
  BY <1>3, <1>5, <1>7, <1>8 DEF r

\* A set of positions at the front of a queue has its number as its last one.
LEMMA LastOfPrefix ==
  ASSUME NEW n \in Nat, NEW S \in SUBSET (1..n), \A i \in S : \A j \in 1..i : j \in S
  PROVE  /\ Cardinality(S) \in 0..n
         /\ Cardinality(S) # 0 => Cardinality(S) \in S
<1> DEFINE c == Cardinality(S)
<1>1. /\ IsFiniteSet(1..n) /\ Cardinality(1..n) = n
      /\ IsFiniteSet(S) /\ c <= n
  <2>1. IsFiniteSet(1..n) /\ Cardinality(1..n) = n
    BY PositionsFinite
  <2> QED
    BY <2>1, FS_Subset
<1>2. c \in Nat
  BY <1>1, FS_CardinalityType
<1>3. ASSUME c # 0, c \notin S PROVE FALSE
  <2> HIDE DEF c
  <2>1. c - 1 \in Nat /\ \A i \in S : i \in 1..(c - 1)
    BY <1>2, <1>3
  <2>2. IsFiniteSet(1..(c - 1)) /\ Cardinality(1..(c - 1)) = c - 1
    BY <2>1, PositionsFinite
  <2>3. S \in SUBSET (1..(c - 1))
    BY <2>1
  <2>4. c <= c - 1
    BY <2>2, <2>3, FS_Subset DEF c
  <2> QED
    BY <1>2, <2>4
<1> HIDE DEF c
<1>4. c \in 0..n /\ (c # 0 => c \in S)
  BY <1>1, <1>2, <1>3
<1> QED
  BY <1>4 DEF c

\* What retireMessages_ retires has been passed by all, so nobody misses it.
LEMMA RetireKeeps ==
  ASSUME NEW q, NEW others, NEW last \in Nat, StoreOK(q, others, last), ~AllocFails,
         Faithful(q), NEW subs, NEW data, Kept(Len(q.messages), last, subs, data)
  PROVE  LET r == Retire(q, subs, data)
         IN  Faithful(r) /\ Kept(Len(r.messages), last, subs, data)
<1>1. CASE Singleton
  BY <1>1 DEF Retire
<1>2. CASE ~Singleton
  <2> DEFINE N == Len(q.messages)
             passed == {i \in 1..N : \A j \in 1..i : Passed(q.messages[j], subs, data)}
             k == Cardinality(passed)
             r == RetireFirst(q, k)
  <2>1. /\ N \in Nat /\ \A i \in 1..N : q.messages[i].seq = last - N + i
    BY LenProperties DEF StoreOK, InOrder, Numbered
  <2>2. passed \in SUBSET (1..N) /\ \A i \in passed : \A j \in 1..i : j \in passed
    BY <2>1
  <2>3. k \in 0..N /\ (k # 0 => k \in passed)
    <3> HIDE DEF N, passed
    <3> QED
      BY <2>1, <2>2, LastOfPrefix
  <2>4. k # 0 => \A h \in subs : last - N + k <= data[h].latest
    <3>1. k # 0 => k \in 1..N /\ k \in 1..k /\ \A j \in 1..k : Passed(q.messages[j], subs, data)
      BY <2>3
    <3> HIDE DEF k
    <3>2. k # 0 => Passed(q.messages[k], subs, data)
      BY <3>1
    <3> QED
      BY <2>1, <3>1, <3>2 DEF Passed
  <2>5. Retire(q, subs, data) = r
    BY <1>2 DEF Retire
  <2> HIDE DEF passed, k
  <2>6. Len(r.messages) = N - k /\ Faithful(r)
    BY <2>3, RetireFirstFaithful
  <2>7. Kept(N, last, subs, data)
    OBVIOUS
  <2> HIDE DEF r, N
  <2>8. Capacity \in Nat
    BY ShmTopicAssumption DEF Capacity
  <2>9. Kept(N - k, last, subs, data)
    <3>1. CASE k = 0
      BY <2>1, <2>7, <3>1
    <3>2. CASE k # 0
      <4>1. last - (N - k) = last - N + k
        BY <2>1, <2>3
      <4>2. N - k <= Capacity /\ N - k <= last
        BY <2>1, <2>3, <2>7, <2>8 DEF Kept
      <4> QED
        BY <2>4, <3>2, <4>1, <4>2 DEF Kept
    <3> QED
      BY <3>1, <3>2
  <2> QED
    BY <2>5, <2>6, <2>9
<1> QED
  BY <1>1, <1>2

-----------------------------------------------------------------------------
(* The steps, and what they are to a reader.                               *)

\* Where readers are, as TopicFeed sees it.
Mode == [r \in Readers |->
          IF reader[r] \in subscriptions THEN subData[reader[r]].qos ELSE "closed"]
Cursor == [r \in Readers |-> IF reader[r] \in subscriptions THEN Last(r) ELSE 0]

NothingFails == ~AllocFails /\ ~Limited

\* What the log and the queue are, number by number.
LEMMA Contents ==
  ASSUME OK, FeedInv, ~AllocFails
  PROVE  /\ lastSeq \in Nat /\ Len(log) = lastSeq /\ \A i \in 1..lastSeq : log[i] = i
         /\ log \in Seq(Nat)
         /\ messages \in Seq(Message) /\ Len(messages) \in 0..lastSeq
         /\ Len(messages) <= Capacity /\ Capacity \in Nat \ {0}
         /\ \A i \in 1..Len(messages) :
              /\ messages[i].seq = lastSeq - Len(messages) + i
              /\ payload[messages[i].handle] = lastSeq - Len(messages) + i
<1>1. /\ lastSeq \in Nat /\ messages \in Seq(Message) /\ Len(messages) \in Nat
      /\ \A i \in 1..Len(messages) : messages[i].seq = lastSeq - Len(messages) + i
  BY StoreFields, LenProperties DEF OK, StoreOK, InOrder, Numbered, Others
<1>2. \A i \in 1..Len(messages) : payload[messages[i].handle] = messages[i].seq
  BY StoreFields DEF FeedInv, Faithful
<1>3. Len(messages) <= Capacity /\ Len(messages) <= lastSeq
  BY DEF FeedInv, Kept
<1>4. Capacity \in Nat \ {0}
  BY ShmTopicAssumption DEF Capacity
<1>5. log = [i \in 1..lastSeq |-> i]
  BY DEF FeedInv
<1>6. /\ Len(log) = lastSeq /\ \A i \in 1..lastSeq : log[i] = i
      /\ log \in Seq(Nat)
  <2>1. \A i \in 1..lastSeq : i \in Nat
    BY <1>1
  <2> QED
    BY <1>1, <1>5, <2>1
<1> QED
  BY <1>1, <1>2, <1>3, <1>4, <1>6

\* A publish call that keeps every subscription adds one message to the log.
LEMMA PublishedFeeds ==
  ASSUME OK, FeedInv, NothingFails, lastSeq < MaxPublish, NEW q, Published(q),
         Faithful(q), Kept(Len(q.messages), lastSeq + 1, subscriptions, subData)
  PROVE  FeedInv' /\ Feed!Publish
<1>1. /\ subscriptions' = subscriptions /\ Commit(q)
      /\ subData' = [h \in Handles |-> subData[h]]
      /\ lastSeq' = lastSeq + 1 /\ log' = Append(log, lastSeq + 1)
      /\ UNCHANGED <<reader, reply>>
  BY DEF Published, Expired, NothingFails
<1>2. subData' = subData /\ lastSeq \in Nat /\ MaxPublish \in Nat
  BY <1>1, ShmTopicAssumption DEF OK, Others
<1>3. log' = [i \in 1..lastSeq' |-> i]
  <2>1. log = [i \in 1..lastSeq |-> i]
    BY DEF FeedInv
  <2>2. log \in Seq(Nat) /\ Len(log) = lastSeq
    BY Contents DEF NothingFails
  <2>3. /\ log' \in Seq(Nat) /\ Len(log') = lastSeq + 1 /\ log'[lastSeq + 1] = lastSeq + 1
        /\ \A i \in 1..lastSeq : log'[i] = log[i]
    BY <1>1, <1>2, <2>2, AppendProperties
  <2>4. \A i \in 1..(lastSeq + 1) : log'[i] = i
    BY <1>2, <2>1, <2>3
  <2>5. log' = [i \in 1..Len(log') |-> log'[i]]
    BY <2>3
  <2> QED
    BY <1>1, <2>3, <2>4, <2>5
<1>4. Faithful(Store)' /\ messages' = q.messages
  BY <1>1 DEF Store, Commit, Faithful
<1>5. \A h \in subscriptions : subData[h].latest <= lastSeq + 1
  <2>1. \A h \in subscriptions : subData[h].latest \in Nat /\ subData[h].latest <= lastSeq
    BY DEF FeedInv, OK, Others
  <2> QED
    BY <1>2, <2>1
<1>6. HandlesAreOwn'
  BY <1>1 DEF FeedInv, HandlesAreOwn
<1>7. FeedInv'
  <2>1. Kept(Len(messages), lastSeq, subscriptions, subData)'
    BY <1>1, <1>2, <1>4 DEF Kept
  <2>2. lastSeq' <= MaxPublish
    BY <1>1, <1>2
  <2> QED
    BY <1>1, <1>2, <1>3, <1>4, <1>5, <1>6, <2>1, <2>2 DEF FeedInv
<1>8. Mode' = Mode /\ Cursor' = Cursor
  BY <1>1, <1>2 DEF Mode, Cursor, Last
<1>9. Feed!Publish
  <2>1. lastSeq + 1 \in 1..MaxPublish
    BY <1>2
  <2>2. Mode' = [r \in Readers |-> IF r \in {} THEN "closed" ELSE Mode[r]]
    BY <1>8 DEF Mode
  <2>3. Cursor' = [r \in Readers |-> IF r \in {} THEN 0 ELSE Cursor[r]]
    BY <1>8 DEF Cursor
  <2>4. \E gone \in SUBSET Feed!Open :
          /\ Mode' = [r \in Readers |-> IF r \in gone THEN "closed" ELSE Mode[r]]
          /\ Cursor' = [r \in Readers |-> IF r \in gone THEN 0 ELSE Cursor[r]]
    <3>1. {} \in SUBSET Feed!Open
      OBVIOUS
    <3> QED
      BY <2>2, <2>3, <3>1, Zenon
  <2> QED
    BY <1>1, <2>1, <2>4 DEF Feed!Publish, Mode, Cursor
<1> QED
  BY <1>7, <1>9

\* In a singleton topic the new message takes the place of the old one.
LEMMA PublishInPlaceFeeds ==
  ASSUME OK, FeedInv, NothingFails, PublishInPlace
  PROVE  FeedInv' /\ Feed!Publish
<1> DEFINE h == messages[1].handle
           e == [handle |-> h, seq |-> lastSeq + 1]
           ms == [messages EXCEPT ![1] = e]
           mem == [payload EXCEPT ![h] = lastSeq + 1]
           q == [messages |-> ms, bin |-> recycleBin, payload |-> mem,
                 allocated |-> allocated]
<1>1. Published(q) /\ lastSeq < MaxPublish /\ Singleton /\ messages # <<>>
  BY DEF PublishInPlace, InPlace
<1>2. /\ messages \in Seq(Message) /\ Len(messages) = 1
      /\ payload \in [Handles -> Nat] /\ lastSeq \in Nat
  <2>1. /\ messages \in Seq(Message) /\ Len(messages) \in Nat /\ lastSeq \in Nat
        /\ Len(messages) <= 1
    BY <1>1, Contents DEF NothingFails, Capacity
  <2>2. Len(messages) # 0
    BY <1>1, <2>1, EmptySeq
  <2>3. payload \in [Handles -> Nat]
    BY StoreFields DEF OK, StoreOK, StoreType
  <2> DEFINE N == Len(messages)
  <2>4. N \in Nat /\ N <= 1 /\ N # 0
    BY <2>1, <2>2
  <2> HIDE DEF N
  <2>5. N = 1
    BY <2>4
  <2> QED
    BY <2>1, <2>3, <2>5 DEF N
<1>3. h \in Handles
  <2>1. 1 \in 1..Len(messages)
    BY <1>2
  <2>2. messages[1] \in Message
    BY <1>2, <2>1, ElementOfSeq
  <2> QED
    BY <2>2 DEF Message
<1>4. /\ Len(ms) = 1 /\ ms[1].handle = h /\ ms[1].seq = lastSeq + 1
  <2>1. e \in Message /\ e.handle = h /\ e.seq = lastSeq + 1
    BY <1>2, <1>3 DEF Message
  <2>2. 1 \in 1..Len(messages)
    BY <1>2
  <2> HIDE DEF e, h
  <2> QED
    BY <1>2, <2>1, <2>2, ExceptSeq
<1>5. mem[h] = lastSeq + 1
  BY <1>2, <1>3
<1>6. q.messages = ms /\ q.payload = mem
  OBVIOUS
<1> HIDE DEF ms, mem, q, h
<1>7. Faithful(q)
  <2>1. \A i \in 1..Len(q.messages) : i = 1
    <3>1. \A i \in 1..1 : i = 1
      OBVIOUS
    <3> QED
      BY <1>4, <1>6, <3>1
  <2> QED
    BY <1>4, <1>5, <1>6, <2>1 DEF Faithful
<1>8. Kept(Len(q.messages), lastSeq + 1, subscriptions, subData)
  <2>1. Len(q.messages) = 1 /\ Capacity = 1
    BY <1>1, <1>4, <1>6 DEF Capacity
  <2>2. Kept(1, lastSeq + 1, subscriptions, subData)
    BY <1>2, <2>1 DEF Kept
  <2> QED
    BY <2>1, <2>2
<1> QED
  BY <1>1, <1>7, <1>8, PublishedFeeds

\* In a queue it comes last, in an object that is in no other message.
LEMMA PublishNewFeeds ==
  ASSUME OK, FeedInv, NothingFails, PublishNew
  PROVE  FeedInv' /\ Feed!Publish
<1>1. PICK h \in PayloadHandles :
        Published([MakeRoom(Take(h)) EXCEPT
                     !.messages = Append(@, [handle |-> h, seq |-> lastSeq + 1])])
  BY DEF PublishNew
<1> DEFINE room == MakeRoom(Take(h))
           e == [handle |-> h, seq |-> lastSeq + 1]
           q == [room EXCEPT !.messages = Append(@, e)]
           N == Len(messages)
           k == IF N >= MaxMessageCount THEN N - MaxMessageCount + 1 ELSE 0
<1>2. /\ h \in Handles /\ h \notin subscriptions
      /\ StoreOK(Take(h), subscriptions \cup {h}, lastSeq)
      /\ Take(h).messages = messages
  BY TakeOK
<1>3. /\ N \in 0..lastSeq /\ N <= Capacity /\ Capacity \in Nat \ {0} /\ lastSeq \in Nat
      /\ MaxMessageCount \in Nat \ {0}
      /\ Singleton => N = 0 /\ Capacity = 1
      /\ ~Singleton => Capacity = MaxMessageCount
  BY Contents, ShmTopicAssumption DEF NothingFails, PublishNew, InPlace, Capacity
<1>4. payload \in [Handles -> Nat]
  BY StoreFields DEF OK, StoreOK, StoreType
<1>5. /\ Take(h).payload = [payload EXCEPT ![h] = lastSeq + 1]
      /\ Take(h).payload[h] = lastSeq + 1
  BY <1>2, <1>4 DEF Take
<1>6. Faithful(Take(h))
  <2>1. \A i \in 1..N : messages[i].handle # h /\ messages[i].handle \in Handles
    BY <1>2 DEF StoreOK, InOrder, Apart
  <2>2. \A i \in 1..N : payload[messages[i].handle] = messages[i].seq
    BY StoreFields DEF FeedInv, Faithful
  <2> QED
    BY <1>2, <1>4, <1>5, <2>1, <2>2 DEF Faithful
<1>7. MakeRoom(Take(h)) = RetireFirst(Take(h), k)
  BY <1>2 DEF MakeRoom
<1>8. k \in 0..N
  <2> HIDE DEF N
  <2> QED
    BY <1>3
<1>9. /\ Len(room.messages) = N - k
      /\ Faithful(room) /\ room.payload[h] = lastSeq + 1
  <2> HIDE DEF k
  <2>1. k \in 0..Len(Take(h).messages) /\ h \in subscriptions \cup {h}
    BY <1>2, <1>8
  <2>2. room = RetireFirst(Take(h), k)
    BY <1>7
  <2> HIDE DEF room
  <2>3. LET r == RetireFirst(Take(h), k)
        IN  /\ Len(r.messages) = Len(Take(h).messages) - k
            /\ \A x \in subscriptions \cup {h} : r.payload[x] = Take(h).payload[x]
            /\ Faithful(r)
    BY <1>2, <1>6, <2>1, RetireFirstFaithful
  <2> QED
    BY <1>2, <1>5, <2>1, <2>2, <2>3
<1>10. room \in StoreType /\ room.messages \in Seq(Message)
  BY <1>2, <1>3, MakeRoomOK DEF StoreOK, InOrder
<1> HIDE DEF room
<1>11. /\ q.messages = Append(room.messages, e) /\ q.payload = room.payload
       /\ Len(q.messages) = N - k + 1
       /\ q.messages[N - k + 1] = e /\ \A i \in 1..(N - k) : q.messages[i] = room.messages[i]
  <2>1. q.messages = Append(room.messages, e) /\ q.payload = room.payload
    BY <1>10 DEF StoreType
  <2>2. e \in Message
    BY <1>2, <1>3 DEF Message
  <2> HIDE DEF q, e, k, N
  <2> QED
    BY <1>9, <1>10, <2>1, <2>2, AppendProperties
<1> HIDE DEF q
<1>12. Faithful(q)
  <2>1. N - k \in Nat
    BY <1>3, <1>8
  <2>2. ASSUME NEW i \in 1..(N - k + 1)
        PROVE  q.payload[q.messages[i].handle] = q.messages[i].seq
    <3> HIDE DEF N, k
    <3>1. CASE i = N - k + 1
      BY <1>9, <1>11, <3>1
    <3>2. CASE i \in 1..(N - k)
      BY <1>9, <1>11, <3>2 DEF Faithful
    <3> QED
      BY <2>1, <3>1, <3>2
  <2> QED
    BY <1>11, <2>2 DEF Faithful
<1>13. Kept(Len(q.messages), lastSeq + 1, subscriptions, subData)
  <2>1. Kept(N, lastSeq, subscriptions, subData)
    BY DEF FeedInv
  <2>2. N - k + 1 = IF N = Capacity THEN N ELSE N + 1
    <3> HIDE DEF N
    <3> QED
      BY <1>3
  <2> HIDE DEF N, k
  <2>3. CASE N = Capacity
    <3>1. Len(q.messages) = Capacity
      BY <1>11, <2>2, <2>3
    <3>2. Capacity <= lastSeq + 1
      BY <1>3, <2>3
    <3>3. Kept(Capacity, lastSeq + 1, subscriptions, subData)
      BY <1>3, <3>2 DEF Kept
    <3> QED
      BY <3>1, <3>3
  <2>4. CASE N # Capacity
    <3>1. \A x \in subscriptions : lastSeq - N <= subData[x].latest
      BY <2>1, <2>4 DEF Kept
    <3>2. (lastSeq + 1) - (N + 1) = lastSeq - N /\ N + 1 <= Capacity /\ N + 1 <= lastSeq + 1
      BY <1>3, <2>4
    <3>3. Len(q.messages) = N + 1
      BY <1>11, <2>2, <2>4
    <3>4. Kept(N + 1, lastSeq + 1, subscriptions, subData)
      BY <3>1, <3>2 DEF Kept
    <3> QED
      BY <3>3, <3>4
  <2> QED
    BY <2>3, <2>4
<1>14. Published(q) /\ lastSeq < MaxPublish
  BY <1>1 DEF q, room, PublishNew
<1> QED
  BY <1>12, <1>13, <1>14, PublishedFeeds

\* A subscription starts at the end of the log.
LEMMA SubscribeFeeds ==
  ASSUME OK, FeedInv, NothingFails, NEW r \in Readers, Subscribe(r)
  PROVE  FeedInv' /\ Feed!Subscribe(r)
<1>1. PICK h \in Handles \ allocated, qos \in SubscriptionQos :
        /\ subData' = [subData EXCEPT ![h] = [qos |-> qos, latest |-> lastSeq]]
        /\ subscriptions' = subscriptions \cup {h}
        /\ reader' = [reader EXCEPT ![r] = h]
  BY DEF Subscribe
<1>2. /\ UNCHANGED <<messages, lastSeq, payload, log>> /\ reader[r] = NoHandle
      /\ reply' = [reply EXCEPT ![r] = <<>>]
  BY DEF Subscribe
<1>3. /\ subData \in [Handles -> [qos : SubscriptionQos, latest : Nat]]
      /\ reader \in [Readers -> Handles \cup {NoHandle}]
      /\ subscriptions \subseteq allocated /\ subscriptions \subseteq Handles
      /\ NoHandle \notin Handles /\ h \in Handles /\ h \notin subscriptions
      /\ lastSeq \in Nat /\ Len(messages) \in Nat
  BY <1>1, StoreFields, ShmTopicAssumption, LenProperties
     DEF OK, Others, StoreOK, InOrder, Apart
<1>4. /\ subData'[h].latest = lastSeq /\ subData'[h].qos = qos
      /\ \A x \in subscriptions : subData'[x] = subData[x]
  BY <1>1, <1>3
<1>5. /\ reader'[r] = h /\ h \in subscriptions'
      /\ \A s \in Readers : s # r => reader'[s] = reader[s]
      /\ \A s \in Readers : s # r => reader'[s] # h
      /\ \A s \in Readers : s # r => (reader'[s] \in subscriptions' <=> reader[s] \in subscriptions)
  BY <1>1, <1>3 DEF FeedInv, HandlesAreOwn
<1>6. FeedInv'
  <2>1. Faithful(Store)'
    BY <1>2, StoreFields DEF FeedInv, Faithful, Store
  <2>2. Kept(Len(messages), lastSeq, subscriptions, subData)'
    <3>1. Kept(Len(messages), lastSeq, subscriptions, subData)
      BY DEF FeedInv
    <3> DEFINE n == Len(messages)
    <3>2. n \in Nat /\ messages' = messages /\ lastSeq' = lastSeq
      BY <1>2, <1>3
    <3> HIDE DEF n
    <3>3. lastSeq - n <= subData'[h].latest
      BY <1>3, <1>4, <3>2
    <3>4. Kept(n, lastSeq, subscriptions, subData)
      BY <3>1 DEF n
    <3>5. Kept(n, lastSeq, subscriptions', subData')
      BY <1>1, <1>4, <3>3, <3>4 DEF Kept
    <3> QED
      BY <3>2, <3>5 DEF n
  <2>3. \A x \in subscriptions' : subData'[x].latest <= lastSeq'
    BY <1>1, <1>2, <1>3, <1>4 DEF FeedInv
  <2>4. HandlesAreOwn'
    BY <1>1, <1>3, <1>5 DEF FeedInv, HandlesAreOwn
  <2> QED
    BY <1>2, <2>1, <2>2, <2>3, <2>4 DEF FeedInv
<1>7. /\ Mode[r] = "closed"
      /\ Mode' = [Mode EXCEPT ![r] = qos] /\ Cursor' = [Cursor EXCEPT ![r] = lastSeq]
  <2>1. \A s \in Readers : Mode'[s] = IF s = r THEN qos ELSE Mode[s]
    BY <1>4, <1>5 DEF Mode
  <2>2. \A s \in Readers : Cursor'[s] = IF s = r THEN lastSeq ELSE Cursor[s]
    BY <1>4, <1>5 DEF Cursor, Last
  <2>3. Mode[r] = "closed"
    BY <1>2, <1>3 DEF Mode
  <2> QED
    BY <2>1, <2>2, <2>3 DEF Mode, Cursor
<1>8. lastSeq = Len(log) /\ qos \in {"all", "atMostOnce"}
  BY Contents DEF NothingFails, SubscriptionQos
<1>9. Feed!Subscribe(r)
  BY <1>2, <1>7, <1>8 DEF Feed!Subscribe, Feed!Open, Mode, Cursor
<1> QED
  BY <1>6, <1>9

\* A client that gives up its handle is no longer there, nor does it hold up
\* the others if its subscription is.
LEMMA ClosingFeeds ==
  ASSUME OK, NEW r \in Readers, HandlesAreOwn,
         reader' = [reader EXCEPT ![r] = NoHandle],
         subscriptions' \in {subscriptions, subscriptions \ {reader[r]}},
         \A h \in subscriptions' : subData'[h] = subData[h],
         UNCHANGED <<log, reply>>
  PROVE  HandlesAreOwn' /\ Feed!Close(r)
<1>1. /\ reader \in [Readers -> Handles \cup {NoHandle}]
      /\ NoHandle \notin subscriptions
  BY ShmTopicAssumption DEF OK, Others
<1>2. /\ reader'[r] = NoHandle
      /\ \A s \in Readers : s # r => reader'[s] = reader[s]
      /\ \A s \in Readers : s # r => (reader'[s] \in subscriptions' <=> reader[s] \in subscriptions)
      /\ reader'[r] \notin subscriptions'
  BY <1>1 DEF HandlesAreOwn
<1>3. HandlesAreOwn'
  BY <1>1, <1>2 DEF HandlesAreOwn
<1>4. /\ Mode' = [Mode EXCEPT ![r] = "closed"]
      /\ Cursor' = [Cursor EXCEPT ![r] = 0]
  <2>1. \A s \in Readers : Mode'[s] = IF s = r THEN "closed" ELSE Mode[s]
    BY <1>2 DEF Mode
  <2>2. \A s \in Readers : Cursor'[s] = IF s = r THEN 0 ELSE Cursor[s]
    BY <1>2 DEF Cursor, Last
  <2> QED
    BY <2>1, <2>2 DEF Mode, Cursor
<1> QED
  BY <1>3, <1>4 DEF Feed!Close, Mode, Cursor

\* What is left of the invariant when a store q is retired.
LEMMA RetiredFeeds ==
  ASSUME OK, FeedInv, NothingFails, NEW q, NEW others, StoreOK(q, others, lastSeq),
         q.messages = messages, q.payload = payload,
         NEW subs, NEW data, Kept(Len(messages), lastSeq, subs, data),
         Commit(Retire(q, subs, data)), UNCHANGED <<log, lastSeq>>,
         subscriptions' = subs, \A h \in subs : subData'[h] = data[h],
         \A h \in subs : data[h].latest <= lastSeq, HandlesAreOwn'
  PROVE  FeedInv'
<1> DEFINE r == Retire(q, subs, data)
<1>1. Faithful(q)
  BY StoreFields DEF FeedInv, Faithful
<1>2. lastSeq \in Nat
  BY DEF OK, Others
<1>3. Faithful(r) /\ Kept(Len(r.messages), lastSeq, subs, data)
  BY <1>1, <1>2, RetireKeeps DEF NothingFails
<1>4. messages' = r.messages /\ payload' = r.payload
  BY DEF Commit
<1> HIDE DEF r
<1>5. Faithful(Store)'
  BY <1>3, <1>4 DEF Faithful, Store
<1>6. Kept(Len(messages), lastSeq, subscriptions, subData)'
  BY <1>3, <1>4 DEF Kept
<1> QED
  BY <1>5, <1>6 DEF FeedInv

\* Ending a subscription.
LEMMA UnsubscribeFeeds ==
  ASSUME OK, FeedInv, NothingFails, NEW r \in Readers, Unsubscribe(r)
  PROVE  FeedInv' /\ Feed!Close(r)
<1> DEFINE h == reader[r]
           left == subscriptions \ {h}
           q == [Store EXCEPT !.allocated = @ \ {h}]
<1>1. /\ h \in subscriptions /\ subscriptions' = left
      /\ subData' = [subData EXCEPT ![h] = NoData]
      /\ Commit(Retire(q, left, subData))
      /\ reader' = [reader EXCEPT ![r] = NoHandle]
      /\ UNCHANGED <<lastSeq, reply, log>>
  BY DEF Unsubscribe
<1>2. StoreOK(q, left, lastSeq)
  <2>1. {h} \in SUBSET subscriptions
    BY <1>1
  <2> QED
    BY <2>1, DropOK DEF OK
<1>3. q.messages = messages /\ q.payload = payload
  BY DEF Store
<1>4. \A x \in left : subData'[x] = subData[x]
  BY <1>1 DEF OK, Others
<1>5. HandlesAreOwn' /\ Feed!Close(r)
  BY <1>1, <1>4, ClosingFeeds DEF FeedInv
<1>6. /\ Kept(Len(messages), lastSeq, left, subData)
      /\ \A x \in left : subData[x].latest <= lastSeq
  BY DEF FeedInv, Kept
<1> HIDE DEF q, left
<1>7. FeedInv'
  BY <1>1, <1>2, <1>3, <1>4, <1>5, <1>6, RetiredFeeds
<1> QED
  BY <1>5, <1>7

\* A client that drops the topic leaves its subscription behind.
LEMMA AbandonFeeds ==
  ASSUME OK, FeedInv, NothingFails, NEW r \in Readers, Abandon(r)
  PROVE  FeedInv' /\ Feed!Close(r)
<1>1. /\ reader' = [reader EXCEPT ![r] = NoHandle]
      /\ UNCHANGED <<messages, lastSeq, subscriptions, subData, payload, reply, log>>
  BY DEF Abandon
<1>2. HandlesAreOwn' /\ Feed!Close(r)
  BY <1>1, ClosingFeeds DEF FeedInv
<1>3. FeedInv'
  BY <1>1, <1>2 DEF FeedInv, Faithful, Store, Kept
<1> QED
  BY <1>2, <1>3

\* A reader that is given messages[i..j] is given these numbers of the log.
LEMMA DeliverFeeds ==
  ASSUME OK, FeedInv, NothingFails, NEW r \in Readers, reader[r] \in subscriptions,
         NEW j \in 1..Len(messages), NEW i \in 1..j, Deliver(r, i, j)
  PROVE  FeedInv' /\ Feed!Give(r, messages[i].seq, messages[j].seq)
<1> DEFINE N == Len(messages)
           old == lastSeq - N
           data == [subData EXCEPT ![reader[r]].latest = messages[j].seq]
           given == [k \in 1..(j - i + 1) |-> payload[messages[i + k - 1].handle]]
<1>1. /\ subData' = data /\ Commit(Retire(Store, subscriptions, data))
      /\ reply' = [reply EXCEPT ![r] = given]
      /\ UNCHANGED <<lastSeq, subscriptions, reader, log>>
  BY DEF Deliver
<1>2. /\ lastSeq \in Nat /\ N \in 0..lastSeq /\ N \in Nat /\ old \in Nat
      /\ log \in Seq(Nat) /\ Len(log) = lastSeq /\ \A k \in 1..lastSeq : log[k] = k
      /\ \A k \in 1..N : messages[k].seq = old + k /\ payload[messages[k].handle] = old + k
  BY Contents DEF NothingFails
<1>3. /\ subData \in [Handles -> [qos : SubscriptionQos, latest : Nat]]
      /\ subscriptions \subseteq Handles
      /\ \A x \in subscriptions : subData[x].latest \in Nat /\ subData[x].latest <= lastSeq
  BY DEF OK, Others, FeedInv
<1>4. /\ j \in Nat /\ i \in Nat /\ i <= j /\ j <= N /\ i \in 1..N /\ j \in 1..N
  BY <1>2
<1>5. messages[i].seq = old + i /\ messages[j].seq = old + j
  BY <1>2, <1>4
<1>6. /\ data[reader[r]].latest = old + j /\ data[reader[r]].qos = subData[reader[r]].qos
      /\ \A x \in Handles : x # reader[r] => data[x] = subData[x]
  BY <1>3, <1>5
<1> HIDE DEF data
<1>7. \A x \in subscriptions : data[x].latest <= lastSeq
  <2>1. old + j <= lastSeq
    BY <1>2, <1>4
  <2> HIDE DEF old, N
  <2> QED
    BY <1>3, <1>6, <2>1
<1>8. Kept(Len(messages), lastSeq, subscriptions, data)
  <2>1. Kept(Len(messages), lastSeq, subscriptions, subData)
    BY DEF FeedInv
  <2>2. old <= data[reader[r]].latest
    BY <1>2, <1>4, <1>6
  <2> QED
    BY <1>3, <1>6, <2>1, <2>2 DEF Kept
<1>9. HandlesAreOwn'
  BY <1>1 DEF FeedInv, HandlesAreOwn
<1>10. FeedInv'
  <2>1. StoreOK(Store, subscriptions, lastSeq)
    BY DEF OK
  <2>2. \A x \in subscriptions : subData'[x] = data[x]
    BY <1>1
  <2> QED
    BY <1>1, <1>7, <1>8, <1>9, <2>1, <2>2, StoreFields, RetiredFeeds
<1>11. given = SubSeq(log, old + i, old + j)
  <2>1. \A k \in 1..(j - i + 1) : given[k] = old + i + k - 1
    <3> SUFFICES ASSUME NEW k \in 1..(j - i + 1)
                 PROVE  payload[messages[i + k - 1].handle] = old + i + k - 1
      OBVIOUS
    <3>1. i + k - 1 \in 1..N
      BY <1>4
    <3> QED
      BY <1>2, <1>4, <3>1
  <2>2. SubSeq(log, old + i, old + j)
          = [k \in 1..(1 + (old + j) - (old + i)) |-> log[k + (old + i) - 1]]
    BY <1>2, <1>4
  <2>3. 1 + (old + j) - (old + i) = j - i + 1
    BY <1>2, <1>4
  <2>4. \A k \in 1..(j - i + 1) : log[k + (old + i) - 1] = old + i + k - 1
    BY <1>2, <1>4
  <2> HIDE DEF old, N
  <2> QED
    BY <2>1, <2>2, <2>3, <2>4
<1>12. /\ Mode' = Mode /\ Cursor' = [Cursor EXCEPT ![r] = old + j]
       /\ Mode[r] # "closed"
  <2>1. \A s \in Readers : s # r /\ reader[s] \in subscriptions => reader[s] # reader[r]
    BY <1>3, ShmTopicAssumption DEF FeedInv, HandlesAreOwn
  <2>2. \A s \in Readers : Mode'[s] = Mode[s]
    BY <1>1, <1>3, <1>6 DEF Mode
  <2>3. \A s \in Readers : Cursor'[s] = IF s = r THEN old + j ELSE Cursor[s]
    BY <1>1, <1>3, <1>6, <2>1 DEF Cursor, Last
  <2>4. Mode[r] # "closed"
    BY <1>3 DEF Mode, SubscriptionQos
  <2> HIDE DEF old
  <2> QED
    BY <2>2, <2>3, <2>4 DEF Mode, Cursor
<1>13. Feed!Give(r, old + i, old + j)
  <2>1. old + i <= old + j
    BY <1>2, <1>4
  <2>2. reply' = [reply EXCEPT ![r] = SubSeq(log, old + i, old + j)]
    BY <1>1, <1>11
  <2> HIDE DEF old
  <2> QED
    BY <1>1, <1>12, <2>1, <2>2 DEF Feed!Give, Feed!Open, Mode, Cursor
<1> QED
  BY <1>5, <1>10, <1>13 DEF Feed!Give

\* lookupNextMessage_ finds the first kept message that the reader has not passed.
LEMMA LookupFinds ==
  ASSUME OK, FeedInv, NothingFails, NEW r \in Readers, reader[r] \in subscriptions,
         LookupNext(Last(r)) <= Len(messages)
  PROVE  /\ LookupNext(Last(r)) \in 1..Len(messages)
         /\ messages[LookupNext(Last(r))].seq = Feed!NextFor(r)
         /\ messages[Len(messages)].seq = Len(log)
<1> DEFINE N == Len(messages)
           last == Last(r)
           old == lastSeq - N
           k == LookupNext(last)
<1>1. /\ lastSeq \in Nat /\ N \in 0..lastSeq /\ N \in Nat /\ old \in Nat
      /\ N <= Capacity /\ Capacity \in Nat \ {0} /\ Len(log) = lastSeq
      /\ messages \in Seq(Message)
      /\ \A i \in 1..N : messages[i].seq = old + i
  BY Contents DEF NothingFails
<1>2. last \in Nat /\ last <= lastSeq /\ (old <= last \/ N = Capacity)
  BY DEF OK, Others, FeedInv, Kept, Last
<1>3. messages = <<>> <=> N = 0
  BY <1>1, EmptySeq
<1>4. N # 0 => messages[1].seq = old + 1 /\ messages[N].seq = lastSeq
  <2> HIDE DEF N
  <2>1. N # 0 => 1 \in 1..N /\ N \in 1..N
    BY <1>1
  <2> QED
    BY <1>1, <2>1
<1>5. k = IF N # 0 /\ old + 1 < last + 1 /\ last + 1 <= lastSeq THEN last - (old + 1) + 2
          ELSE IF N # 0 /\ last + 1 <= old + 1 THEN 1
          ELSE N + 1
  BY <1>3, <1>4 DEF LookupNext, Between
<1>6. Feed!Oldest = IF lastSeq > Capacity THEN lastSeq - Capacity + 1 ELSE 1
  BY <1>1 DEF Feed!Oldest
<1>7. Feed!NextFor(r) = IF last >= Feed!Oldest THEN last + 1 ELSE Feed!Oldest
  BY DEF Feed!NextFor, Last
<1>8. k <= N
  OBVIOUS
<1> DEFINE oldest == Feed!Oldest
           next == Feed!NextFor(r)
<1> HIDE DEF k, last, oldest, next, N
<1>9. N # 0 /\ k \in 1..N /\ old + k = next
  BY <1>1, <1>2, <1>5, <1>6, <1>7, <1>8 DEF oldest, next
<1>10. messages[k].seq = next /\ messages[N].seq = lastSeq
  BY <1>1, <1>4, <1>9
<1> QED
  BY <1>1, <1>9, <1>10 DEF k, last, next, N

\* The three ways to read.
LEMMA ReadFeeds ==
  ASSUME OK, FeedInv, NothingFails, NEW r \in Readers,
         ReadLatest(r) \/ ReadNext(r) \/ ReadAll(r)
  PROVE  FeedInv' /\ (Feed!ReadLatest(r) \/ Feed!ReadNext(r) \/ Feed!ReadAll(r))
<1> DEFINE N == Len(messages)
<1>1. /\ lastSeq \in Nat /\ N \in Nat /\ Len(log) = lastSeq /\ messages \in Seq(Message)
      /\ \A i \in 1..N : messages[i].seq = lastSeq - N + i
  BY Contents DEF NothingFails
<1>2. CASE ReadLatest(r)
  <2>1. N # 0
    BY <1>1, <1>2, EmptySeq DEF ReadLatest
  <2>2. /\ N \in 1..N /\ messages[N].seq = lastSeq
        /\ reader[r] \in subscriptions /\ subData[reader[r]].qos = "atMostOnce"
        /\ Last(r) # lastSeq /\ Deliver(r, N, N)
    BY <1>1, <1>2, <2>1 DEF ReadLatest
  <2>3. Last(r) \in Nat /\ Last(r) <= lastSeq
    BY <2>2 DEF OK, Others, FeedInv, Last
  <2>4. FeedInv' /\ Feed!Give(r, lastSeq, lastSeq)
    <3>1. FeedInv' /\ Feed!Give(r, messages[N].seq, messages[N].seq)
      BY <2>2, DeliverFeeds DEF Feed!Give
    <3> QED
      BY <2>2, <3>1 DEF Feed!Give
  <2>5. Last(r) < lastSeq
    BY <1>1, <2>2, <2>3
  <2> HIDE DEF N
  <2>6. Feed!ReadLatest(r)
    <3>1. Feed!Give(r, Len(log), Len(log))
      BY <1>1, <2>4 DEF Feed!Give
    <3>2. Mode[r] = "atMostOnce" /\ Cursor[r] < Len(log)
      BY <1>1, <2>2, <2>5 DEF Mode, Cursor
    <3> QED
      BY <3>1, <3>2 DEF Feed!ReadLatest, Mode, Cursor
  <2> QED
    BY <2>4, <2>6
<1>3. ASSUME ReadNext(r) \/ ReadAll(r)
      PROVE  FeedInv' /\ (Feed!ReadNext(r) \/ Feed!ReadAll(r))
  <2> DEFINE k == LookupNext(Last(r))
  <2>1. /\ reader[r] \in subscriptions /\ k <= Len(messages)
        /\ \/ Deliver(r, k, k) /\ subData[reader[r]].qos = "all"
           \/ Deliver(r, k, Len(messages))
    BY <1>3 DEF ReadNext, ReadAll
  <2>2. /\ k \in 1..N /\ messages[k].seq = Feed!NextFor(r) /\ messages[N].seq = Len(log)
    BY <2>1, LookupFinds
  <2>3. N \in 1..N /\ k \in 1..k
    BY <1>1, <2>2
  <2>4. messages[k].seq <= Len(log)
    BY <1>1, <2>2
  <2> HIDE DEF k, N
  <2>5. CASE Deliver(r, k, k) /\ subData[reader[r]].qos = "all"
    <3>1. FeedInv' /\ Feed!Give(r, Feed!NextFor(r), Feed!NextFor(r))
      <4>1. FeedInv' /\ Feed!Give(r, messages[k].seq, messages[k].seq)
        BY <2>1, <2>2, <2>3, <2>5, DeliverFeeds DEF N, Feed!Give
      <4> QED
        BY <2>2, <4>1 DEF Feed!Give
    <3>2. Feed!ReadNext(r)
      <4>1. Mode[r] = "all"
        BY <2>1, <2>5 DEF Mode
      <4>2. Feed!NextFor(r) <= Len(log)
        BY <2>2, <2>4
      <4> QED
        BY <3>1, <4>1, <4>2 DEF Feed!ReadNext, Mode
    <3> QED
      BY <3>1, <3>2
  <2>6. CASE Deliver(r, k, Len(messages))
    <3>1. FeedInv' /\ Feed!Give(r, Feed!NextFor(r), Len(log))
      <4>1. FeedInv' /\ Feed!Give(r, messages[k].seq, messages[N].seq)
        BY <2>1, <2>2, <2>3, <2>6, DeliverFeeds DEF N, Feed!Give
      <4> QED
        BY <2>2, <4>1 DEF Feed!Give
    <3>2. Feed!ReadAll(r)
      BY <3>1 DEF Feed!ReadAll
    <3> QED
      BY <3>1, <3>2
  <2> QED
    BY <2>1, <2>5, <2>6 DEF N
<1> QED
  BY <1>2, <1>3

\* Every step keeps the invariant and is one of the feed, or none.
LEMMA NextFeeds ==
  ASSUME OK, FeedInv, NothingFails, [Next]_vars
  PROVE  FeedInv' /\ [Feed!Next]_(Feed!vars)
<1>1. CASE Publish
  <2>1. FeedInv' /\ Feed!Publish
    BY <1>1, PublishInPlaceFeeds, PublishNewFeeds DEF Publish, PublishInPlace, PublishNew
  <2> QED
    BY <2>1 DEF Feed!Next
<1>2. CASE PublishRefused \/ PublishThrows
  BY <1>2 DEF PublishRefused, PublishThrows, NothingFails
<1>3. ASSUME NEW r \in Readers,
             \/ Subscribe(r) \/ SubscribeThrows(r)
             \/ Unsubscribe(r) \/ Abandon(r)
             \/ Reads(r)
      PROVE  FeedInv' /\ [Feed!Next]_(Feed!vars)
  <2>1. CASE Subscribe(r)
    BY <2>1, SubscribeFeeds DEF Feed!Next
  <2>2. CASE Unsubscribe(r) \/ Abandon(r)
    <3>1. FeedInv' /\ Feed!Close(r)
      BY <2>2, UnsubscribeFeeds, AbandonFeeds
    <3> QED
      BY <3>1 DEF Feed!Next
  <2>3. CASE ReadLatest(r) \/ ReadNext(r) \/ ReadAll(r)
    <3>1. FeedInv' /\ (Feed!ReadLatest(r) \/ Feed!ReadNext(r) \/ Feed!ReadAll(r))
      BY <2>3, ReadFeeds
    <3> QED
      BY <3>1 DEF Feed!Next
  <2>4. ~SubscribeThrows(r)
    BY DEF SubscribeThrows, NothingFails
  <2>5. ~ReadAborts(r)
    <3>1. reader[r] \in subscriptions => Last(r) \in Nat
      BY DEF OK, Others, Last
    <3> QED
      BY <3>1, LookupOK DEF ReadAborts, NothingFails
  <2> QED
    BY <1>3, <2>1, <2>2, <2>3, <2>4, <2>5 DEF Reads
<1>4. CASE UNCHANGED vars
  <2>1. FeedInv'
    BY <1>4 DEF vars, FeedInv, Faithful, Store, Kept, HandlesAreOwn
  <2>2. Mode' = Mode /\ Cursor' = Cursor /\ UNCHANGED <<log, reply>>
    BY <1>4 DEF vars, Mode, Cursor, Last
  <2> QED
    BY <2>1, <2>2 DEF Feed!vars, Mode, Cursor
<1> QED
  BY <1>1, <1>2, <1>3, <1>4 DEF Next, ReadNothing

\* An empty topic is an empty feed.
LEMMA InitFeeds == Init => FeedInv /\ Feed!Init
<1> SUFFICES ASSUME Init PROVE FeedInv /\ Feed!Init
  OBVIOUS
<1>1. Capacity \in Nat \ {0} /\ MaxPublish \in Nat
  BY ShmTopicAssumption DEF Capacity
<1>2. log = [i \in 1..lastSeq |-> i]
  <2>1. 1..0 = {}
    OBVIOUS
  <2> QED
    BY <2>1 DEF Init
<1>3. FeedInv
  BY <1>1, <1>2 DEF Init, FeedInv, Faithful, Store, Kept, HandlesAreOwn
<1>4. \A r \in Readers : reader[r] \notin subscriptions
  BY DEF Init
<1>5. /\ Mode = [r \in Readers |-> "closed"] /\ Cursor = [r \in Readers |-> 0]
  BY <1>4 DEF Mode, Cursor
<1>6. Feed!Init
  BY <1>5 DEF Init, Feed!Init, Mode, Cursor
<1> QED
  BY <1>3, <1>6

(***************************************************************************)
(* While allocation succeeds and no subscription expires, readers get what *)
(* TopicFeed promises: each publish adds one message to the log, a read    *)
(* gives the kept messages that are due, once, in order and as published,  *)
(* and nothing else changes what a reader sees, for any number of readers, *)
(* capacity of the queue and of the recycle bin.  (A subscription that     *)
(* expires leaves its handle with a client, and the object there may       *)
(* become that of another: nothing is promised then.)                      *)
(***************************************************************************)
THEOREM ReadersAreFed ==
  ASSUME ~AllocFails, ~Limited
  PROVE  Spec => ImplementsFeed
<1> DEFINE Inv == OK /\ FeedInv
<1>1. NothingFails
  BY DEF NothingFails
<1>2. Init => Inv /\ Feed!Init
  BY InitOK, InitFeeds
<1>3. Inv /\ [Next]_vars => Inv' /\ [Feed!Next]_(Feed!vars)
  BY <1>1, NextOK, NextFeeds
<1> HIDE DEF Inv
<1> QED
  BY <1>2, <1>3, PTL DEF Spec, ImplementsFeed, Feed!Spec
=============================================================================
