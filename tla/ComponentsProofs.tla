-------------------------- MODULE ComponentsProofs --------------------------
(***************************************************************************)
(* The library's Seqlock, ObjectPool and RingBuffer.  Every copy a reader  *)
(* of a Seqlock keeps is whole, for any number of words, readers and       *)
(* writes; every slot of an ObjectPool has one place, for any capacity and *)
(* number of handles; a RingBuffer is a queue, for any size and width of   *)
(* its counters.                                                           *)
(***************************************************************************)
EXTENDS Seqlock, Sequences, FiniteSetTheorems, TLAPS

\* The writer's half: an even counter means the words all hold the last
\* write.
Published ==
    /\ wpc = "idle" => ~Odd(sequence_) /\ \A w \in Words : data_[w] = sequence_ \div 2
    /\ wpc = "writing" => /\ Odd(sequence_)
                          /\ \A w \in Words \ todo : data_[w] = (sequence_ + 1) \div 2

\* A reader's first load, and its own load of VersionedValue::read, are even
\* and in the past.
LoadsInPast(r) ==
    /\ began[r] <= sequence_ \div 2
    /\ rpc[r] \in {"copy", "seq2", "verify"} =>
           ~Odd(seq1[r]) /\ seq1[r] <= sequence_ /\ began[r] <= seq1[r] \div 2
    /\ rpc[r] = "verify" => api[r] \in Versioned
    /\ api[r] \in Versioned /\ rpc[r] \in {"seq1", "copy", "seq2", "verify"} =>
           ~Odd(outer[r]) /\ outer[r] <= sequence_
    /\ api[r] \in Versioned /\ rpc[r] \in {"copy", "seq2", "verify"} => outer[r] <= seq1[r]

\* While the counter has not moved, what was copied is the last write; once
\* the second load agreed, it stays a copy of that write.
CopySoFar(r) ==
    /\ rpc[r] \in {"copy", "seq2"} /\ seq1[r] = sequence_ =>
           \A w \in copied[r] : result[r][w] = seq1[r] \div 2
    /\ rpc[r] = "seq2" => copied[r] = Words
    /\ rpc[r] = "verify" => \A w \in Words : result[r][w] = seq1[r] \div 2

WholeCopy(r) ==
    returned[r].ok =>
        \E k \in Nat : /\ returned[r].began <= k /\ k <= sequence_ \div 2
                       /\ returned[r].value = [w \in Words |-> k]
                       /\ returned[r].version \in {-1, k}

IInv == TypeOK /\ Published /\ \A r \in Readers : LoadsInPast(r) /\ CopySoFar(r) /\ WholeCopy(r)

\* Halves of counters: what the two stores of a write do to a version.
LEMMA Halves ==
    ASSUME NEW n \in Nat
    PROVE  /\ n \div 2 \in Nat /\ (n + 1) \div 2 \in Nat
           /\ n \div 2 <= (n + 1) \div 2
           /\ Odd(n) => ~Odd(n + 1)
           /\ ~Odd(n) => Odd(n + 1)
  BY DEF Odd

\* A counter no larger has a half no larger.
LEMMA HalvesMonotone ==
    ASSUME NEW m \in Nat, NEW n \in Nat, m <= n
    PROVE  m \div 2 <= n \div 2
  OBVIOUS

\* The constructor's state satisfies the invariant.
LEMMA InitIInv == Init => IInv
<1> SUFFICES ASSUME Init PROVE IInv
  OBVIOUS
<1>1. TypeOK
  BY DEF Init, TypeOK, Apis, Answers
<1>2. Published
  BY DEF Init, Published, Odd
<1>3. ASSUME NEW r \in Readers PROVE LoadsInPast(r) /\ CopySoFar(r) /\ WholeCopy(r)
  BY <1>3 DEF Init, LoadsInPast, CopySoFar, WholeCopy
<1> QED
  BY <1>1, <1>2, <1>3 DEF IInv

\* begin_write and end_write move the counter on: every reader's copy is
\* now of an older write.
LEMMA CounterMoves ==
    ASSUME IInv, sequence_' = sequence_ + 1, UNCHANGED readerVars
    PROVE  \A r \in Readers : (LoadsInPast(r) /\ CopySoFar(r) /\ WholeCopy(r))'
<1> TAKE r \in Readers
<1>1. sequence_ \in Nat /\ seq1[r] \in Nat
  BY DEF IInv, TypeOK
<1>2. sequence_ \div 2 \in Nat /\ sequence_' \div 2 \in Nat /\ sequence_ \div 2 <= sequence_' \div 2
  BY <1>1, Halves
<1>3. LoadsInPast(r)'
  BY <1>1, <1>2 DEF IInv, TypeOK, LoadsInPast, readerVars, Odd
<1>4. CopySoFar(r)'
  BY <1>1 DEF IInv, LoadsInPast, CopySoFar, readerVars
<1>5. WholeCopy(r)'
  <2> SUFFICES ASSUME returned'[r].ok PROVE WholeCopy(r)'
    BY DEF WholeCopy
  <2>1. returned' = returned
    BY DEF readerVars
  <2>2. PICK k \in Nat : /\ returned[r].began <= k /\ k <= sequence_ \div 2
                         /\ returned[r].value = [w \in Words |-> k]
                         /\ returned[r].version \in {-1, k}
    BY <2>1 DEF IInv, WholeCopy
  <2>3. k <= sequence_' \div 2
    BY <1>2, <2>2
  <2> QED
    BY <2>1, <2>2, <2>3 DEF WholeCopy
<1> QED
  BY <1>3, <1>4, <1>5

\* The steps of the writer.
LEMMA WriterStep ==
    ASSUME IInv, begin_write \/ end_write \/ \E w \in Words : StoreWord(w)
    PROVE  IInv'
<1>0. sequence_ \in Nat
  BY DEF IInv, TypeOK
<1>1. CASE begin_write
  <2>1. TypeOK'
    BY <1>1 DEF IInv, TypeOK, begin_write, readerVars
  <2>2. Published'
    BY <1>0, <1>1, Halves DEF IInv, TypeOK, Published, begin_write
  <2>3. \A r \in Readers : (LoadsInPast(r) /\ CopySoFar(r) /\ WholeCopy(r))'
    BY <1>1, CounterMoves DEF begin_write
  <2> QED
    BY <2>1, <2>2, <2>3 DEF IInv
<1>2. CASE end_write
  <2>1. TypeOK'
    BY <1>2 DEF IInv, TypeOK, end_write, readerVars
  <2>2. Published'
    BY <1>0, <1>2, Halves DEF IInv, TypeOK, Published, end_write
  <2>3. \A r \in Readers : (LoadsInPast(r) /\ CopySoFar(r) /\ WholeCopy(r))'
    BY <1>2, CounterMoves DEF end_write
  <2> QED
    BY <2>1, <2>2, <2>3 DEF IInv
<1>3. ASSUME NEW w \in Words, StoreWord(w) PROVE IInv'
  <2>0. (sequence_ + 1) \div 2 \in Nat
    BY <1>0, Halves
  <2>1. TypeOK'
    BY <1>3, <2>0 DEF IInv, TypeOK, StoreWord, readerVars
  <2>2. Published'
    BY <1>3 DEF IInv, TypeOK, Published, StoreWord
  <2>3. ASSUME NEW r \in Readers PROVE (LoadsInPast(r) /\ CopySoFar(r) /\ WholeCopy(r))'
    BY <1>3, <2>3 DEF IInv, LoadsInPast, CopySoFar, WholeCopy, StoreWord, readerVars
  <2> QED
    BY <2>1, <2>2, <2>3 DEF IInv
<1> QED
  BY <1>1, <1>2, <1>3

Local(r) == LoadsInPast(r) /\ CopySoFar(r) /\ WholeCopy(r)

\* A reader's step leaves the other readers and the counter alone.
LEMMA OthersKeep ==
    ASSUME IInv, NEW r \in Readers, NEW q \in Readers, sequence_' = sequence_,
           rpc'[q] = rpc[q], api'[q] = api[q], seq1'[q] = seq1[q], copied'[q] = copied[q],
           result'[q] = result[q], outer'[q] = outer[q], began'[q] = began[q],
           returned'[q] = returned[q]
    PROVE  Local(q)'
<1>1. LoadsInPast(q)'
  BY DEF IInv, LoadsInPast
<1>2. CopySoFar(q)'
  BY DEF IInv, CopySoFar
<1>3. WholeCopy(q)'
  BY DEF IInv, WholeCopy
<1> QED
  BY <1>1, <1>2, <1>3 DEF Local

\* The writer's half does not depend on the readers.
LEMMA WriterKeeps == ASSUME IInv, UNCHANGED writerVars PROVE Published'
  BY DEF IInv, Published, writerVars

\* A call begins.
LEMMA CallStep == ASSUME IInv, NEW r \in Readers, NEW a \in Apis, Call(r, a) PROVE IInv'
<1>0. sequence_ \in Nat /\ sequence_ \div 2 \in Nat
  BY Halves DEF IInv, TypeOK
<1>1. TypeOK'
  BY <1>0 DEF IInv, TypeOK, Call, writerVars
<1>2. ASSUME NEW q \in Readers PROVE Local(q)'
  <2>1. CASE q # r
    BY <2>1, OthersKeep DEF Call, writerVars, IInv, TypeOK
  <2>2. CASE q = r
    <3>1. LoadsInPast(r)'
      BY <1>0 DEF IInv, TypeOK, LoadsInPast, Call, writerVars
    <3>2. CopySoFar(r)'
      BY DEF IInv, TypeOK, CopySoFar, Call
    <3>3. WholeCopy(r)'
      BY DEF IInv, WholeCopy, Call, writerVars
    <3> QED
      BY <2>2, <3>1, <3>2, <3>3 DEF Local
  <2> QED
    BY <2>1, <2>2
<1> QED
  BY <1>1, <1>2, WriterKeeps DEF IInv, Local, Call

\* VersionedValue::read loads the counter.
LEMMA LoadVersionStep == ASSUME IInv, NEW r \in Readers, LoadVersion(r) PROVE IInv'
<1>1. TypeOK'
  BY DEF IInv, TypeOK, LoadVersion, writerVars
<1>2. ASSUME NEW q \in Readers PROVE Local(q)'
  <2>1. CASE q # r
    BY <2>1, OthersKeep DEF LoadVersion, writerVars, IInv, TypeOK
  <2>2. CASE q = r
    <3>1. LoadsInPast(r)'
      BY DEF IInv, TypeOK, LoadsInPast, LoadVersion, writerVars
    <3>2. CopySoFar(r)'
      BY DEF IInv, TypeOK, CopySoFar, LoadVersion
    <3>3. WholeCopy(r)'
      BY DEF IInv, WholeCopy, LoadVersion, writerVars
    <3> QED
      BY <2>2, <3>1, <3>2, <3>3 DEF Local
  <2> QED
    BY <2>1, <2>2
<1> QED
  BY <1>1, <1>2, WriterKeeps DEF IInv, Local, LoadVersion

\* What a call returns has its type.
LEMMA ReturnType ==
    ASSUME IInv, NEW r \in Readers, NEW ok \in BOOLEAN, NEW v \in Int, Return(r, ok, v)
    PROVE  /\ returned' \in [Readers -> Answers]
           /\ returned'[r] = [ok |-> ok, value |-> result[r], version |-> v, began |-> began[r]]
           /\ \A q \in Readers \ {r} : returned'[q] = returned[q]
<1>1. [ok |-> ok, value |-> result[r], version |-> v, began |-> began[r]] \in Answers
  BY DEF IInv, TypeOK, Answers
<1> QED
  BY <1>1 DEF IInv, TypeOK, Return

\* A call that returns false hands out no copy.
LEMMA FalseReturned ==
    ASSUME IInv, NEW r \in Readers, Return(r, FALSE, -1)
    PROVE  WholeCopy(r)' /\ returned' \in [Readers -> Answers]
<1>1. -1 \in Int /\ FALSE \in BOOLEAN
  OBVIOUS
<1>2. /\ returned' \in [Readers -> Answers]
      /\ returned'[r] = [ok |-> FALSE, value |-> result[r], version |-> -1, began |-> began[r]]
  BY <1>1, ReturnType, Zenon
<1>3. returned'[r].ok = FALSE
  BY <1>2
<1> QED
  BY <1>2, <1>3 DEF WholeCopy

\* The first load of the counter.
LEMMA LoadSeq1Step == ASSUME IInv, NEW r \in Readers, LoadSeq1(r) PROVE IInv'
<1>0. sequence_ \in Nat
  BY DEF IInv, TypeOK
<1>1. CASE ~Odd(sequence_) /\ seq1' = [seq1 EXCEPT ![r] = sequence_]
           /\ copied' = [copied EXCEPT ![r] = {}] /\ rpc' = [rpc EXCEPT ![r] = "copy"]
           /\ UNCHANGED returned
  <2>1. TypeOK'
    BY <1>1 DEF IInv, TypeOK, LoadSeq1, writerVars
  <2>2. ASSUME NEW q \in Readers PROVE Local(q)'
    <3>1. CASE q # r
      BY <1>1, <3>1, OthersKeep DEF LoadSeq1, writerVars, IInv, TypeOK
    <3>2. CASE q = r
      <4>1. LoadsInPast(r)'
        BY <1>0, <1>1 DEF IInv, TypeOK, LoadsInPast, LoadSeq1, writerVars
      <4>2. CopySoFar(r)'
        BY <1>1 DEF IInv, TypeOK, CopySoFar, LoadSeq1
      <4>3. WholeCopy(r)'
        BY <1>1 DEF IInv, WholeCopy, LoadSeq1, writerVars
      <4> QED
        BY <3>2, <4>1, <4>2, <4>3 DEF Local
    <3> QED
      BY <3>1, <3>2
  <2> QED
    BY <2>1, <2>2, WriterKeeps DEF IInv, Local, LoadSeq1
<1>2. CASE Return(r, FALSE, -1) /\ UNCHANGED <<seq1, copied>>
  <2>0. WholeCopy(r)' /\ returned' \in [Readers -> Answers]
    BY Zenon, <1>2, FalseReturned
  <2>1. TypeOK'
    BY <1>2, <2>0 DEF IInv, TypeOK, LoadSeq1, writerVars, Return
  <2>2. ASSUME NEW q \in Readers PROVE Local(q)'
    <3>1. CASE q # r
      BY <1>2, <3>1, OthersKeep DEF LoadSeq1, writerVars, IInv, TypeOK, Return
    <3>2. CASE q = r
      <4>1. LoadsInPast(r)'
        BY <1>2 DEF IInv, TypeOK, LoadsInPast, LoadSeq1, writerVars, Return
      <4>2. CopySoFar(r)'
        BY <1>2 DEF IInv, TypeOK, CopySoFar, LoadSeq1, Return
      <4> QED
        BY <2>0, <3>2, <4>1, <4>2 DEF Local
    <3> QED
      BY <3>1, <3>2
  <2> QED
    BY <2>1, <2>2, WriterKeeps DEF IInv, Local, LoadSeq1
<1> QED
  BY Zenon, <1>1, <1>2 DEF LoadSeq1

\* One word is copied: the counter is even while it has not moved, so the
\* word is the last write's.
LEMMA CopyWordStep == ASSUME IInv, NEW r \in Readers, NEW w \in Words, CopyWord(r, w) PROVE IInv'
<1>0. sequence_ \in Nat /\ data_ \in [Words -> Nat]
  BY DEF IInv, TypeOK
<1>1. TypeOK'
  BY DEF IInv, TypeOK, CopyWord, writerVars
<1>2. ASSUME NEW q \in Readers PROVE Local(q)'
  <2>1. CASE q # r
    BY <2>1, OthersKeep DEF CopyWord, writerVars, IInv, TypeOK
  <2>2. CASE q = r
    <3>1. LoadsInPast(r)'
      BY DEF IInv, TypeOK, LoadsInPast, CopyWord, writerVars
    <3>2. seq1[r] = sequence_ => data_[w] = seq1[r] \div 2
      BY DEF IInv, TypeOK, LoadsInPast, Published, CopyWord
    <3>3. copied'[r] = copied[r] \cup {w} /\ result'[r] = [result[r] EXCEPT ![w] = data_[w]]
      BY DEF IInv, TypeOK, CopyWord
    <3>4. rpc'[r] \in {"copy", "seq2"} /\ (rpc'[r] = "seq2" => copied'[r] = Words)
      BY DEF IInv, TypeOK, CopyWord
    <3>5. seq1[r] = sequence_ => \A x \in copied'[r] : result'[r][x] = seq1[r] \div 2
      BY <3>2, <3>3 DEF IInv, TypeOK, CopySoFar, CopyWord
    <3>6. CopySoFar(r)'
      BY <3>4, <3>5 DEF CopySoFar, CopyWord, writerVars
    <3>7. WholeCopy(r)'
      BY DEF IInv, WholeCopy, CopyWord, writerVars
    <3> QED
      BY <2>2, <3>1, <3>6, <3>7 DEF Local
  <2> QED
    BY <2>1, <2>2
<1> QED
  BY <1>1, <1>2, WriterKeeps DEF IInv, Local, CopyWord

\* A copy of write k, taken in a call that began no later, may be kept.
LEMMA CopyReturned ==
    ASSUME IInv, NEW r \in Readers, NEW k \in Nat, NEW v \in Int, Return(r, TRUE, v),
           UNCHANGED <<sequence_, began>>, v \in {-1, k},
           began[r] <= k, k <= sequence_ \div 2, \A w \in Words : result[r][w] = k
    PROVE  WholeCopy(r)' /\ returned' \in [Readers -> Answers]
<1>1. /\ returned' \in [Readers -> Answers]
      /\ returned'[r] = [ok |-> TRUE, value |-> result[r], version |-> v, began |-> began[r]]
  <2>1. TRUE \in BOOLEAN
    OBVIOUS
  <2> QED
    BY <2>1, ReturnType, Zenon
<1>2. result[r] = [w \in Words |-> k]
  BY DEF IInv, TypeOK
<1>3. returned'[r].value = [w \in Words |-> k] /\ returned'[r].version = v /\ returned'[r].began = began[r]
  BY <1>1, <1>2
<1> QED
  BY Zenon, <1>1, <1>3 DEF WholeCopy

\* What is left of the invariant once a call has returned.
LEMMA CallEnds ==
    ASSUME IInv, NEW r \in Readers, NEW ok \in BOOLEAN, NEW v \in Int, Return(r, ok, v),
           WholeCopy(r)', UNCHANGED <<writerVars, api, seq1, copied, result, outer, began>>,
           known' \in [Readers -> Nat]
    PROVE  IInv'
<1>0. sequence_' = sequence_
  BY DEF writerVars
<1>1. TypeOK'
  BY Zenon, ReturnType DEF IInv, TypeOK, writerVars, Return
<1>2. ASSUME NEW q \in Readers PROVE Local(q)'
  <2>1. CASE q # r
    BY <1>0, <2>1, OthersKeep DEF IInv, TypeOK, Return
  <2>2. CASE q = r
    <3>1. rpc'[r] = "out"
      BY DEF IInv, TypeOK, Return
    <3>2. LoadsInPast(r)'
      BY <1>0, <3>1 DEF IInv, LoadsInPast
    <3>3. CopySoFar(r)'
      BY <3>1 DEF CopySoFar
    <3> QED
      BY <2>2, <3>2, <3>3 DEF Local
  <2> QED
    BY <2>1, <2>2
<1> QED
  BY <1>1, <1>2, WriterKeeps DEF IInv, Local

\* Falling back to an earlier step, or on to the outer check, keeps the
\* reader's facts.
LEMMA MovesOn ==
    ASSUME IInv, NEW r \in Readers, NEW pc \in {"version", "seq1", "verify"},
           rpc' = [rpc EXCEPT ![r] = pc],
           UNCHANGED <<writerVars, api, seq1, copied, result, outer, known, began, returned>>,
           rpc[r] \in {"seq2", "verify"},
           pc = "verify" => rpc[r] = "seq2" /\ seq1[r] = sequence_ /\ api[r] \in Versioned
    PROVE  IInv'
<1>0. sequence_' = sequence_
  BY DEF writerVars
<1>1. TypeOK'
  BY DEF IInv, TypeOK, writerVars
<1>2. ASSUME NEW q \in Readers PROVE Local(q)'
  <2>1. CASE q # r
    BY <1>0, <2>1, OthersKeep DEF IInv, TypeOK
  <2>2. CASE q = r
    <3>1. rpc'[r] = pc
      BY DEF IInv, TypeOK
    <3>2. LoadsInPast(r)'
      BY <1>0, <3>1 DEF IInv, LoadsInPast
    <3>3. CopySoFar(r)'
      BY <1>0, <3>1 DEF IInv, CopySoFar
    <3>4. WholeCopy(r)'
      BY <1>0 DEF IInv, WholeCopy
    <3> QED
      BY <2>2, <3>2, <3>3, <3>4 DEF Local
  <2> QED
    BY <2>1, <2>2
<1> QED
  BY <1>1, <1>2, WriterKeeps DEF IInv, Local

\* The second load.
LEMMA LoadSeq2Step == ASSUME IInv, NEW r \in Readers, LoadSeq2(r) PROVE IInv'
<1>0. /\ UNCHANGED <<writerVars, api, seq1, copied, result, outer, known, began>>
      /\ rpc[r] = "seq2" /\ sequence_' = sequence_ /\ known' \in [Readers -> Nat]
      /\ -1 \in Int /\ TRUE \in BOOLEAN /\ FALSE \in BOOLEAN
  BY DEF LoadSeq2, writerVars, IInv, TypeOK
<1>1. CASE seq1[r] = sequence_ /\ Return(r, TRUE, -1)
  <2> DEFINE k == sequence_ \div 2
  <2>1. k \in Nat
    BY Halves DEF IInv, TypeOK
  <2>2. began[r] <= k /\ k <= sequence_ \div 2 /\ \A w \in Words : result[r][w] = k
    BY <1>0, <1>1, <2>1 DEF IInv, LoadsInPast, CopySoFar
  <2>3. -1 \in {-1, k} /\ UNCHANGED <<sequence_, began>>
    BY <1>0
  <2> HIDE DEF k
  <2>4. WholeCopy(r)'
    BY <1>0, <1>1, <2>1, <2>2, <2>3, CopyReturned, Zenon
  <2> QED
    BY <1>0, <1>1, <2>4, CallEnds, Zenon
<1>2. CASE /\ seq1[r] = sequence_ /\ api[r] \in Versioned
           /\ rpc' = [rpc EXCEPT ![r] = "verify"] /\ UNCHANGED returned
  BY Zenon, <1>0, <1>2, MovesOn
<1>3. CASE Return(r, FALSE, -1)
  BY Zenon, <1>0, <1>3, FalseReturned, CallEnds
<1>4. CASE rpc' = [rpc EXCEPT ![r] = "seq1"] /\ UNCHANGED returned
  BY Zenon, <1>0, <1>4, MovesOn
<1> QED
  BY Zenon, <1>1, <1>2, <1>3, <1>4 DEF LoadSeq2

\* The outer check of VersionedValue::read: the inner copy lies between two
\* loads of the same number, so it is of that version.
LEMMA VerifyStep == ASSUME IInv, NEW r \in Readers, Verify(r) PROVE IInv'
<1>0. /\ UNCHANGED <<writerVars, api, seq1, copied, result, outer, began>>
      /\ rpc[r] = "verify" /\ sequence_' = sequence_
      /\ -1 \in Int /\ TRUE \in BOOLEAN /\ FALSE \in BOOLEAN
      /\ sequence_ \in Nat
  BY DEF Verify, writerVars, IInv, TypeOK
<1>1. CASE outer[r] = sequence_ /\ Keep(r, sequence_ \div 2)
  <2>1. sequence_ \div 2 \in Nat
    BY <1>0, Halves
  <2>2. known' \in [Readers -> Nat]
    BY Zenon, <1>1, <2>1 DEF Keep, IInv, TypeOK
  <2>3. CASE Return(r, FALSE, -1)
    BY Zenon, <1>0, <2>2, <2>3, FalseReturned, CallEnds
  <2>4. CASE Return(r, TRUE, sequence_ \div 2)
    <3> DEFINE k == sequence_ \div 2
    <3>1. seq1[r] = sequence_
      <4>1. seq1[r] <= sequence_ /\ outer[r] <= seq1[r]
        BY <1>0 DEF IInv, LoadsInPast
      <4>2. seq1[r] \in Nat
        BY DEF IInv, TypeOK
      <4> QED
        BY <1>0, <1>1, <4>1, <4>2
    <3>2. k \in Nat /\ k \in Int /\ k \in {-1, k} /\ UNCHANGED <<sequence_, began>>
      BY <1>0, <2>1
    <3>3. began[r] <= k /\ k <= sequence_ \div 2 /\ \A w \in Words : result[r][w] = k
      BY <1>0, <2>1, <3>1 DEF IInv, LoadsInPast, CopySoFar
    <3>4. Return(r, TRUE, k)
      BY Zenon, <2>4
    <3> HIDE DEF k
    <3>5. WholeCopy(r)'
      BY <3>2, <3>3, <3>4, CopyReturned, Zenon
    <3> QED
      BY <1>0, <2>2, <3>2, <3>4, <3>5, CallEnds, Zenon
  <2> QED
    BY Zenon, <1>1, <2>3, <2>4 DEF Keep
<1>2. CASE outer[r] # sequence_ /\ rpc' = [rpc EXCEPT ![r] = "version"] /\ UNCHANGED <<known, returned>>
  BY Zenon, <1>0, <1>2, MovesOn
<1> QED
  BY <1>1, <1>2 DEF Verify

\* No step breaks the invariant.
LEMMA NextIInv == IInv /\ [Next]_vars => IInv'
<1> SUFFICES ASSUME IInv, [Next]_vars PROVE IInv'
  OBVIOUS
<1>1. CASE begin_write \/ end_write \/ \E w \in Words : StoreWord(w)
  BY <1>1, WriterStep
<1>2. CASE \E r \in Readers : \/ \E a \in Apis : Call(r, a)
                              \/ LoadVersion(r) \/ LoadSeq1(r) \/ LoadSeq2(r) \/ Verify(r)
                              \/ \E w \in Words : CopyWord(r, w)
  BY <1>2, CallStep, LoadVersionStep, LoadSeq1Step, LoadSeq2Step, VerifyStep, CopyWordStep
<1>3. CASE UNCHANGED vars
  <2>1. TypeOK' /\ Published'
    BY <1>3 DEF IInv, TypeOK, Published, vars
  <2>2. ASSUME NEW q \in Readers PROVE Local(q)'
    BY <1>3, OthersKeep DEF vars
  <2> QED
    BY <2>1, <2>2 DEF IInv, Local
<1> QED
  BY <1>1, <1>2, <1>3 DEF Next

\* The invariant is about the copies: k is one of the writes in question.
LEMMA InvCopies == IInv => CopiesAreWhole
<1> SUFFICES ASSUME IInv, NEW r \in Readers, returned[r].ok
             PROVE  \E k \in returned[r].began .. (sequence_ \div 2) :
                        /\ returned[r].value = [w \in Words |-> k]
                        /\ returned[r].version \in {-1, k}
  BY DEF CopiesAreWhole
<1>1. PICK k \in Nat : /\ returned[r].began <= k /\ k <= sequence_ \div 2
                       /\ returned[r].value = [w \in Words |-> k]
                       /\ returned[r].version \in {-1, k}
  BY DEF IInv, WholeCopy
<1>2. returned[r].began \in Nat /\ sequence_ \div 2 \in Nat
  BY Halves DEF IInv, TypeOK, Answers
<1>3. k \in returned[r].began .. (sequence_ \div 2)
  BY <1>1, <1>2
<1> QED
  BY <1>1, <1>3

\* Every copy that Seqlock::read, try_read, read_with and VersionedValue
\* return was published whole, is no older than the call, and has the
\* version it is given, whatever the interleaving.
THEOREM SeqlockCorrect == Spec => []CopiesAreWhole
<1>1. Init => IInv
  BY InitIInv
<1>2. IInv /\ [Next]_vars => IInv'
  BY NextIInv
<1>3. IInv => CopiesAreWhole
  BY InvCopies
<1> QED
  BY <1>1, <1>2, <1>3, PTL DEF Spec

-----------------------------------------------------------------------------
(***************************************************************************)
(* ObjectPool.  The free list and the set of slots in use (FreeOK), and    *)
(* the owners of the slots in use (OwnersOK), change together in every     *)
(* operation.                                                              *)
(***************************************************************************)
CONSTANTS Capacity, ChunkSize, MaxChunks, Handles

VARIABLES free_list_, available_, constructed, ptr_, raw, growing

OP == INSTANCE ObjectPool

\* The free list holds once each slot that is not used, and is counted.
FreeOK(p, used) ==
    /\ p.free \in Seq(OP!Slots) /\ OP!IsInjective(p.free) /\ p.available = Len(p.free)
    /\ used \subseteq OP!Slots /\ OP!Range(p.free) = OP!Slots \ used

Holding(ptrs) == {ptrs[h] : h \in Handles} \ {0}

\* No two PoolPtrs hold the same slot.
PtrsOK(ptrs) ==
    /\ ptrs \in [Handles -> OP!Slots \cup {0}]
    /\ \A h, g \in Handles : h # g /\ ptrs[h] = ptrs[g] => ptrs[h] = 0

\* The slots in use have one owner each, those of PoolPtrs a live object.
OwnersOK(live, ptrs, plain) ==
    /\ PtrsOK(ptrs)
    /\ plain \subseteq OP!Slots /\ Holding(ptrs) \cap plain = {}
    /\ Holding(ptrs) \subseteq live /\ live \subseteq Holding(ptrs) \cup plain

PoolInv(p, ptrs, plain) == FreeOK(p, Holding(ptrs) \cup plain) /\ OwnersOK(p.live, ptrs, plain)

\* GrowingObjectPool: the same, over the slots of the chunks it has.
GrowingInv(g) ==
    /\ DOMAIN g = {"free", "allocated", "chunks", "used"}
    /\ g.chunks \in Nat /\ g.free \in Seq(1 .. (g.chunks * ChunkSize)) /\ OP!IsInjective(g.free)
    /\ g.used = (1 .. (g.chunks * ChunkSize)) \ OP!Range(g.free)
    /\ IsFiniteSet(g.used) /\ Cardinality(g.used) = g.allocated

ObjectPoolInv == PoolInv(OP!Pool, ptr_, raw) /\ GrowingInv(growing)

\* A list that loses its first element, and one that gains a new one.
LEMMA List_ends ==
    ASSUME NEW S, NEW list \in Seq(S), OP!IsInjective(list)
    PROVE  /\ list # <<>> => /\ Tail(list) \in Seq(S) /\ OP!IsInjective(Tail(list))
                             /\ Head(list) \in S /\ Head(list) \in OP!Range(list)
                             /\ OP!Range(Tail(list)) = OP!Range(list) \ {Head(list)}
                             /\ Len(Tail(list)) = Len(list) - 1
           /\ \A x \in S \ OP!Range(list) :
                  /\ <<x>> \o list \in Seq(S) /\ OP!IsInjective(<<x>> \o list)
                  /\ OP!Range(<<x>> \o list) = OP!Range(list) \cup {x}
                  /\ Len(<<x>> \o list) = Len(list) + 1
<1>1. \A i, j \in 1 .. Len(list) : list[i] = list[j] => i = j
  BY DEF OP!IsInjective
<1>2. ASSUME list # <<>>
      PROVE  /\ Tail(list) \in Seq(S) /\ OP!IsInjective(Tail(list))
             /\ Head(list) \in S /\ Head(list) \in OP!Range(list)
             /\ OP!Range(Tail(list)) = OP!Range(list) \ {Head(list)}
             /\ Len(Tail(list)) = Len(list) - 1
  <2>1. /\ Tail(list) \in Seq(S) /\ Len(Tail(list)) = Len(list) - 1 /\ Len(list) \in Nat \ {0}
        /\ DOMAIN Tail(list) = 1 .. (Len(list) - 1)
        /\ \A i \in 1 .. (Len(list) - 1) : Tail(list)[i] = list[i + 1]
        /\ Head(list) = list[1] /\ Head(list) \in S /\ DOMAIN list = 1 .. Len(list)
    BY <1>2
  <2>2. OP!IsInjective(Tail(list))
    <3>1. ASSUME NEW i \in 1 .. (Len(list) - 1), NEW j \in 1 .. (Len(list) - 1),
                 Tail(list)[i] = Tail(list)[j]
          PROVE  i = j
      <4>1. list[i + 1] = list[j + 1] /\ i + 1 \in 1 .. Len(list) /\ j + 1 \in 1 .. Len(list)
        BY <2>1, <3>1
      <4>2. i + 1 = j + 1
        BY <1>1, <4>1
      <4>3. QED BY <4>2
    <3>2. QED BY <2>1, <3>1 DEF OP!IsInjective
  <2>3. OP!Range(Tail(list)) = OP!Range(list) \ {Head(list)}
    <3>1. ASSUME NEW i \in 1 .. (Len(list) - 1) PROVE Tail(list)[i] \in OP!Range(list) \ {Head(list)}
      <4>1. Tail(list)[i] = list[i + 1] /\ i + 1 \in 1 .. Len(list) /\ i + 1 # 1 /\ 1 \in 1 .. Len(list)
        BY <2>1
      <4>2. list[i + 1] # list[1]
        BY <1>1, <4>1
      <4>3. QED BY <2>1, <4>1, <4>2 DEF OP!Range
    <3>2. ASSUME NEW i \in 1 .. Len(list), list[i] # Head(list)
          PROVE  list[i] \in OP!Range(Tail(list))
      <4>1. i - 1 \in 1 .. (Len(list) - 1) /\ (i - 1) + 1 = i
        BY <2>1, <3>2
      <4>2. Tail(list)[i - 1] = list[i]
        BY <2>1, <4>1
      <4>3. QED BY <2>1, <4>1, <4>2 DEF OP!Range
    <3>3. QED BY <2>1, <3>1, <3>2 DEF OP!Range
  <2>4. Head(list) \in OP!Range(list)
    BY <2>1 DEF OP!Range
  <2>5. QED BY <2>1, <2>2, <2>3, <2>4
<1>3. ASSUME NEW x \in S \ OP!Range(list)
      PROVE  /\ <<x>> \o list \in Seq(S) /\ OP!IsInjective(<<x>> \o list)
             /\ OP!Range(<<x>> \o list) = OP!Range(list) \cup {x}
             /\ Len(<<x>> \o list) = Len(list) + 1
  <2> DEFINE w == <<x>> \o list
  <2>1. /\ w \in Seq(S) /\ Len(w) = Len(list) + 1 /\ Len(list) \in Nat
        /\ DOMAIN w = 1 .. (Len(list) + 1) /\ DOMAIN list = 1 .. Len(list)
        /\ w[1] = x /\ \A i \in 1 .. Len(list) : w[i + 1] = list[i]
    OBVIOUS
  <2> HIDE DEF w
  <2>2. ASSUME NEW i \in 1 .. (Len(list) + 1)
        PROVE  (i = 1 /\ w[i] = x) \/ (i - 1 \in 1 .. Len(list) /\ w[i] = list[i - 1])
    <3>1. CASE i = 1
      BY <2>1, <3>1
    <3>2. CASE i # 1
      <4>1. i - 1 \in 1 .. Len(list) /\ (i - 1) + 1 = i
        BY <2>1, <3>2
      <4>2. QED BY <2>1, <4>1
    <3>3. QED BY <3>1, <3>2
  <2>3. \A i \in 1 .. Len(list) : list[i] # x
    BY <1>3, <2>1 DEF OP!Range
  <2>4. OP!IsInjective(w)
    <3>1. ASSUME NEW i \in 1 .. (Len(list) + 1), NEW j \in 1 .. (Len(list) + 1), w[i] = w[j]
          PROVE  i = j
      <4>1. i - 1 \in 1 .. Len(list) /\ j - 1 \in 1 .. Len(list) /\ list[i - 1] = list[j - 1] => i - 1 = j - 1
        BY <1>1
      <4>2. QED BY <2>2, <2>3, <3>1, <4>1
    <3>2. QED BY <2>1, <3>1 DEF OP!IsInjective
  <2>5. OP!Range(w) = OP!Range(list) \cup {x}
    <3>1. ASSUME NEW i \in 1 .. (Len(list) + 1) PROVE w[i] \in OP!Range(list) \cup {x}
      BY <2>1, <2>2 DEF OP!Range
    <3>2. ASSUME NEW i \in 1 .. Len(list) PROVE list[i] \in OP!Range(w)
      <4>1. i + 1 \in 1 .. (Len(list) + 1) /\ w[i + 1] = list[i]
        BY <2>1
      <4>2. QED BY <2>1, <4>1 DEF OP!Range
    <3>3. x \in OP!Range(w)
      <4>1. 1 \in 1 .. (Len(list) + 1)
        BY <2>1
      <4>2. QED BY <2>1, <4>1 DEF OP!Range
    <3>4. QED BY <2>1, <3>1, <3>2, <3>3 DEF OP!Range
  <2>6. QED BY <2>1, <2>4, <2>5 DEF w
<1>4. QED BY <1>2, <1>3

\* allocate takes a slot that is not in use, or finds that all are.
LEMMA Free_take ==
    ASSUME NEW p, NEW used, FreeOK(p, used)
    PROVE  LET x == OP!next_free(p) q == OP!allocated(p) IN
           \/ x = 0 /\ q = p
           \/ x \in OP!Slots \ used /\ FreeOK(q, used \cup {x}) /\ q.live = p.live \cup {x}
<1> DEFINE x == OP!next_free(p)
           q == OP!allocated(p)
<1>1. CASE p.free = <<>>
  BY <1>1 DEF OP!next_free, OP!allocated, OP!nullptr
<1>2. CASE p.free # <<>>
  <2>1. /\ x = Head(p.free) /\ q.free = Tail(p.free)
        /\ q.available = p.available - 1 /\ q.live = p.live \cup {x}
    BY <1>2 DEF OP!next_free, OP!allocated
  <2> DEFINE list == p.free
  <2>2. list \in Seq(OP!Slots) /\ OP!IsInjective(list) /\ OP!Range(list) = OP!Slots \ used
        /\ p.available = Len(list) /\ used \subseteq OP!Slots
    BY DEF FreeOK
  <2> HIDE DEF list, x, q
  <2>3. /\ Tail(list) \in Seq(OP!Slots) /\ OP!IsInjective(Tail(list))
        /\ Head(list) \in OP!Slots /\ Head(list) \in OP!Range(list)
        /\ OP!Range(Tail(list)) = OP!Range(list) \ {Head(list)}
        /\ Len(Tail(list)) = Len(list) - 1
    BY <1>2, <2>2, List_ends DEF list
  <2>4. x \in OP!Slots \ used /\ used \cup {x} \subseteq OP!Slots
        /\ OP!Range(Tail(list)) = OP!Slots \ (used \cup {x})
    BY <2>1, <2>2, <2>3 DEF list
  <2>5. FreeOK(q, used \cup {x})
    BY <2>1, <2>2, <2>3, <2>4 DEF FreeOK, list
  <2>6. QED BY <2>1, <2>4, <2>5 DEF x, q
<1>3. QED BY <1>1, <1>2

\* deallocate returns a slot in use, and ignores any other pointer.
LEMMA Free_give ==
    ASSUME NEW p, NEW used, FreeOK(p, used), NEW slot
    PROVE  /\ slot \notin OP!Slots => OP!deallocated(p, slot) = p
           /\ slot \in used => /\ FreeOK(OP!deallocated(p, slot), used \ {slot})
                               /\ OP!deallocated(p, slot).live = p.live \ {slot}
<1>1. slot \notin OP!Slots => OP!deallocated(p, slot) = p
  BY DEF OP!deallocated
<1>2. ASSUME slot \in used
      PROVE  /\ FreeOK(OP!deallocated(p, slot), used \ {slot})
             /\ OP!deallocated(p, slot).live = p.live \ {slot}
  <2> DEFINE list == p.free
             q == OP!deallocated(p, slot)
  <2>1. /\ q.free = <<slot>> \o list /\ q.available = p.available + 1 /\ q.live = p.live \ {slot}
    BY <1>2 DEF OP!deallocated, FreeOK
  <2>2. /\ list \in Seq(OP!Slots) /\ OP!IsInjective(list) /\ OP!Range(list) = OP!Slots \ used
        /\ p.available = Len(list) /\ used \subseteq OP!Slots
    BY DEF FreeOK
  <2> HIDE DEF list, q
  <2>3. slot \in OP!Slots \ OP!Range(list)
    BY <1>2, <2>2
  <2>4. /\ <<slot>> \o list \in Seq(OP!Slots) /\ OP!IsInjective(<<slot>> \o list)
        /\ OP!Range(<<slot>> \o list) = OP!Range(list) \cup {slot}
        /\ Len(<<slot>> \o list) = Len(list) + 1
    BY <2>2, <2>3, List_ends
  <2>5. OP!Range(<<slot>> \o list) = OP!Slots \ (used \ {slot}) /\ used \ {slot} \subseteq OP!Slots
    BY <2>2, <2>3, <2>4
  <2>6. FreeOK(q, used \ {slot})
    BY <2>1, <2>2, <2>4, <2>5 DEF FreeOK
  <2>7. QED BY <2>1, <2>6 DEF q
<1>3. QED BY <1>1, <1>2

\* The handles after one of them is assigned a slot.
Assigned(u, ptrs, h, x) == u = [ptrs EXCEPT ![h] = x]

\* A PoolPtr lets go of its slot and takes one that no PoolPtr holds.
LEMMA Ptr_takes ==
    ASSUME NEW ptrs, PtrsOK(ptrs), NEW h \in Handles, NEW x \in OP!Slots \cup {0},
           x \notin Holding(ptrs), NEW u, Assigned(u, ptrs, h, x)
    PROVE  PtrsOK(u) /\ Holding(u) = (Holding(ptrs) \ {ptrs[h]}) \cup ({x} \ {0})
<1>1. /\ u \in [Handles -> OP!Slots \cup {0}] /\ u[h] = x
      /\ \A g \in Handles \ {h} : u[g] = ptrs[g]
      /\ \A g, k \in Handles : g # k /\ ptrs[g] = ptrs[k] => ptrs[g] = 0
  BY DEF PtrsOK, Assigned
<1>2. ASSUME NEW g \in Handles \ {h} PROVE u[g] # x \/ x = 0
  BY <1>1 DEF Holding
<1>3. PtrsOK(u)
  BY <1>1, <1>2 DEF PtrsOK
<1>4. ASSUME NEW y PROVE y \in Holding(u) <=> y \in (Holding(ptrs) \ {ptrs[h]}) \cup ({x} \ {0})
  BY <1>1 DEF Holding
<1>5. QED BY <1>3, <1>4

\* The slot of a PoolPtr, if it has one, is among those held.
LEMMA Ptr_holds ==
    ASSUME NEW ptrs, PtrsOK(ptrs), NEW h \in Handles
    PROVE  /\ ptrs[h] \in Holding(ptrs) \/ ptrs[h] = 0
           /\ Holding(ptrs) \subseteq OP!Slots /\ 0 \notin OP!Slots /\ -1 \notin OP!Slots
BY DEF PtrsOK, Holding, OP!Slots

\* The operations on plain pointers.
LEMMA Pool_plain ==
    ASSUME NEW p, NEW ptrs, NEW plain, PoolInv(p, ptrs, plain)
    PROVE  LET x == OP!next_free(p)
               held == plain \cup ({x} \ {0})
           IN
           /\ PoolInv(OP!allocated(p), ptrs, held)
           /\ OwnersOK(p.live, ptrs, held)
           /\ \A slot \in plain \cup {0, -1} :
                  PoolInv(OP!deallocated(p, slot), ptrs, plain \ {slot})
<1> DEFINE H == Holding(ptrs)
           x == OP!next_free(p)
           q == OP!allocated(p)
<1>1. /\ FreeOK(p, H \cup plain) /\ PtrsOK(ptrs) /\ plain \subseteq OP!Slots /\ H \cap plain = {}
      /\ H \subseteq p.live /\ p.live \subseteq H \cup plain
      /\ 0 \notin OP!Slots /\ -1 \notin OP!Slots /\ H \subseteq OP!Slots
  <2>1. 0 \notin OP!Slots /\ -1 \notin OP!Slots
    BY DEF OP!Slots
  <2>2. QED BY <2>1 DEF PoolInv, OwnersOK, FreeOK
<1>2. \/ x = 0 /\ q = p
      \/ x \in OP!Slots \ (H \cup plain) /\ FreeOK(q, (H \cup plain) \cup {x}) /\ q.live = p.live \cup {x}
  BY Zenon, <1>1, Free_take
<1> HIDE DEF x, q
<1>3. PoolInv(q, ptrs, plain \cup ({x} \ {0})) /\ OwnersOK(p.live, ptrs, plain \cup ({x} \ {0}))
  <2>1. CASE x = 0 /\ q = p
    <3>1. plain \cup ({x} \ {0}) = plain
      BY <2>1
    <3>2. QED BY <2>1, <3>1 DEF PoolInv
  <2>2. CASE x \in OP!Slots \ (H \cup plain) /\ FreeOK(q, (H \cup plain) \cup {x}) /\ q.live = p.live \cup {x}
    <3>1. plain \cup ({x} \ {0}) = plain \cup {x} /\ (H \cup plain) \cup {x} = H \cup (plain \cup {x})
      BY <1>1, <2>2
    <3>2. FreeOK(q, H \cup (plain \cup {x}))
      BY <2>2, <3>1
    <3> HIDE DEF H
    <3>3. /\ plain \cup {x} \subseteq OP!Slots /\ H \cap (plain \cup {x}) = {}
          /\ H \subseteq q.live /\ q.live \subseteq H \cup (plain \cup {x})
          /\ p.live \subseteq H \cup (plain \cup {x})
      BY <1>1, <2>2
    <3>4. QED BY <1>1, <3>1, <3>2, <3>3 DEF PoolInv, OwnersOK, H
  <2>3. QED BY <1>2, <2>1, <2>2
<1>4. ASSUME NEW slot \in plain \cup {0, -1}
      PROVE  PoolInv(OP!deallocated(p, slot), ptrs, plain \ {slot})
  <2> DEFINE r == OP!deallocated(p, slot)
  <2>1. CASE slot \in plain
    <3>1. FreeOK(r, (H \cup plain) \ {slot}) /\ r.live = p.live \ {slot}
      BY <1>1, <2>1, Free_give
    <3> HIDE DEF H, r
    <3>2. /\ (H \cup plain) \ {slot} = H \cup (plain \ {slot})
          /\ plain \ {slot} \subseteq OP!Slots /\ H \cap (plain \ {slot}) = {}
          /\ H \subseteq r.live /\ r.live \subseteq H \cup (plain \ {slot})
      BY <1>1, <2>1, <3>1
    <3>3. QED BY <1>1, <3>1, <3>2 DEF PoolInv, OwnersOK, H, r
  <2>2. CASE slot \notin plain
    <3>1. slot \notin OP!Slots /\ plain \ {slot} = plain
      BY <1>1, <2>2
    <3>2. r = p
      BY <1>1, <3>1, Free_give
    <3>3. QED BY <3>1, <3>2
  <2>3. QED BY <2>1, <2>2
<1>5. QED BY <1>3, <1>4 DEF x, q

\* A PoolPtr takes the slot allocated for it, then returns its old one;
\* without a slot, it returns its old one.
LEMMA Pool_pointer ==
    ASSUME NEW p, NEW ptrs, NEW plain, PoolInv(p, ptrs, plain), NEW h \in Handles
    PROVE  /\ PoolInv(OP!deallocated(OP!allocated(p), ptrs[h]),
                      [ptrs EXCEPT ![h] = OP!next_free(p)], plain)
           /\ PoolInv(OP!deallocated(p, ptrs[h]), [ptrs EXCEPT ![h] = 0], plain)
<1> DEFINE H == Holding(ptrs)
           y == ptrs[h]
<1>1. /\ FreeOK(p, H \cup plain) /\ PtrsOK(ptrs) /\ plain \subseteq OP!Slots /\ H \cap plain = {}
      /\ H \subseteq p.live /\ p.live \subseteq H \cup plain
  BY DEF PoolInv, OwnersOK
<1>2. (y \in H \/ y = 0) /\ H \subseteq OP!Slots /\ 0 \notin OP!Slots
  BY <1>1, Ptr_holds
<1>3. ASSUME NEW q, NEW x, x \in OP!Slots \cup {0}, x \notin H, x \notin plain,
             FreeOK(q, (H \cup plain) \cup ({x} \ {0})), q.live = p.live \cup ({x} \ {0})
      PROVE  PoolInv(OP!deallocated(q, y), [ptrs EXCEPT ![h] = x], plain)
  <2> DEFINE u == [ptrs EXCEPT ![h] = x]
             r == OP!deallocated(q, y)
             used == (H \cup plain) \cup ({x} \ {0})
  <2>0. Assigned(u, ptrs, h, x)
    BY DEF Assigned
  <2> HIDE DEF u
  <2>1. PtrsOK(u) /\ Holding(u) = (H \ {y}) \cup ({x} \ {0})
    <3>1. PtrsOK(ptrs) /\ x \in OP!Slots \cup {0} /\ x \notin Holding(ptrs)
      BY <1>1, <1>3
    <3>2. QED BY <2>0, <3>1, Ptr_takes
  <2>2. /\ y \notin OP!Slots => r = q
        /\ y \in used => FreeOK(r, used \ {y}) /\ r.live = q.live \ {y}
    BY <1>3, Free_give
  <2> HIDE DEF H, y, u, r
  <2>3. FreeOK(r, used \ {y}) /\ r.live = q.live \ {y}
    <3>1. CASE y \in H
      BY <2>2, <3>1
    <3>2. CASE y = 0
      <4>1. used \ {y} = used /\ q.live \ {y} = q.live
        BY <1>1, <1>2, <1>3, <3>2
      <4>2. QED BY <1>2, <1>3, <2>2, <3>2, <4>1
    <3>3. QED BY <1>2, <3>1, <3>2
  <2>4. used \ {y} = Holding(u) \cup plain
    BY <1>1, <1>2, <1>3, <2>1
  <2>5. /\ Holding(u) \cap plain = {} /\ Holding(u) \subseteq r.live
        /\ r.live \subseteq Holding(u) \cup plain
    BY <1>1, <1>2, <1>3, <2>1, <2>3
  <2>6. QED BY Zenon, <1>1, <2>1, <2>3, <2>4, <2>5 DEF PoolInv, OwnersOK, u, r, y
<1>4. PoolInv(OP!deallocated(p, y), [ptrs EXCEPT ![h] = 0], plain)
  <2>1. 0 \notin H /\ 0 \notin plain /\ (H \cup plain) \cup ({0} \ {0}) = H \cup plain
        /\ p.live \cup ({0} \ {0}) = p.live
    BY <1>1, <1>2
  <2> HIDE DEF H, y
  <2>2. QED BY <1>1, <1>3, <2>1
<1>5. PoolInv(OP!deallocated(OP!allocated(p), y), [ptrs EXCEPT ![h] = OP!next_free(p)], plain)
  <2> DEFINE x == OP!next_free(p)
             q == OP!allocated(p)
  <2>1. \/ x = 0 /\ q = p
        \/ x \in OP!Slots \ (H \cup plain) /\ FreeOK(q, (H \cup plain) \cup {x}) /\ q.live = p.live \cup {x}
    BY Zenon, <1>1, Free_take
  <2> HIDE DEF x, q, H, y
  <2>2. CASE x = 0 /\ q = p
    BY <1>4, <2>2 DEF x, q
  <2>3. CASE x \in OP!Slots \ (H \cup plain) /\ FreeOK(q, (H \cup plain) \cup {x}) /\ q.live = p.live \cup {x}
    <3>1. {x} \ {0} = {x}
      BY <1>2, <2>3
    <3>2. QED BY <1>3, <2>3, <3>1 DEF x, q
  <2>4. QED BY <2>1, <2>2, <2>3 DEF x, q
<1>6. QED BY <1>4, <1>5 DEF y

\* The list of a new pool.
LEMMA List_new ==
    ASSUME NEW n \in Nat, NEW base \in Nat
    PROVE  LET list == [i \in 1 .. n |-> base + i] IN
           /\ list \in Seq((base + 1) .. (base + n)) /\ OP!IsInjective(list) /\ Len(list) = n
           /\ OP!Range(list) = (base + 1) .. (base + n)
<1> DEFINE list == [i \in 1 .. n |-> base + i]
<1>1. /\ list \in Seq((base + 1) .. (base + n)) /\ Len(list) = n /\ DOMAIN list = 1 .. n
      /\ \A i \in 1 .. n : list[i] = base + i
  OBVIOUS
<1> HIDE DEF list
<1>2. OP!IsInjective(list)
  BY <1>1 DEF OP!IsInjective
<1>3. ASSUME NEW k \in (base + 1) .. (base + n) PROVE k \in OP!Range(list)
  <2>1. k - base \in 1 .. n /\ list[k - base] = k
    BY <1>1
  <2>2. QED BY Zenon, <1>1, <2>1 DEF OP!Range
<1>4. ASSUME NEW i \in 1 .. n PROVE list[i] \in (base + 1) .. (base + n)
  BY <1>1
<1>5. OP!Range(list) = (base + 1) .. (base + n)
  BY <1>1, <1>3, <1>4 DEF OP!Range
<1>6. QED BY <1>1, <1>2, <1>5 DEF list

\* A pool that no PoolPtr holds a slot of, chained anew.
LEMMA Pool_rebuilt ==
    ASSUME Capacity \in Nat, NEW ptrs, ptrs \in [Handles -> {0}]
    PROVE  PoolInv(OP!Rebuilt({}), ptrs, {})
<1> DEFINE p == OP!Rebuilt({})
           list == [i \in 1 .. Capacity |-> 0 + i]
<1>1. PtrsOK(ptrs) /\ Holding(ptrs) = {}
  BY DEF PtrsOK, Holding
<1>2. OP!Upto(Capacity) = list
  BY DEF OP!Upto
<1>3. p.free = list /\ p.available = Capacity /\ p.live = {}
  BY <1>2 DEF OP!Rebuilt
<1>4. list \in Seq(OP!Slots) /\ OP!IsInjective(list) /\ Len(list) = Capacity /\ OP!Range(list) = OP!Slots
  <2>1. OP!Slots = (0 + 1) .. (0 + Capacity)
    BY DEF OP!Slots
  <2> HIDE DEF list
  <2>2. QED BY Zenon, <2>1, List_new DEF list
<1> HIDE DEF p, list
<1>5. FreeOK(p, Holding(ptrs) \cup {})
  BY <1>1, <1>3, <1>4 DEF FreeOK
<1>6. OwnersOK(p.live, ptrs, {})
  BY <1>1, <1>3 DEF OwnersOK
<1>7. QED BY <1>5, <1>6 DEF PoolInv, p

\* What the program sees of the pool after an operation.
LEMMA Pool_becomes ==
    ASSUME NEW p, NEW ptrs, NEW plain, PoolInv(p, ptrs, plain), OP!Becomes(p),
           ptr_' = ptrs, raw' = plain
    PROVE  PoolInv(OP!Pool, ptr_, raw)'
BY DEF OP!Becomes, OP!Pool, PoolInv, FreeOK, OwnersOK

\* ObjectPool and PoolPtr.
LEMMA Pool_Next ==
    ASSUME Capacity \in Nat, PoolInv(OP!Pool, ptr_, raw),
           \/ OP!allocate \/ OP!allocate_raw \/ OP!reset \/ OP!clear
           \/ \E slot \in OP!Slots \cup {OP!nullptr, OP!foreign} :
                  OP!deallocate(slot) \/ OP!deallocate_raw(slot)
           \/ \E h \in Handles : \/ OP!make_pooled(h) \/ OP!release(h) \/ OP!PoolPtr_reset(h)
                                 \/ \E g \in Handles : OP!MoveAssign(h, g)
    PROVE  PoolInv(OP!Pool, ptr_, raw)'
<1> DEFINE p == OP!Pool
           x == OP!next_free(p)
           held == raw \cup ({x} \ {0})
<1>1. p.live = constructed /\ OP!nullptr = 0 /\ OP!foreign = -1 /\ p.free = free_list_
  BY DEF OP!Pool, OP!nullptr, OP!foreign
<1>2. /\ PtrsOK(ptr_) /\ FreeOK(p, Holding(ptr_) \cup raw) /\ constructed \subseteq Holding(ptr_) \cup raw
  BY <1>1 DEF PoolInv, OwnersOK
<1>3. CASE OP!allocate
  <2>1. OP!Becomes(OP!allocated(p)) /\ raw' = held /\ ptr_' = ptr_
    BY <1>1, <1>3 DEF OP!allocate
  <2>2. PoolInv(OP!allocated(p), ptr_, held)
    BY Pool_plain
  <2> HIDE DEF p, held
  <2>3. QED BY <2>1, <2>2, Pool_becomes
<1>4. CASE OP!allocate_raw
  <2> DEFINE q == OP!allocated(p)
             r == [q EXCEPT !.live = constructed]
  <2>1. OP!Becomes(r) /\ raw' = held /\ ptr_' = ptr_
    BY <1>1, <1>4 DEF OP!allocate_raw
  <2>2. PoolInv(q, ptr_, held) /\ OwnersOK(constructed, ptr_, held)
    BY <1>1, Pool_plain
  <2>3. r.free = q.free /\ r.available = q.available /\ r.live = constructed
    BY DEF OP!allocated, OP!Pool
  <2> HIDE DEF p, q, r, held
  <2>4. PoolInv(r, ptr_, held)
    BY <2>2, <2>3 DEF PoolInv, FreeOK
  <2>5. QED BY <2>1, <2>4, Pool_becomes
<1>5. CASE OP!reset
  <2>1. OP!Becomes(OP!Rebuilt({})) /\ raw' = {} /\ ptr_' = ptr_ /\ ptr_ \in [Handles -> {0}]
    BY <1>1, <1>2, <1>5 DEF OP!reset, PtrsOK
  <2>2. QED BY <2>1, Pool_rebuilt, Pool_becomes
<1>6. CASE OP!clear
  <2>1. OP!Slots \ OP!Range(free_list_) = Holding(ptr_) \cup raw
    BY <1>1, <1>2 DEF FreeOK
  <2>2. constructed \ (OP!Slots \ OP!Range(free_list_)) = {}
    BY <1>2, <2>1
  <2>3. OP!Becomes(OP!Rebuilt({})) /\ raw' = {} /\ ptr_' = ptr_ /\ ptr_ \in [Handles -> {0}]
    BY Zenon, <1>1, <1>2, <1>6, <2>2 DEF OP!clear, PtrsOK
  <2>4. QED BY <2>3, Pool_rebuilt, Pool_becomes
<1>7. ASSUME NEW slot, OP!deallocate(slot) \/ OP!deallocate_raw(slot)
      PROVE  PoolInv(OP!Pool, ptr_, raw)'
  <2>1. /\ slot \in raw \cup {0, -1} /\ OP!Becomes(OP!deallocated(p, slot))
        /\ raw' = raw \ {slot} /\ ptr_' = ptr_
    BY <1>1, <1>7 DEF OP!deallocate, OP!deallocate_raw
  <2>2. PoolInv(OP!deallocated(p, slot), ptr_, raw \ {slot})
    BY Zenon, <2>1, Pool_plain
  <2> HIDE DEF p
  <2>3. QED BY <2>1, <2>2, Pool_becomes
<1>8. ASSUME NEW h \in Handles, OP!make_pooled(h) PROVE PoolInv(OP!Pool, ptr_, raw)'
  <2> DEFINE q == OP!deallocated(OP!allocated(p), ptr_[h])
             u == [ptr_ EXCEPT ![h] = x]
  <2>1. OP!Becomes(q) /\ ptr_' = u /\ raw' = raw
    BY <1>8 DEF OP!make_pooled
  <2>2. PoolInv(q, u, raw)
    BY Zenon, Pool_pointer
  <2> HIDE DEF q, u, p
  <2>3. QED BY <2>1, <2>2, Pool_becomes
<1>9. ASSUME NEW h \in Handles, OP!PoolPtr_reset(h) PROVE PoolInv(OP!Pool, ptr_, raw)'
  <2> DEFINE q == OP!deallocated(p, ptr_[h])
             u == [ptr_ EXCEPT ![h] = 0]
  <2>1. OP!Becomes(q) /\ ptr_' = u /\ raw' = raw
    BY <1>1, <1>9 DEF OP!PoolPtr_reset
  <2>2. PoolInv(q, u, raw)
    BY Zenon, Pool_pointer
  <2> HIDE DEF q, u, p
  <2>3. QED BY <2>1, <2>2, Pool_becomes
<1>10. ASSUME NEW h \in Handles, OP!release(h) PROVE PoolInv(OP!Pool, ptr_, raw)'
  <2> DEFINE u == [ptr_ EXCEPT ![h] = 0]
             H == Holding(ptr_)
             plain == raw \cup ({ptr_[h]} \ {0})
  <2>1. OP!Becomes(p) /\ ptr_' = u /\ raw' = plain
    BY <1>1, <1>10 DEF OP!release, OP!Becomes, OP!Pool
  <2>2. (ptr_[h] \in H \/ ptr_[h] = 0) /\ H \subseteq OP!Slots /\ 0 \notin OP!Slots
    BY <1>2, Ptr_holds
  <2>3. PtrsOK(u) /\ Holding(u) = (H \ {ptr_[h]}) \cup ({0} \ {0})
    <3>1. Assigned(u, ptr_, h, 0) /\ 0 \notin H /\ 0 \in OP!Slots \cup {0}
      BY <2>2 DEF Assigned
    <3> HIDE DEF u
    <3>2. QED BY <1>2, <3>1, Ptr_takes
  <2>4. /\ raw \subseteq OP!Slots /\ H \cap raw = {} /\ H \subseteq p.live /\ p.live \subseteq H \cup raw
    BY DEF PoolInv, OwnersOK
  <2> HIDE DEF u, H, p
  <2>5. /\ Holding(u) \cup plain = H \cup raw /\ plain \subseteq OP!Slots
        /\ Holding(u) \cap plain = {} /\ Holding(u) \subseteq p.live
    BY <2>2, <2>3, <2>4
  <2>6. PoolInv(p, u, plain)
    BY Zenon, <1>2, <2>3, <2>4, <2>5 DEF PoolInv, OwnersOK, H
  <2> HIDE DEF plain
  <2>7. QED BY <2>1, <2>6, Pool_becomes
<1>11. ASSUME NEW h \in Handles, NEW g \in Handles, OP!MoveAssign(h, g)
       PROVE  PoolInv(OP!Pool, ptr_, raw)'
  <2>1. CASE h = g
    BY <1>11, <2>1 DEF OP!MoveAssign, OP!Pool, PoolInv, FreeOK, OwnersOK
  <2>2. CASE h # g
    <3> DEFINE q == OP!deallocated(p, ptr_[h])
               v == [ptr_ EXCEPT ![h] = 0]
               w == [v EXCEPT ![g] = 0]
               u == [w EXCEPT ![h] = ptr_[g]]
               y == ptr_[g]
    <3>1. OP!Becomes(q) /\ raw' = raw /\ ptr_' = [ptr_ EXCEPT ![h] = ptr_[g], ![g] = 0]
      BY <1>1, <1>11, <2>2 DEF OP!MoveAssign, OP!MovedPtrs
    <3>2. ptr_' = u
      <4>1. [ptr_ EXCEPT ![h] = ptr_[g], ![g] = 0] = u
        BY Zenon, <2>2
      <4>2. QED BY <3>1, <4>1
    <3>3. PoolInv(q, v, raw)
      BY Zenon, Pool_pointer
    <3>4. PtrsOK(v) /\ v[g] = y /\ v[h] = 0 /\ y \in OP!Slots \cup {0}
      BY Zenon, <1>2, <2>2, <3>3 DEF PoolInv, OwnersOK, PtrsOK
    <3> HIDE DEF q, v, p, y
    <3>5. (y \in Holding(v) \/ y = 0) /\ 0 \notin OP!Slots /\ Holding(v) \subseteq OP!Slots
      BY <3>4, Ptr_holds
    <3>6. PtrsOK(w) /\ Holding(w) = (Holding(v) \ {y}) \cup ({0} \ {0}) /\ w[h] = 0
      <4>1. 0 \notin Holding(v) /\ 0 \in OP!Slots \cup {0}
        BY <3>5
      <4>2. w[h] = 0
        BY <2>2, <3>4 DEF PtrsOK
      <4>0. Assigned(w, v, g, 0)
        BY DEF Assigned
      <4> HIDE DEF w
      <4>3. PtrsOK(w) /\ Holding(w) = (Holding(v) \ {v[g]}) \cup ({0} \ {0})
        BY <3>4, <4>0, <4>1, Ptr_takes
      <4>4. QED BY <3>4, <4>2, <4>3
    <3> HIDE DEF w
    <3>7. PtrsOK(u) /\ Holding(u) = (Holding(w) \ {0}) \cup ({y} \ {0})
      <4>1. y \notin Holding(w)
        BY <3>5, <3>6
      <4>2. Assigned(u, w, h, y)
        BY DEF y, Assigned
      <4> HIDE DEF u
      <4>3. QED BY <3>4, <3>6, <4>1, <4>2, Ptr_takes
    <3>8. Holding(u) = Holding(v)
      BY Zenon, <3>5, <3>6, <3>7
    <3> HIDE DEF u
    <3>9. PoolInv(q, u, raw)
      BY Zenon, <3>3, <3>7, <3>8 DEF PoolInv, OwnersOK
    <3>10. QED BY Zenon, <3>1, <3>2, <3>9, Pool_becomes
  <2>3. QED BY <2>1, <2>2
<1>12. QED BY <1>3, <1>4, <1>5, <1>6, <1>7, <1>8, <1>9, <1>10, <1>11

\* GrowingObjectPool takes a slot from its list, after a new chunk if empty.
LEMMA Growing_take ==
    ASSUME ChunkSize \in Nat \ {0}, NEW g, GrowingInv(g)
    PROVE  /\ GrowingInv(OP!grow(g)) \/ g.free # <<>>
           /\ OP!grow(g).free # <<>> \/ g.free # <<>>
           /\ g.free # <<>> =>
                  GrowingInv([g EXCEPT !.free = Tail(@), !.allocated = @ + 1,
                                       !.used = @ \cup {Head(g.free)}])
<1> DEFINE n == g.chunks * ChunkSize
<1>1. /\ g.chunks \in Nat /\ g.free \in Seq(1 .. n) /\ OP!IsInjective(g.free)
      /\ g.used = (1 .. n) \ OP!Range(g.free) /\ IsFiniteSet(g.used)
      /\ Cardinality(g.used) = g.allocated /\ DOMAIN g = {"free", "allocated", "chunks", "used"}
  BY DEF GrowingInv
<1>2. n \in Nat /\ (g.chunks + 1) * ChunkSize = n + ChunkSize
  BY <1>1
<1> HIDE DEF n
<1>3. ASSUME g.free = <<>> PROVE GrowingInv(OP!grow(g)) /\ OP!grow(g).free # <<>>
  <2> DEFINE list == [i \in 1 .. ChunkSize |-> n + i]
             r == OP!grow(g)
  <2>1. /\ list \in Seq((n + 1) .. (n + ChunkSize)) /\ OP!IsInjective(list) /\ Len(list) = ChunkSize
        /\ OP!Range(list) = (n + 1) .. (n + ChunkSize)
    BY Zenon, <1>2, List_new
  <2>2. list \o <<>> = list
    OBVIOUS
  <2>3. /\ r.free = list /\ r.chunks = g.chunks + 1 /\ r.used = g.used
        /\ r.allocated = g.allocated /\ DOMAIN r = DOMAIN g
    BY <1>1, <1>3, <2>2 DEF OP!grow, n
  <2> HIDE DEF list, r
  <2>4. g.used = 1 .. n
    BY <1>1, <1>3 DEF OP!Range
  <2>5. g.used = (1 .. (n + ChunkSize)) \ OP!Range(list) /\ list \in Seq(1 .. (n + ChunkSize))
    <3>1. \A i \in 1 .. ChunkSize : n + i \in 1 .. (n + ChunkSize)
      BY <1>2
    <3>2. list \in Seq(1 .. (n + ChunkSize))
      BY <3>1 DEF list
    <3>3. 1 .. n = (1 .. (n + ChunkSize)) \ ((n + 1) .. (n + ChunkSize))
      BY <1>2
    <3>4. QED BY <2>1, <2>4, <3>2, <3>3
  <2>6. GrowingInv(r)
    <3>1. r.chunks \in Nat /\ r.chunks * ChunkSize = n + ChunkSize
      BY <1>1, <1>2, <2>3
    <3> DEFINE top == r.chunks * ChunkSize
    <3>2. r.free \in Seq(1 .. top) /\ r.used = (1 .. top) \ OP!Range(r.free) /\ OP!IsInjective(r.free)
      BY <2>1, <2>3, <2>5, <3>1
    <3> HIDE DEF top
    <3>3. QED BY Zenon, <1>1, <2>3, <3>1, <3>2 DEF GrowingInv, top
  <2>7. r.free # <<>>
    BY <2>1, <2>3
  <2>8. QED BY <2>6, <2>7 DEF r
<1>4. ASSUME g.free # <<>>
      PROVE  GrowingInv([g EXCEPT !.free = Tail(@), !.allocated = @ + 1,
                                  !.used = @ \cup {Head(g.free)}])
  <2> DEFINE r == [g EXCEPT !.free = Tail(@), !.allocated = @ + 1, !.used = @ \cup {Head(g.free)}]
             list == g.free
             x == Head(list)
  <2>1. /\ r.free = Tail(list) /\ r.chunks = g.chunks /\ r.used = g.used \cup {x}
        /\ r.allocated = g.allocated + 1 /\ DOMAIN r = DOMAIN g
    BY <1>1
  <2>2. list \in Seq(1 .. n) /\ OP!IsInjective(list) /\ list # <<>>
    BY <1>1, <1>4
  <2> HIDE DEF r
  <2>3. /\ Tail(list) \in Seq(1 .. n) /\ OP!IsInjective(Tail(list))
        /\ x \in 1 .. n /\ x \in OP!Range(list)
        /\ OP!Range(Tail(list)) = OP!Range(list) \ {x}
    <3> HIDE DEF list
    <3>1. QED BY Zenon, <2>2, List_ends
  <2>4. g.used = (1 .. n) \ OP!Range(list)
    BY <1>1
  <2> HIDE DEF list, x
  <2>5. x \notin g.used /\ g.used \cup {x} = (1 .. n) \ OP!Range(Tail(list))
    BY <2>3, <2>4
  <2>6. IsFiniteSet(g.used \cup {x}) /\ Cardinality(g.used \cup {x}) = g.allocated + 1
    BY Zenon, <1>1, <2>5, FS_AddElement
  <2>7. GrowingInv(r)
    BY <1>1, <2>1, <2>3, <2>5, <2>6 DEF GrowingInv, n
  <2>8. QED BY <2>7 DEF r
<1>5. QED BY <1>3, <1>4

\* It takes a slot in use back.
LEMMA Growing_give ==
    ASSUME NEW g, GrowingInv(g), NEW slot \in g.used
    PROVE  GrowingInv([g EXCEPT !.free = <<slot>> \o @, !.allocated = @ - 1, !.used = @ \ {slot}])
<1> DEFINE n == g.chunks * ChunkSize
           list == g.free
           r == [g EXCEPT !.free = <<slot>> \o @, !.allocated = @ - 1, !.used = @ \ {slot}]
<1>1. /\ g.chunks \in Nat /\ list \in Seq(1 .. n) /\ OP!IsInjective(list)
      /\ g.used = (1 .. n) \ OP!Range(list) /\ IsFiniteSet(g.used)
      /\ Cardinality(g.used) = g.allocated /\ DOMAIN g = {"free", "allocated", "chunks", "used"}
  BY DEF GrowingInv
<1>2. /\ r.free = <<slot>> \o list /\ r.chunks = g.chunks /\ r.used = g.used \ {slot}
      /\ r.allocated = g.allocated - 1 /\ DOMAIN r = DOMAIN g
  BY <1>1
<1> HIDE DEF n, list, r
<1>3. slot \in (1 .. n) \ OP!Range(list)
  BY <1>1
<1>4. /\ <<slot>> \o list \in Seq(1 .. n) /\ OP!IsInjective(<<slot>> \o list)
      /\ OP!Range(<<slot>> \o list) = OP!Range(list) \cup {slot}
  BY Zenon, <1>1, <1>3, List_ends
<1>5. g.used \ {slot} = (1 .. n) \ OP!Range(<<slot>> \o list)
  BY <1>1, <1>4
<1>6. IsFiniteSet(g.used \ {slot}) /\ Cardinality(g.used \ {slot}) = g.allocated - 1
  BY Zenon, <1>1, FS_RemoveElement
<1>7. GrowingInv(r)
  BY Zenon, <1>1, <1>2, <1>4, <1>5, <1>6 DEF GrowingInv, n
<1>8. QED BY <1>7 DEF r

\* Initially every slot is free.
LEMMA ObjectPool_Init ==
    ASSUME Capacity \in Nat, ChunkSize \in Nat \ {0}, OP!Init
    PROVE  ObjectPoolInv
<1>1. ptr_ \in [Handles -> {0}] /\ raw = {} /\ OP!Pool = OP!Rebuilt({})
  BY DEF OP!Init, OP!Pool, OP!Rebuilt, OP!nullptr
<1>2. PoolInv(OP!Pool, ptr_, raw)
  <2>1. PoolInv(OP!Rebuilt({}), ptr_, {})
    BY <1>1, Pool_rebuilt
  <2>2. QED BY <1>1, <2>1
<1>3. GrowingInv(growing)
  <2>1. /\ DOMAIN growing = {"free", "allocated", "chunks", "used"}
        /\ growing.free = <<>> /\ growing.allocated = 0 /\ growing.chunks = 0 /\ growing.used = {}
    BY DEF OP!Init
  <2>2. 1 .. (growing.chunks * ChunkSize) = {} /\ <<>> \in Seq({}) /\ OP!IsInjective(<<>>)
    BY <2>1 DEF OP!IsInjective
  <2>3. QED BY <2>1, <2>2, FS_EmptySet DEF GrowingInv, OP!Range
<1>4. QED BY <1>2, <1>3 DEF ObjectPoolInv

\* Every operation of the pools and of PoolPtr keeps the invariant.
LEMMA ObjectPool_Next ==
    ASSUME Capacity \in Nat, ChunkSize \in Nat \ {0}, ObjectPoolInv, [OP!Next]_(OP!vars)
    PROVE  ObjectPoolInv'
<1>1. PoolInv(OP!Pool, ptr_, raw) /\ GrowingInv(growing)
  BY DEF ObjectPoolInv
<1>2. CASE OP!Growing_allocate \/ \E slot \in growing.used : OP!Growing_deallocate(slot)
  <2>1. PoolInv(OP!Pool, ptr_, raw)'
    BY Zenon, <1>1, <1>2 DEF OP!Growing_allocate, OP!Growing_deallocate, OP!Pool, PoolInv, FreeOK, OwnersOK
  <2>2. CASE OP!Growing_allocate
    <3> DEFINE g == IF growing.free = <<>> THEN OP!grow(growing) ELSE growing
    <3>1. GrowingInv(g) /\ g.free # <<>>
      <4>1. CASE growing.free = <<>>
        <5>1. GrowingInv(OP!grow(growing)) /\ OP!grow(growing).free # <<>>
          BY Zenon, <1>1, <4>1, Growing_take
        <5>2. QED BY <4>1, <5>1
      <4>2. CASE growing.free # <<>>
        BY <1>1, <4>2
      <4>3. QED BY <4>1, <4>2
    <3>2. growing' = [g EXCEPT !.free = Tail(@), !.allocated = @ + 1, !.used = @ \cup {Head(g.free)}]
      BY <2>2 DEF OP!Growing_allocate
    <3> HIDE DEF g
    <3>3. GrowingInv([g EXCEPT !.free = Tail(@), !.allocated = @ + 1, !.used = @ \cup {Head(g.free)}])
      BY Zenon, <3>1, Growing_take
    <3>4. GrowingInv(growing')
      BY <3>2, <3>3
    <3>5. QED BY <2>1, <3>4 DEF ObjectPoolInv, GrowingInv
  <2>3. ASSUME NEW slot \in growing.used, OP!Growing_deallocate(slot) PROVE ObjectPoolInv'
    <3>1. growing' = [growing EXCEPT !.free = <<slot>> \o @, !.allocated = @ - 1, !.used = @ \ {slot}]
      BY <2>3 DEF OP!Growing_deallocate
    <3>2. GrowingInv(growing')
      BY Zenon, <1>1, <3>1, Growing_give
    <3>3. QED BY <2>1, <3>2 DEF ObjectPoolInv, GrowingInv
  <2>4. QED BY <1>2, <2>2, <2>3
<1>3. CASE \/ OP!allocate \/ OP!allocate_raw \/ OP!reset \/ OP!clear
           \/ \E slot \in OP!Slots \cup {OP!nullptr, OP!foreign} :
                  OP!deallocate(slot) \/ OP!deallocate_raw(slot)
           \/ \E h \in Handles : \/ OP!make_pooled(h) \/ OP!release(h) \/ OP!PoolPtr_reset(h)
                                 \/ \E g \in Handles : OP!MoveAssign(h, g)
  <2>1. PoolInv(OP!Pool, ptr_, raw)'
    BY <1>1, <1>3, Pool_Next
  <2>2. growing' = growing
    BY <1>3 DEF OP!allocate, OP!allocate_raw, OP!reset, OP!clear, OP!deallocate, OP!deallocate_raw,
                OP!make_pooled, OP!release, OP!PoolPtr_reset, OP!MoveAssign
  <2>3. QED BY Zenon, <1>1, <2>1, <2>2 DEF ObjectPoolInv, GrowingInv
<1>4. CASE UNCHANGED OP!vars
  <2>1. ptr_' = ptr_ /\ raw' = raw /\ growing' = growing /\ OP!Becomes(OP!Pool)
    BY <1>4 DEF OP!vars, OP!Becomes, OP!Pool
  <2>2. PoolInv(OP!Pool, ptr_, raw)'
    BY <1>1, <2>1, Pool_becomes
  <2>3. QED BY Zenon, <1>1, <2>1, <2>2 DEF ObjectPoolInv, GrowingInv
<1>5. QED BY <1>2, <1>3, <1>4 DEF OP!Next

\* No slot of ObjectPool or of GrowingObjectPool is in the free list twice,
\* or while it is in use, or has two owners, for any number of slots, chunks
\* and PoolPtrs and any sequence of their operations.
THEOREM SlotsStayExact ==
    ASSUME Capacity \in Nat, ChunkSize \in Nat \ {0}
    PROVE  OP!Spec => []OP!SlotsExact
<1>1. ObjectPoolInv => OP!SlotsExact
  <2> SUFFICES ASSUME ObjectPoolInv PROVE OP!SlotsExact
    OBVIOUS
  <2>1. /\ FreeOK(OP!Pool, Holding(ptr_) \cup raw) /\ OwnersOK(constructed, ptr_, raw)
        /\ OP!Pool.free = free_list_ /\ OP!Pool.available = available_
    BY DEF ObjectPoolInv, PoolInv, OP!Pool
  <2>2. OP!Held = Holding(ptr_) /\ OP!nullptr = 0
    BY DEF OP!Held, Holding, OP!nullptr
  <2>3. /\ OP!IsInjective(growing.free) /\ Cardinality(growing.used) = growing.allocated
        /\ growing.used = (1 .. (growing.chunks * ChunkSize)) \ OP!Range(growing.free)
    BY DEF ObjectPoolInv, GrowingInv
  <2>4. OP!Cardinality(growing.used) = Cardinality(growing.used)
    BY DEF OP!Cardinality, Cardinality
  <2>5. /\ OP!IsInjective(free_list_) /\ Len(free_list_) = available_
        /\ OP!Held \cup raw = OP!Slots \ OP!Range(free_list_)
    BY <2>1, <2>2 DEF FreeOK
  <2>6. /\ \A h, g \in Handles : h # g /\ ptr_[h] = ptr_[g] => ptr_[h] = OP!nullptr
        /\ OP!Held \cap raw = {} /\ OP!Held \subseteq constructed
        /\ constructed \subseteq OP!Held \cup raw
    BY <2>1, <2>2 DEF OwnersOK, PtrsOK
  <2>7. QED BY <2>3, <2>4, <2>5, <2>6 DEF OP!SlotsExact
<1>2. QED BY <1>1, ObjectPool_Init, ObjectPool_Next, PTL DEF OP!Spec

-----------------------------------------------------------------------------
(***************************************************************************)
(* RingBuffer.  The places of the bytes, and the two counters, only matter *)
(* up to a multiple of Size and of Width: Same(n, a, b).                   *)
(***************************************************************************)
CONSTANTS Size, Width, Bytes

VARIABLES buffer_, head_, tail_, arriving, queue

RB == INSTANCE RingBuffer

Same(n, a, b) == \E q \in Int : a = b + n * q

\* What a remainder is.
LEMMA Mod_is ==
    ASSUME NEW n \in Nat \ {0}, NEW a \in Int
    PROVE  a % n \in 0 .. (n - 1) /\ a % n \in Int /\ Same(n, a % n, a)
<1>1. a \div n \in Int /\ a % n \in 0 .. (n - 1) /\ a = n * (a \div n) + (a % n)
  OBVIOUS
<1>2. -(a \div n) \in Int /\ (a % n) = a + n * (-(a \div n))
  BY <1>1
<1>3. Same(n, a % n, a)
  BY Zenon, <1>2 DEF Same
<1>4. QED BY <1>1, <1>3

\* Less than a multiple is no multiple.
LEMMA Multiple_zero ==
    ASSUME NEW n \in Nat \ {0}, NEW q \in Int, -n < n * q, n * q < n
    PROVE  q = 0
<1>1. CASE q >= 1
  <2>1. n * q >= n
    BY <1>1
  <2>2. QED BY <2>1
<1>2. CASE q <= -1
  <2>1. n * q <= -n
    BY <1>2
  <2>2. QED BY <2>1
<1>3. QED BY <1>1, <1>2

\* Equal up to a multiple, and less than one apart.
LEMMA Same_close ==
    ASSUME NEW n \in Nat \ {0}, NEW a \in Int, NEW b \in Int, Same(n, a, b), -n < a - b, a - b < n
    PROVE  a = b
<1>1. PICK q \in Int : a = b + n * q
  BY DEF Same
<1>2. n * q \in Int /\ n * q = a - b
  BY <1>1
<1>3. q = 0
  BY <1>2, Multiple_zero
<1>4. QED BY <1>1, <1>3

\* Same is an equivalence.
LEMMA Same_equivalence ==
    ASSUME NEW n \in Nat \ {0}, NEW a \in Int, NEW b \in Int, Same(n, a, b)
    PROVE  Same(n, b, a) /\ \A c \in Int : Same(n, b, c) => Same(n, a, c)
<1>1. PICK q \in Int : a = b + n * q
  BY DEF Same
<1>2. Same(n, b, a)
  <2>1. -q \in Int /\ b = a + n * (-q)
    BY <1>1
  <2>2. QED BY <2>1 DEF Same
<1>3. ASSUME NEW c \in Int, Same(n, b, c) PROVE Same(n, a, c)
  <2>1. PICK p \in Int : b = c + n * p
    BY <1>3 DEF Same
  <2>2. p + q \in Int /\ a = c + n * (p + q)
    BY <1>1, <2>1
  <2>3. QED BY <2>2 DEF Same
<1>4. QED BY <1>2, <1>3

\* Two numbers moved by the same distance stay the same up to a multiple.
LEMMA Same_moved ==
    ASSUME NEW n \in Nat \ {0}, NEW a \in Int, NEW b \in Int, NEW c \in Int, NEW d \in Int,
           Same(n, a, b), c - a = d - b
    PROVE  Same(n, c, d)
<1>1. PICK q \in Int : a = b + n * q
  BY DEF Same
<1>2. c = d + n * q
  BY <1>1
<1>3. QED BY <1>2 DEF Same

\* Same respects differences, and a whole turn.
LEMMA Same_difference ==
    ASSUME NEW n \in Nat \ {0}, NEW a \in Int, NEW b \in Int, NEW c \in Int, NEW d \in Int,
           Same(n, a, b), Same(n, c, d),
           NEW x \in Int, NEW y \in Int, x = a - c, y \in {b - d, b - d + n, b - d - n}
    PROVE  Same(n, x, y)
<1>1. PICK q \in Int : a = b + n * q
  BY Zenon DEF Same
<1>2. PICK p \in Int : c = d + n * p
  BY Zenon DEF Same
<1>3. q - p \in Int /\ x = (b - d) + n * (q - p)
  BY <1>1, <1>2
<1>4. q - p - 1 \in Int /\ x = (b - d + n) + n * (q - p - 1)
  BY <1>1, <1>2
<1>5. q - p + 1 \in Int /\ x = (b - d - n) + n * (q - p + 1)
  BY <1>1, <1>2
<1>6. QED BY Zenon, <1>3, <1>4, <1>5 DEF Same

\* Remainders agree exactly when the numbers are the same up to a multiple.
LEMMA Mod_same ==
    ASSUME NEW n \in Nat \ {0}, NEW a \in Int, NEW b \in Int, Same(n, a, b)
    PROVE  a % n = b % n
<1>1. /\ a % n \in 0 .. (n - 1) /\ b % n \in 0 .. (n - 1) /\ a % n \in Int /\ b % n \in Int
      /\ Same(n, a % n, a) /\ Same(n, b % n, b)
  BY Mod_is
<1>2. Same(n, a % n, b) /\ Same(n, b, b % n)
  BY Zenon, <1>1, Same_equivalence
<1>3. Same(n, a % n, b % n)
  BY <1>1, <1>2, Same_equivalence
<1>4. -n < (a % n) - (b % n) /\ (a % n) - (b % n) < n
  BY <1>1
<1>5. QED BY Zenon, <1>1, <1>3, <1>4, Same_close

\* A number below the divisor is its own remainder.
LEMMA Mod_small ==
    ASSUME NEW n \in Nat \ {0}, NEW a \in Int, NEW b \in 0 .. (n - 1), Same(n, a, b)
    PROVE  a % n = b
<1>1. a % n \in 0 .. (n - 1) /\ a % n \in Int /\ Same(n, a % n, a)
  BY Mod_is
<1>2. Same(n, a % n, b) /\ b \in Int
  BY <1>1, Same_equivalence
<1>3. -n < (a % n) - b /\ (a % n) - b < n
  BY <1>1
<1>4. QED BY Zenon, <1>1, <1>2, <1>3, Same_close

\* The counters are size_t and Size is a power of 2: they wrap at a multiple
\* of it.
RingConstants == /\ Size \in Nat \ {0} /\ Width \in Nat /\ Bytes \in Nat \ {0}
                 /\ Size < Width /\ \E k \in Int : Width = Size * k

\* The bytes that are not consumed lie in order from head_ on, up to tail_.
RingInv ==
    /\ head_ \in 0 .. (Width - 1) /\ tail_ \in 0 .. (Width - 1) /\ arriving \in Int
    /\ queue \in Seq(Int) /\ Len(queue) <= Size /\ Same(Width, tail_, head_ + Len(queue))
    /\ buffer_ \in [0 .. (Size - 1) -> Int]
    /\ \A i \in 1 .. Len(queue) : buffer_[(head_ + i - 1) % Size] = queue[i]

\* Masking a counter after it wrapped gives the place it gave before.
LEMMA Width_same ==
    ASSUME RingConstants, NEW a \in Int, NEW b \in Int, Same(Width, a, b)
    PROVE  Same(Size, a, b)
<1>1. PICK k \in Int : Width = Size * k
  BY DEF RingConstants
<1>2. PICK q \in Int : a = b + Width * q
  BY DEF Same
<1>3. Size \in Int
  BY DEF RingConstants
<1>4. k * q \in Int /\ a = b + Size * (k * q)
  BY <1>1, <1>2, <1>3
<1>5. QED BY <1>4 DEF Same

\* size() is the number of bytes not consumed, wherever the counters are.
LEMMA Ring_size ==
    ASSUME RingConstants, RingInv
    PROVE  RB!size = Len(queue) /\ Len(queue) \in Nat /\ Len(queue) <= Size
           /\ Same(Size, tail_, head_ + Len(queue))
<1>1. /\ head_ \in Int /\ tail_ \in Int /\ Len(queue) \in Nat /\ Len(queue) <= Size
      /\ Same(Width, tail_, head_ + Len(queue)) /\ Width \in Nat \ {0}
      /\ Size \in Nat /\ Size < Width
  BY DEF RingInv, RingConstants
<1> DEFINE d == tail_ - head_
           e == head_ + Len(queue)
<1>2. d \in Int /\ e \in Int /\ d - tail_ = Len(queue) - e /\ Len(queue) \in 0 .. (Width - 1)
  BY <1>1
<1> HIDE DEF d, e
<1>3. Same(Width, tail_, e)
  BY <1>1 DEF e
<1>4. Same(Width, d, Len(queue))
  BY <1>1, <1>2, <1>3, Same_moved
<1>5. d % Width = Len(queue)
  BY Zenon, <1>1, <1>2, <1>4, Mod_small
<1>6. Same(Size, tail_, e)
  BY <1>1, <1>2, <1>3, Width_same
<1>7. QED BY <1>1, <1>5, <1>6 DEF RB!size, d, e

\* read, skip: the first n bytes are consumed.
LEMMA Ring_consume ==
    ASSUME RingConstants, RingInv, NEW n \in 0 .. Len(queue), RB!Consumed(n)
    PROVE  RingInv'
<1> DEFINE L == Len(queue)
           r == SubSeq(queue, n + 1, L)
           g == (head_ + n) % Width
<1>1. /\ head_ \in Int /\ tail_ \in Int /\ L \in Nat /\ L <= Size /\ n \in Int /\ n <= L /\ 0 <= n
      /\ Width \in Nat \ {0} /\ Size \in Nat \ {0} /\ queue \in Seq(Int)
      /\ Same(Width, tail_, head_ + L)
  BY DEF RingInv, RingConstants
<1>2. head_' = g /\ queue' = r /\ buffer_' = buffer_ /\ tail_' = tail_ /\ arriving' = arriving
  BY DEF RB!Consumed
<1>3. r \in Seq(Int) /\ Len(r) = L - n /\ \A i \in 1 .. (L - n) : r[i] = queue[n + i]
  BY <1>1
<1>4. g \in 0 .. (Width - 1) /\ g \in Int /\ Same(Width, g, head_ + n) /\ head_ + n \in Int
  <2> DEFINE h == head_ + n
  <2>1. h \in Int
    BY <1>1
  <2> HIDE DEF h
  <2>2. h % Width \in 0 .. (Width - 1) /\ h % Width \in Int /\ Same(Width, h % Width, h)
    BY Zenon, <1>1, <2>1, Mod_is
  <2>3. QED BY <2>1, <2>2 DEF h
<1> HIDE DEF r, g
<1>5. Same(Width, tail_, g + (L - n))
  <2> DEFINE e == head_ + L
             f == g + (L - n)
  <2>1. e \in Int /\ f \in Int /\ f - g = e - (head_ + n)
    BY <1>1, <1>4
  <2>2. Same(Width, tail_, e)
    BY <1>1
  <2> HIDE DEF e, f
  <2>3. Same(Width, f, e)
    BY Zenon, <1>1, <1>4, <2>1, Same_moved
  <2>4. Same(Width, e, f)
    BY Zenon, <1>1, <2>1, <2>3, Same_equivalence
  <2>5. Same(Width, tail_, f)
    BY Zenon, <1>1, <2>1, <2>2, <2>4, Same_equivalence
  <2>6. QED BY <2>5 DEF f
<1>6. ASSUME NEW i \in 1 .. (L - n) PROVE buffer_[(g + i - 1) % Size] = r[i]
  <2> DEFINE c == g + i - 1
             d == head_ + (n + i) - 1
  <2>1. n + i \in 1 .. L /\ c \in Int /\ d \in Int /\ c - g = d - (head_ + n)
    BY <1>1, <1>4
  <2>2. buffer_[d % Size] = queue[n + i]
    BY <2>1 DEF RingInv
  <2> HIDE DEF c, d
  <2>3. Same(Size, g, head_ + n)
    BY <1>4, Width_same
  <2>4. Same(Size, c, d)
    BY Zenon, <1>1, <1>4, <2>1, <2>3, Same_moved
  <2>5. c % Size = d % Size
    BY Zenon, <1>1, <2>1, <2>4, Mod_same
  <2>6. buffer_[c % Size] = r[i]
    BY <1>3, <2>2, <2>5
  <2>7. QED BY <2>6 DEF c
<1>7. QED BY <1>1, <1>2, <1>3, <1>4, <1>5, <1>6 DEF RingInv

\* Where the i-th byte lies, seen from the place at which a write stores.
LEMMA Ring_place ==
    ASSUME RingConstants, RingInv, NEW at \in Int, Same(Size, at, tail_),
           NEW n \in 0 .. (Size - Len(queue)), NEW i \in 1 .. (Len(queue) + n), NEW j,
           j = (head_ + i - 1) % Size
    PROVE  /\ j \in 0 .. (Size - 1)
           /\ i <= Len(queue) => (j - at) % Size = i - 1 - Len(queue) + Size
           /\ i > Len(queue) => (j - at) % Size = i - 1 - Len(queue)
<1> DEFINE L == Len(queue)
           p == head_ + i - 1
           e == head_ + L
           d == j - at
           v == i - 1 - L
<1>1. /\ head_ \in Int /\ tail_ \in Int /\ L \in Nat /\ L <= Size /\ Size \in Nat \ {0}
      /\ n \in Nat /\ L + n <= Size /\ i \in Int /\ p \in Int /\ e \in Int
      /\ p - e = v
  BY Ring_size DEF RingInv, RingConstants
<1>2. Same(Size, tail_, e)
  BY Ring_size
<1>3. j = p % Size
  OBVIOUS
<1> HIDE DEF e, p, v
<1>4. j \in 0 .. (Size - 1) /\ j \in Int /\ Same(Size, j, p)
  BY Zenon, <1>1, <1>3, Mod_is
<1>5. Same(Size, at, e)
  BY Zenon, <1>1, <1>2, Same_equivalence
<1>6. d \in Int /\ d = j - at /\ v \in Int /\ v = i - 1 - L
  BY <1>1, <1>4 DEF v
<1> HIDE DEF d
<1> DEFINE w == v + Size
<1>7. w \in Int /\ w = p - e + Size
  BY <1>1, <1>6
<1> HIDE DEF w
<1>8. Same(Size, d, v) /\ Same(Size, d, w)
  BY <1>1, <1>4, <1>5, <1>6, <1>7, Same_difference
<1>9. ASSUME i <= L PROVE d % Size = w
  <2>1. w \in 0 .. (Size - 1)
    BY <1>1, <1>6, <1>9 DEF w
  <2>2. QED BY Zenon, <1>1, <1>6, <1>8, <2>1, Mod_small
<1>10. ASSUME i > L PROVE d % Size = v
  <2>1. v \in 0 .. (Size - 1)
    BY <1>1, <1>6, <1>10
  <2>2. QED BY Zenon, <1>1, <1>6, <1>8, <2>1, Mod_small
<1>11. QED BY <1>4, <1>6, <1>9, <1>10 DEF d, w

\* write, and a receive into write_span: n bytes that fit are added.
LEMMA Ring_store ==
    ASSUME RingConstants, RingInv, NEW at \in Int, Same(Size, at, tail_),
           NEW n \in 0 .. (Size - Len(queue)),
           buffer_' = RB!Stored(at, RB!Stream(n)), RB!Arrived(n)
    PROVE  RingInv'
<1> DEFINE L == Len(queue)
           s == RB!Stream(n)
           r == queue \o s
           z == tail_ + n
<1>1. /\ head_ \in Int /\ tail_ \in Int /\ L \in Nat /\ n \in Nat /\ L + n <= Size
      /\ Width \in Nat \ {0} /\ Size \in Nat \ {0} /\ queue \in Seq(Int) /\ z \in Int
      /\ Same(Width, tail_, head_ + L) /\ Bytes \in Nat \ {0} /\ arriving \in Int
      /\ buffer_ \in [0 .. (Size - 1) -> Int] /\ head_ \in 0 .. (Width - 1)
  BY Ring_size DEF RingInv, RingConstants
<1>2. /\ tail_' = z % Width /\ arriving' = (arriving + n) % Bytes /\ queue' = r
      /\ head_' = head_
  BY DEF RB!Arrived
<1>3. s \in Seq(Int) /\ Len(s) = n
  <2>1. ASSUME NEW k \in 1 .. n PROVE (arriving + k - 1) % Bytes \in Int
    <3> DEFINE x == arriving + k - 1
    <3>1. x \in Int
      BY <1>1
    <3> HIDE DEF x
    <3>2. x % Bytes \in Int
      BY <1>1, <3>1, Mod_is
    <3>3. QED BY <3>2 DEF x
  <2>2. s = [k \in 1 .. n |-> (arriving + k - 1) % Bytes]
    BY DEF RB!Stream
  <2>3. QED BY <1>1, <2>1, <2>2
<1> HIDE DEF s
<1>4. /\ r \in Seq(Int) /\ Len(r) = L + n /\ \A i \in 1 .. L : r[i] = queue[i]
      /\ \A k \in 1 .. n : r[L + k] = s[k]
  <2>1. r \in Seq(Int) /\ Len(r) = L + n
    <3>1. queue \in Seq(Int) /\ s \in Seq(Int)
      BY <1>1, <1>3
    <3>2. r \in Seq(Int) /\ Len(r) = Len(queue) + Len(s)
      BY <3>1
    <3>3. QED BY <1>3, <3>2
  <2>2. ASSUME NEW i \in 1 .. L PROVE r[i] = queue[i]
    BY <1>1, <1>3
  <2>3. ASSUME NEW k \in 1 .. n PROVE r[L + k] = s[k]
    BY <1>1, <1>3
  <2>4. QED BY <2>1, <2>2, <2>3
<1> HIDE DEF r
<1>5. arriving' \in Int
  <2> DEFINE x == arriving + n
  <2>1. x \in Int
    BY <1>1
  <2> HIDE DEF x
  <2>2. x % Bytes \in Int
    BY <1>1, <2>1, Mod_is
  <2>3. QED BY <1>2, <2>2 DEF x
<1>6. tail_' \in 0 .. (Width - 1) /\ Same(Width, tail_', head_ + (L + n))
  <2> DEFINE e == head_ + L
             f == head_ + (L + n)
  <2>1. e \in Int /\ f \in Int /\ z - tail_ = f - e /\ Same(Width, tail_, e)
    BY <1>1
  <2> HIDE DEF e, f, z
  <2>2. tail_' \in 0 .. (Width - 1) /\ tail_' \in Int /\ Same(Width, tail_', z)
    BY Zenon, <1>1, <1>2, Mod_is
  <2>3. Same(Width, z, f)
    BY Zenon, <1>1, <2>1, Same_moved
  <2>4. Same(Width, tail_', f)
    BY Zenon, <1>1, <2>1, <2>2, <2>3, Same_equivalence
  <2>5. QED BY <2>2, <2>4 DEF f
<1>7. /\ DOMAIN buffer_' = 0 .. (Size - 1)
      /\ \A j \in 0 .. (Size - 1) :
             buffer_'[j] = IF ((j - at) % Size) + 1 <= Len(s) THEN s[((j - at) % Size) + 1] ELSE buffer_[j]
  BY <1>1 DEF RB!Stored, s
<1>8. ASSUME NEW j \in 0 .. (Size - 1) PROVE buffer_'[j] \in Int
  <2> DEFINE d == j - at
             k == (d % Size) + 1
  <2>1. d \in Int
    OBVIOUS
  <2> HIDE DEF d
  <2>2. d % Size \in 0 .. (Size - 1)
    BY Zenon, <1>1, <2>1, Mod_is
  <2>3. k \in Nat \ {0}
    BY <1>1, <2>2
  <2>4. buffer_'[j] = IF k <= Len(s) THEN s[k] ELSE buffer_[j]
    BY <1>7 DEF d
  <2> HIDE DEF k
  <2>5. k <= n => s[k] \in Int
    BY <1>1, <1>3, <2>3
  <2>6. QED BY <1>1, <1>3, <2>4, <2>5
<1>9. ASSUME NEW i \in 1 .. (L + n) PROVE buffer_'[(head_ + i - 1) % Size] = r[i]
  <2> DEFINE j == (head_ + i - 1) % Size
             x == (j - at) % Size
  <2>1. /\ j \in 0 .. (Size - 1)
        /\ i <= L => x = i - 1 - L + Size
        /\ i > L => x = i - 1 - L
    BY Zenon, <1>1, Ring_place
  <2>2. i <= L => buffer_[j] = queue[i]
    BY <1>1 DEF RingInv
  <2>3. buffer_'[j] = IF x + 1 <= Len(s) THEN s[x + 1] ELSE buffer_[j]
    BY <1>7, <2>1
  <2> HIDE DEF j, x
  <2>4. CASE i <= L
    <3>1. ~(x + 1 <= Len(s))
      BY <1>1, <1>3, <2>1, <2>4
    <3>2. QED BY <1>4, <2>2, <2>3, <2>4, <3>1 DEF j
  <2>5. CASE i > L
    <3>1. x + 1 <= Len(s) /\ x + 1 = i - L
      BY <1>1, <1>3, <2>1, <2>5
    <3>2. i - L \in 1 .. n /\ L + (i - L) = i
      BY <1>1, <2>5
    <3>3. r[i] = s[i - L]
      BY <1>4, <3>2
    <3>4. QED BY <2>3, <3>1, <3>3 DEF j
  <2>6. QED BY <1>1, <2>4, <2>5
<1>10. buffer_' \in [0 .. (Size - 1) -> Int]
  <2>1. buffer_' = [j \in 0 .. (Size - 1) |-> buffer_'[j]]
    BY <1>1 DEF RB!Stored
  <2>2. QED BY <1>8, <2>1
<1>11. QED BY <1>1, <1>2, <1>4, <1>5, <1>6, <1>9, <1>10 DEF RingInv

\* write_span is free room that ends with the array.
LEMMA Ring_write_span ==
    ASSUME RingConstants, RingInv
    PROVE  /\ RB!available \in 0 .. Size /\ RB!available = Size - Len(queue)
           /\ RB!write_span.at = tail_ % Size /\ RB!write_span.at \in Int
           /\ Same(Size, RB!write_span.at, tail_)
           /\ RB!write_span.len \in Int /\ RB!write_span.len <= RB!available
           /\ RB!available > 0 => RB!write_span.len > 0
           /\ RB!write_span.at + RB!write_span.len <= Size
<1>1. RB!available \in 0 .. Size /\ RB!available = Size - Len(queue) /\ Size \in Nat \ {0}
  BY Ring_size DEF RB!available, RingConstants
<1>2. tail_ \in Int
  BY DEF RingInv
<1> DEFINE end == tail_ % Size
<1>3. end \in 0 .. (Size - 1) /\ end \in Int /\ Same(Size, end, tail_)
  BY Zenon, <1>1, <1>2, Mod_is
<1>4. /\ RB!write_span.at = end
      /\ RB!write_span.len = IF end + RB!available <= Size THEN RB!available ELSE Size - end
  BY DEF RB!write_span
<1> HIDE DEF end
<1>5. QED BY <1>1, <1>3, <1>4 DEF end

\* read_span is a front part of the bytes.
LEMMA Ring_read_span ==
    ASSUME RingConstants, RingInv
    PROVE  /\ RB!read_span.len <= Len(queue) /\ (Len(queue) > 0 => RB!read_span.len > 0)
           /\ \A i \in 1 .. RB!read_span.len : buffer_[RB!read_span.at + i - 1] = queue[i]
<1> DEFINE L == Len(queue)
           start == head_ % Size
           end == tail_ % Size
           e == head_ + L
<1>1. /\ RB!size = L /\ L \in Nat /\ L <= Size /\ head_ \in Int /\ tail_ \in Int
      /\ Size \in Nat \ {0} /\ Same(Size, tail_, e) /\ e \in Int /\ L = e - head_
  BY Ring_size DEF RingInv, RingConstants
<1>2. start \in 0 .. (Size - 1) /\ start \in Int /\ Same(Size, start, head_)
  BY Zenon, <1>1, Mod_is
<1>3. end \in 0 .. (Size - 1) /\ end \in Int /\ Same(Size, end, tail_)
  BY <1>1, Mod_is
<1>4. RB!read_span = IF start < end THEN [at |-> start, len |-> end - start]
                     ELSE IF L > 0 THEN [at |-> start, len |-> Size - start]
                     ELSE [at |-> 0, len |-> 0]
  BY <1>1 DEF RB!read_span
<1>5. ASSUME NEW i \in 1 .. L, start + i <= Size PROVE buffer_[start + i - 1] = queue[i]
  <2> DEFINE p == head_ + i - 1
             q == start + i - 1
  <2>1. p \in Int /\ q \in 0 .. (Size - 1) /\ p - head_ = q - start /\ q \in Int
    BY <1>1, <1>2, <1>5
  <2>2. buffer_[p % Size] = queue[i]
    BY DEF RingInv
  <2> HIDE DEF p, q, start
  <2>3. Same(Size, head_, start)
    BY Zenon, <1>1, <1>2, Same_equivalence
  <2>4. Same(Size, p, q)
    BY Zenon, <1>1, <1>2, <2>1, <2>3, Same_moved
  <2>5. p % Size = q
    BY Zenon, <1>1, <2>1, <2>4, Mod_small
  <2>6. QED BY <2>2, <2>5 DEF q
<1> DEFINE d == end - start
           w == L - Size
<1>6. d \in Int /\ w \in Int /\ w = e - head_ - Size /\ d = end - start /\ w = L - Size
      /\ L \in Int
  BY <1>1, <1>2, <1>3
<1> HIDE DEF start, end, e, d, w, L
<1>7. Same(Size, end, e)
  BY <1>1, <1>3, Same_equivalence
<1>8. Same(Size, d, L) /\ Same(Size, d, w)
  BY <1>1, <1>2, <1>3, <1>6, <1>7, Same_difference
<1> DEFINE span == RB!read_span
<1>9. span.len \in Int /\ span.len <= L /\ (L > 0 => span.len > 0)
      /\ (L > 0 => span.at = start /\ start + span.len <= Size)
  <2>1. CASE start < end
    <3>1. -Size < d - L /\ d - L < Size
      BY <1>1, <1>2, <1>3, <1>6, <2>1
    <3>2. d = L
      BY Zenon, <1>1, <1>6, <1>8, <3>1, Same_close
    <3>3. span.at = start /\ span.len = end - start
      BY <1>4, <2>1
    <3> HIDE DEF span
    <3>4. QED BY <1>1, <1>2, <1>3, <1>6, <2>1, <3>2, <3>3
  <2>2. CASE ~(start < end) /\ L > 0
    <3>1. -Size < d - w /\ d - w < Size
      BY <1>1, <1>2, <1>3, <1>6, <2>2
    <3>2. d = w
      BY Zenon, <1>1, <1>6, <1>8, <3>1, Same_close
    <3>3. span.at = start /\ span.len = Size - start
      BY <1>4, <2>2
    <3> HIDE DEF span
    <3>4. QED BY <1>1, <1>2, <1>3, <1>6, <2>2, <3>2, <3>3
  <2>3. CASE ~(start < end) /\ ~(L > 0)
    <3>1. span.len = 0
      BY <1>4, <2>3
    <3> HIDE DEF span
    <3>2. QED BY <1>1, <2>3, <3>1
  <2>4. QED BY <2>1, <2>2, <2>3
<1>10. ASSUME NEW i \in 1 .. span.len PROVE buffer_[span.at + i - 1] = queue[i]
  <2> HIDE DEF span
  <2>1. i \in 1 .. L /\ L > 0 /\ span.at = start /\ start + i <= Size
    BY <1>1, <1>2, <1>9
  <2>2. QED BY <1>5, <2>1
<1>11. QED BY <1>9, <1>10 DEF L

\* A new RingBuffer.
LEMMA Ring_Init == ASSUME RingConstants, RB!Init PROVE RingInv
<1>1. /\ Size \in Nat \ {0} /\ Width \in Nat \ {0} /\ head_ = 0 /\ tail_ = 0 /\ queue = <<>>
      /\ arriving = 0 /\ buffer_ = [i \in 0 .. (Size - 1) |-> 0]
  BY DEF RB!Init, RingConstants
<1>2. 0 = 0 + Width * 0
  BY <1>1
<1>3. Same(Width, 0, 0)
  BY <1>2 DEF Same
<1>4. Len(queue) = 0 /\ queue \in Seq(Int) /\ head_ + Len(queue) = 0 /\ 1 .. Len(queue) = {}
  BY <1>1
<1>5. QED BY <1>1, <1>3, <1>4 DEF RingInv

\* Every operation keeps the bytes in their places.
LEMMA Ring_Next == ASSUME RingConstants, RingInv, [RB!Next]_(RB!vars) PROVE RingInv'
<1>1. /\ RB!size = Len(queue) /\ Len(queue) \in Nat /\ Len(queue) <= Size /\ Size \in Nat \ {0}
      /\ RB!available = Size - Len(queue) /\ tail_ \in Int
  <2>1. RB!size = Len(queue) /\ Len(queue) \in Nat /\ Len(queue) <= Size
    BY Ring_size
  <2>2. RB!available = Size - Len(queue)
    BY Ring_write_span
  <2>3. Size \in Nat \ {0} /\ tail_ \in Int
    BY DEF RingConstants, RingInv
  <2>4. QED BY <2>1, <2>2, <2>3
<1>2. CASE RB!clear
  <2>1. /\ Width \in Nat \ {0} /\ head_' = 0 /\ tail_' = 0 /\ queue' = <<>>
        /\ arriving' = arriving /\ buffer_' = buffer_
    BY <1>2 DEF RB!clear, RingConstants
  <2>2. 0 = 0 + Width * 0
    BY <2>1
  <2>3. Same(Width, 0, 0)
    BY <2>2 DEF Same
  <2>4. Len(queue') = 0 /\ queue' \in Seq(Int) /\ head_' + Len(queue') = 0 /\ 1 .. Len(queue') = {}
    BY <2>1
  <2>5. QED BY <1>1, <2>1, <2>3, <2>4 DEF RingInv
<1>3. ASSUME NEW n \in 1 .. (Size + 1), RB!write(n) PROVE RingInv'
  <2> DEFINE k == RB!Room(n)
  <2>1. k \in 0 .. (Size - Len(queue))
    BY <1>1 DEF RB!Room, RB!Least
  <2>2. buffer_' = RB!Stored(tail_, RB!Stream(k)) /\ RB!Arrived(k)
    BY <1>3 DEF RB!write
  <2>3. Same(Size, tail_, tail_)
    <3>1. tail_ = tail_ + Size * 0
      BY <1>1
    <3>2. QED BY <3>1 DEF Same
  <2> HIDE DEF k
  <2>4. QED BY <1>1, <2>1, <2>2, <2>3, Ring_store
<1>4. ASSUME NEW n \in 1 .. (Size + 1), RB!read(n) \/ RB!skip(n) PROVE RingInv'
  <2> DEFINE k == RB!Least(n, RB!size)
  <2>1. k \in 0 .. Len(queue)
    BY <1>1 DEF RB!Least
  <2>2. RB!Consumed(k)
    BY <1>4 DEF RB!read, RB!skip
  <2> HIDE DEF k
  <2>3. QED BY <2>1, <2>2, Ring_consume
<1>5. ASSUME NEW n \in 1 .. (Size + 1), RB!receive(n) PROVE RingInv'
  <2> DEFINE at == RB!write_span.at
  <2>1. /\ n <= RB!write_span.len /\ buffer_' = RB!Stored(at, RB!Stream(n))
        /\ RB!Arrived(RB!Least(n, RB!available))
    BY <1>5 DEF RB!receive
  <2>2. /\ at \in Int /\ Same(Size, at, tail_)
        /\ RB!write_span.len \in Int /\ RB!write_span.len <= RB!available
    BY Ring_write_span
  <2> HIDE DEF at
  <2>3. n \in 0 .. (Size - Len(queue)) /\ n <= RB!available
    BY <1>1, <2>1, <2>2
  <2>4. RB!Least(n, RB!available) = n
    BY <1>1, <2>3 DEF RB!Least
  <2>5. QED BY <2>1, <2>2, <2>3, <2>4, Ring_store
<1>6. CASE UNCHANGED RB!vars
  BY <1>6 DEF RB!vars, RingInv
<1>7. QED BY <1>2, <1>3, <1>4, <1>5, <1>6 DEF RB!Next

\* The buffer of a connection is a queue of at most Size bytes for every
\* size and width of its counters, also when they wrap: bytes come out in
\* the order they went in, and the spans io_uring and the parser are given
\* are the free room and a front part of the bytes.
THEOREM RingStaysInOrder == ASSUME RingConstants PROVE RB!Spec => []RB!RingInOrder
<1>1. ASSUME RingInv PROVE RB!RingInOrder
  <2>1. /\ RB!size = Len(queue) /\ Len(queue) \in Nat /\ Len(queue) <= Size /\ Size \in Nat
        /\ queue \in Seq(Int)
    BY Zenon, <1>1, Ring_size DEF RingConstants, RingInv
  <2>2. RB!peek(Size) = queue
    <3>1. RB!Least(Size, RB!size) = Len(queue)
      BY <2>1 DEF RB!Least
    <3>2. RB!peek(Size) = [i \in 1 .. Len(queue) |-> buffer_[(head_ + i - 1) % Size]]
      BY <3>1 DEF RB!peek
    <3>3. queue = [i \in 1 .. Len(queue) |-> queue[i]]
      BY <2>1
    <3>4. QED BY <1>1, <3>2, <3>3 DEF RingInv
  <2>3. QED BY <1>1, <2>1, <2>2, Ring_read_span, Ring_write_span DEF RB!RingInOrder
<1>2. RingInv /\ [RB!Next]_(RB!vars) => RingInv'
  BY Ring_Next
<1>3. RB!Init => RingInv
  BY Ring_Init
<1>4. QED BY <1>1, <1>2, <1>3, PTL DEF RB!Spec
=============================================================================
