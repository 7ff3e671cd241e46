------------------------------ MODULE Seqlock -------------------------------
(***************************************************************************)
(* memory/seqlock.hpp: one writer publishes a value of several words, any  *)
(* number of readers copy it without a lock.  The writer makes sequence_   *)
(* odd, stores the words one at a time, and makes it even again; a reader  *)
(* copies the words between two loads of sequence_ and keeps the copy only *)
(* if both loads gave the same even number.                                *)
(*                                                                         *)
(* Every load and store is a step of its own, taken in program order: the  *)
(* order of the x86-64 builds, where neither two stores nor two loads are  *)
(* exchanged.  The value written the k-th time is k in every word, so a    *)
(* copy whose words differ is torn.                                        *)
(***************************************************************************)
EXTENDS Integers, FiniteSets

CONSTANTS Words,      \* the words of T
          Readers,    \* the reader threads
          MaxWrites   \* bound on the number of writes

VARIABLES sequence_,  \* the counter
          data_,      \* data_[w]: word w of the value
          wpc,        \* "idle", "writing": between the two stores of sequence_
          todo,       \* words the writer has still to store
          rpc,        \* rpc[r]: which load r does next, or "out"
          api,        \* api[r]: the function r runs
          seq1,       \* seq1[r]: first load of sequence_
          copied,     \* copied[r]: words copied so far
          result,     \* result[r]: the copy
          outer,      \* outer[r]: VersionedValue::read's own first load
          known,      \* known[r]: the version r passes to read_if_changed
          began,      \* began[r]: writes completed when r's call began (history)
          returned    \* what each reader's last call returned

vars == <<sequence_, data_, wpc, todo, rpc, api, seq1, copied, result, outer, known, began, returned>>

readerVars == <<rpc, api, seq1, copied, result, outer, known, began, returned>>

Versioned == {"VersionedValue::read", "read_if_changed"}

Apis == {"read", "try_read"} \cup Versioned

Odd(n) == n % 2 = 1

Init == /\ sequence_ = 0 /\ data_ = [w \in Words |-> 0]
        /\ wpc = "idle" /\ todo = {}
        /\ rpc = [r \in Readers |-> "out"] /\ api = [r \in Readers |-> "read"]
        /\ seq1 = [r \in Readers |-> 0] /\ copied = [r \in Readers |-> {}]
        /\ result = [r \in Readers |-> [w \in Words |-> 0]]
        /\ outer = [r \in Readers |-> 0] /\ known = [r \in Readers |-> 0]
        /\ began = [r \in Readers |-> 0]
        /\ returned = [r \in Readers |-> [ok |-> FALSE, value |-> data_, version |-> -1, began |-> 0]]

(***************************************************************************)
(* The writer: write(), or begin_write(), stores through data(), and       *)
(* end_write() of a SeqlockWriteGuard.                                     *)
(***************************************************************************)
begin_write ==
    /\ wpc = "idle" /\ sequence_ < 2 * MaxWrites
    /\ sequence_' = sequence_ + 1
    /\ wpc' = "writing" /\ todo' = Words
    /\ UNCHANGED <<data_, readerVars>>

StoreWord(w) ==
    /\ wpc = "writing" /\ w \in todo
    /\ data_' = [data_ EXCEPT ![w] = (sequence_ + 1) \div 2]
    /\ todo' = todo \ {w}
    /\ UNCHANGED <<sequence_, wpc, readerVars>>

end_write ==
    /\ wpc = "writing" /\ todo = {}
    /\ sequence_' = sequence_ + 1
    /\ wpc' = "idle"
    /\ UNCHANGED <<data_, todo, readerVars>>

(***************************************************************************)
(* A reader.                                                               *)
(***************************************************************************)
writerVars == <<sequence_, data_, wpc, todo>>

\* VersionedValue::read loads the counter itself before it calls read_with.
Call(r, a) ==
    /\ rpc[r] = "out"
    /\ api' = [api EXCEPT ![r] = a]
    /\ began' = [began EXCEPT ![r] = sequence_ \div 2]
    /\ rpc' = [rpc EXCEPT ![r] = IF a \in Versioned THEN "version" ELSE "seq1"]
    /\ UNCHANGED <<writerVars, seq1, copied, result, outer, known, returned>>

\* The outer loop of VersionedValue::read spins while the counter is odd.
LoadVersion(r) ==
    /\ rpc[r] = "version" /\ ~Odd(sequence_)
    /\ outer' = [outer EXCEPT ![r] = sequence_]
    /\ rpc' = [rpc EXCEPT ![r] = "seq1"]
    /\ UNCHANGED <<writerVars, api, seq1, copied, result, known, began, returned>>

Return(r, ok, version) ==
    /\ returned' = [returned EXCEPT ![r] = [ok |-> ok, value |-> result[r], version |-> version,
                                           began |-> began[r]]]
    /\ rpc' = [rpc EXCEPT ![r] = "out"]

\* read and read_with spin while the counter is odd; try_read gives up.
LoadSeq1(r) ==
    /\ rpc[r] = "seq1"
    /\ \/ /\ ~Odd(sequence_)
          /\ seq1' = [seq1 EXCEPT ![r] = sequence_]
          /\ copied' = [copied EXCEPT ![r] = {}]
          /\ rpc' = [rpc EXCEPT ![r] = "copy"]
          /\ UNCHANGED returned
       \/ /\ Odd(sequence_) /\ api[r] = "try_read"
          /\ Return(r, FALSE, -1)
          /\ UNCHANGED <<seq1, copied>>
    /\ UNCHANGED <<writerVars, api, result, outer, known, began>>

CopyWord(r, w) ==
    /\ rpc[r] = "copy" /\ w \notin copied[r]
    /\ result' = [result EXCEPT ![r][w] = data_[w]]
    /\ copied' = [copied EXCEPT ![r] = @ \cup {w}]
    /\ rpc' = [rpc EXCEPT ![r] = IF copied'[r] = Words THEN "seq2" ELSE "copy"]
    /\ UNCHANGED <<writerVars, api, seq1, outer, known, began, returned>>

\* The second load: keep the copy, or try again (try_read: return false).
\* VersionedValue::read then compares its own loads (version).
LoadSeq2(r) ==
    /\ rpc[r] = "seq2"
    /\ \/ /\ seq1[r] = sequence_ /\ api[r] \notin Versioned
          /\ Return(r, TRUE, -1)
       \/ /\ seq1[r] = sequence_ /\ api[r] \in Versioned
          /\ rpc' = [rpc EXCEPT ![r] = "verify"]
          /\ UNCHANGED returned
       \/ /\ seq1[r] # sequence_ /\ api[r] = "try_read"
          /\ Return(r, FALSE, -1)
       \/ /\ seq1[r] # sequence_ /\ api[r] # "try_read"
          /\ rpc' = [rpc EXCEPT ![r] = "seq1"]
          /\ UNCHANGED returned
    /\ UNCHANGED <<writerVars, api, seq1, copied, result, outer, known, began>>

\* The snapshot has version v; read_if_changed keeps only a newer one.
Keep(r, v) ==
    \/ /\ api[r] = "read_if_changed" /\ v <= known[r]
       /\ Return(r, FALSE, -1)
       /\ UNCHANGED known
    \/ /\ api[r] = "read_if_changed" /\ v > known[r]
       /\ Return(r, TRUE, v)
       /\ known' = [known EXCEPT ![r] = v]
    \/ /\ api[r] # "read_if_changed"
       /\ Return(r, TRUE, v)
       /\ UNCHANGED known

\* A VersionedValue::read that trusts the inner copy.
Verify_trusting(r) ==
    /\ rpc[r] = "verify"
    /\ Keep(r, outer[r] \div 2)
    /\ UNCHANGED <<writerVars, api, seq1, copied, result, outer, began>>

\* The last load of VersionedValue::read: the version is half of it.
Verify(r) ==
    /\ rpc[r] = "verify"
    /\ \/ /\ outer[r] = sequence_
          /\ Keep(r, sequence_ \div 2)
       \/ /\ outer[r] # sequence_
          /\ rpc' = [rpc EXCEPT ![r] = "version"]
          /\ UNCHANGED <<known, returned>>
    /\ UNCHANGED <<writerVars, api, seq1, copied, result, outer, began>>

Next == \/ begin_write \/ end_write
        \/ \E w \in Words : StoreWord(w)
        \/ \E r \in Readers : \/ \E a \in Apis : Call(r, a)
                              \/ LoadVersion(r) \/ LoadSeq1(r) \/ LoadSeq2(r) \/ Verify(r)
                              \/ \E w \in Words : CopyWord(r, w)

Spec == Init /\ [][Next]_vars

(***************************************************************************)
(* Properties.                                                             *)
(***************************************************************************)
Answers == [ok : BOOLEAN, value : [Words -> Nat], version : Int, began : Nat]

TypeOK ==
    /\ sequence_ \in Nat /\ data_ \in [Words -> Nat]
    /\ wpc \in {"idle", "writing"} /\ todo \in SUBSET Words
    /\ rpc \in [Readers -> {"out", "version", "seq1", "copy", "seq2", "verify"}]
    /\ api \in [Readers -> Apis]
    /\ seq1 \in [Readers -> Nat] /\ copied \in [Readers -> SUBSET Words]
    /\ result \in [Readers -> [Words -> Nat]]
    /\ outer \in [Readers -> Nat] /\ known \in [Readers -> Nat] /\ began \in [Readers -> Nat]
    /\ returned \in [Readers -> Answers]

\* A copy a reader was given is one that write published, whole, no older
\* than the newest when the call began, and of the version it is said to be
\* (Seqlock::read, try_read, read_with; VersionedValue::read).
CopiesAreWhole ==
    \A r \in Readers :
        returned[r].ok =>
            \E k \in returned[r].began .. (sequence_ \div 2) :
                /\ returned[r].value = [w \in Words |-> k]
                /\ returned[r].version \in {-1, k}
=============================================================================
