--------------------------- MODULE OpStreamProofs ---------------------------
(***************************************************************************)
(* Proofs about OpStream, for any number of writers, calls, attempts and   *)
(* records.  The argument is one inductive invariant, IInv: the sink holds *)
(* an intact chain whose head is its last hash (SinkInv), and what each    *)
(* writer has read so far stays behind that chain (ReadsOf).               *)
(***************************************************************************)
EXTENDS OpStream, SequenceTheorems, LoopProofs

\* A hash folds in one link per record before it, so its length is an index.
HashLengths == \A i \in 1 .. Len(records) : Len(records[i].hash) = i

SinkInv ==
    /\ records \in Seq(Record)
    /\ head \in Hash
    /\ ChainIntact
    /\ HeadNamesLatest
    /\ HashLengths

\* The writers' control state, and what their finished calls answered.
ControlInv ==
    /\ pc \in [Writers -> Labels]
    /\ op \in [Writers -> Ops \cup {NoOp}]
    /\ \A w \in Writers : op[w] = NoOp <=> pc[w] = "idle"
    /\ persisted \in [Writers -> Seq(Ops)]
    /\ reported \in [Writers -> Seq(Errors)]
    /\ CasNeverDuplicate

LocalsInv ==
    /\ retained \in 1 .. MaxTruncations + 1
    /\ attempt \in [Writers -> Nat]
    /\ readHead \in [Writers -> Hash]
    /\ readSeq \in [Writers -> Nat]
    /\ calls \in [Writers -> Nat]
    /\ began \in [Writers -> Nat]

IInv == SinkInv /\ ControlInv /\ LocalsInv /\ ReadsStayBehind

-----------------------------------------------------------------------------
(* Facts about the chain.                                                  *)

\* The largest of the sequences 1 to n, or 0 when there is none (LatestSequence's
\* loop starts from zero).
LEMMA MaxOfPrefix ==
    ASSUME NEW n \in Nat
    PROVE  Max({0} \cup 1 .. n) = n
<1>1. n \in {0} \cup 1 .. n /\ \A x \in {0} \cup 1 .. n : n >= x
  OBVIOUS
<1>2. ASSUME NEW m \in {0} \cup 1 .. n, \A x \in {0} \cup 1 .. n : m >= x
      PROVE  m = n
  BY <1>1, <1>2
<1>3. QED
  BY <1>1, <1>2 DEF Max

\* With an intact chain LatestSequence (Sink.LatestSequence) is its length.
LEMMA LatestIsLength ==
    ASSUME records \in Seq(Record), ChainIntact
    PROVE  /\ Sequences = 1 .. Len(records)
           /\ LatestSequence = Len(records)
<1>1. DOMAIN records = 1 .. Len(records) /\ Len(records) \in Nat
  OBVIOUS
<1>2. \A i \in 1 .. Len(records) : records[i].sequence = i
  BY <1>1 DEF ChainIntact, VerifyChain
<1>3. Sequences = 1 .. Len(records)
  BY <1>1, <1>2 DEF Sequences
<1>4. LatestSequence = Len(records)
  BY <1>1, <1>3, MaxOfPrefix DEF LatestSequence
<1>5. QED
  BY <1>3, <1>4

\* The head (heads[stream]) is the hash after all the records, and every hash
\* of the chain names how many records it covers.
LEMMA HashAtFacts ==
    ASSUME SinkInv
    PROVE  /\ head = HashAt(Len(records))
           /\ \A k \in 0 .. Len(records) : HashAt(k) \in Hash /\ Len(HashAt(k)) = k
<1>1. DOMAIN records = 1 .. Len(records) /\ Len(records) \in Nat
  BY DEF SinkInv
<1>2. head = HashAt(Len(records))
  <2>1. records = <<>> <=> Len(records) = 0
    BY DEF SinkInv
  <2>2. QED
    BY <2>1 DEF SinkInv, HeadNamesLatest, HashAt
<1>3. ASSUME NEW k \in 0 .. Len(records)
      PROVE  HashAt(k) \in Hash /\ Len(HashAt(k)) = k
  <2>1. CASE k = 0
    BY <2>1 DEF HashAt, Genesis, Hash
  <2>2. CASE k # 0
    <3>1. k \in 1 .. Len(records)
      BY <1>1, <2>2
    <3>2. records[k] \in Record
      BY <3>1, <1>1, ElementOfSeq DEF SinkInv
    <3>3. QED
      BY <3>1, <3>2, <2>2 DEF HashAt, SinkInv, HashLengths, Record
  <2>3. QED
    BY <2>1, <2>2
<1>4. QED
  BY <1>2, <1>3

\* MakeRecord's answer, when its sequence and predecessor follow the chain.
LEMMA MakeRecordType ==
    ASSUME NEW w \in Writers, NEW sequence \in Nat \ {0}, NEW previousHash \in Hash,
           op[w] \in Ops
    PROVE  /\ MakeRecord(w, sequence, previousHash) \in Record
           /\ Len(Link(previousHash, sequence, w, op[w])) = Len(previousHash) + 1
<1> DEFINE Entry == [index: Nat, actor: Writers, op: Ops]
           entry == [index |-> sequence - 1, actor |-> w, op |-> op[w]]
<1>1. entry \in Entry
  OBVIOUS
<1>2. previousHash \in Seq(Entry)
  BY DEF Hash
<1> HIDE DEF Entry, entry
<1>3. Append(previousHash, entry) \in Seq(Entry)
      /\ Len(Append(previousHash, entry)) = Len(previousHash) + 1
  BY <1>1, <1>2, AppendProperties
<1>4. Link(previousHash, sequence, w, op[w]) = Append(previousHash, entry)
  BY DEF Link, entry
<1>5. Link(previousHash, sequence, w, op[w]) \in Hash
  BY <1>3, <1>4 DEF Hash, Entry
<1>6. QED
  BY <1>3, <1>4, <1>5 DEF MakeRecord, Record

\* appendLocked keeps the chain intact if the record follows the chain, and
\* leaves the hashes before it as they were.
LEMMA AppendKeepsChain ==
    ASSUME SinkInv, NEW w \in Writers, op[w] \in Ops,
           AppendLocked(MakeRecord(w, Len(records) + 1, head))
    PROVE  /\ SinkInv'
           /\ Len(records') = Len(records) + 1
           /\ \A k \in 0 .. Len(records) : HashAt(k)' = HashAt(k)
<1> DEFINE record == MakeRecord(w, Len(records) + 1, head)
<1>1. DOMAIN records = 1 .. Len(records) /\ Len(records) \in Nat /\ head \in Hash
      /\ records \in Seq(Record)
  BY DEF SinkInv
<1>2. record \in Record /\ Len(record.hash) = Len(head) + 1
  <2>1. Len(records) + 1 \in Nat \ {0}
    BY <1>1
  <2>2. QED
    BY <1>1, <2>1, MakeRecordType DEF MakeRecord
<1>3. record.sequence = Len(records) + 1 /\ record.previousHash = head
      /\ record.hash = Link(record.previousHash, record.sequence, record.actor, record.op)
  BY DEF MakeRecord
<1> HIDE DEF record
<1>4. records' = Append(records, record) /\ head' = record.hash
  BY DEF AppendLocked, record
<1>5. /\ records' \in Seq(Record)
      /\ Len(records') = Len(records) + 1
      /\ DOMAIN records' = 1 .. Len(records) + 1
      /\ \A i \in 1 .. Len(records) : records'[i] = records[i]
      /\ records'[Len(records) + 1] = record
  BY <1>1, <1>2, <1>4, AppendProperties
<1>6. head' \in Hash
  BY <1>2, <1>4 DEF Record
<1>7. \A k \in 0 .. Len(records) : HashAt(k)' = HashAt(k)
  BY <1>1, <1>5 DEF HashAt
<1>8. ChainIntact'
  <2> SUFFICES ASSUME NEW i \in 1 .. Len(records) + 1
               PROVE  /\ records'[i].sequence = i
                      /\ records'[i].previousHash = IF i = 1 THEN Genesis
                                                    ELSE records'[i - 1].hash
                      /\ records'[i].hash = Link(records'[i].previousHash,
                             records'[i].sequence, records'[i].actor, records'[i].op)
    BY <1>5 DEF ChainIntact, VerifyChain
  <2>1. CASE i \in 1 .. Len(records)
    <3>1. records'[i] = records[i] /\ (i # 1 => records'[i - 1] = records[i - 1])
      BY <1>1, <1>5, <2>1
    <3>2. QED
      BY <3>1, <2>1, <1>1 DEF SinkInv, ChainIntact, VerifyChain
  <2>2. CASE i = Len(records) + 1
    <3>1. head = IF i = 1 THEN Genesis ELSE records'[i - 1].hash
      BY <1>1, <1>5, <1>7, <2>2, HashAtFacts DEF HashAt
    <3>2. QED
      BY <3>1, <1>3, <1>5, <2>2
  <2>3. QED
    BY <1>1, <2>1, <2>2
<1>9. HeadNamesLatest'
  <2>1. records' # <<>>
    BY <1>1, <1>5
  <2>2. QED
    BY <2>1, <1>4, <1>5 DEF HeadNamesLatest
<1>10. HashLengths'
  <2>1. Len(head) = Len(records)
    BY <1>1, HashAtFacts
  <2>2. QED
    BY <2>1, <1>1, <1>2, <1>5 DEF SinkInv, HashLengths
<1>11. QED
  BY <1>5, <1>6, <1>7, <1>8, <1>9, <1>10 DEF SinkInv

-----------------------------------------------------------------------------
(* A step of one writer leaves the reads of every other behind the chain.  *)

\* Reads already behind the chain stay behind it when the chain only grows.
LEMMA ReadsKept ==
    ASSUME LocalsInv, SinkInv, NEW w \in Writers, ReadsOf(w),
           Len(records') \in Nat, Len(records') >= Len(records),
           \A k \in 0 .. Len(records) : HashAt(k)' = HashAt(k),
           pc'[w] = pc[w], attempt'[w] = attempt[w], readHead'[w] = readHead[w],
           readSeq'[w] = readSeq[w], began'[w] = began[w], op'[w] = op[w]
    PROVE  ReadsOf(w)'
<1>1. /\ Len(records) \in Nat /\ began[w] \in Nat /\ attempt[w] \in Nat
      /\ readSeq[w] \in Nat /\ Len(readHead[w]) \in Nat
  <2>1. readHead[w] \in Hash
    BY DEF LocalsInv
  <2>2. Len(readHead[w]) \in Nat
    BY <2>1 DEF Hash
  <2>3. QED
    BY <2>2 DEF LocalsInv, SinkInv
<1>2. (Len(readHead[w]) <= Len(records))
        => HashAt(Len(readHead[w]))' = HashAt(Len(readHead[w]))
  BY <1>1
<1>3. (readSeq[w] - 1 \in 0 .. Len(records))
        => HashAt(readSeq[w] - 1)' = HashAt(readSeq[w] - 1)
  BY <1>1
<1>4. QED
  BY <1>1, <1>2, <1>3 DEF ReadsOf

\* So only the writer that moved has to be looked at.
LEMMA OthersKept ==
    ASSUME IInv, NEW w \in Writers, ReadsOf(w)',
           Len(records') \in Nat, Len(records') >= Len(records),
           \A k \in 0 .. Len(records) : HashAt(k)' = HashAt(k),
           \A v \in Writers \ {w} :
              /\ pc'[v] = pc[v] /\ attempt'[v] = attempt[v]
              /\ readHead'[v] = readHead[v] /\ readSeq'[v] = readSeq[v]
              /\ began'[v] = began[v] /\ op'[v] = op[v]
    PROVE  ReadsStayBehind'
<1> SUFFICES ASSUME NEW v \in Writers PROVE ReadsOf(v)'
  BY DEF ReadsStayBehind
<1>1. CASE v = w
  BY <1>1
<1>2. CASE v # w
  <2>1. LocalsInv /\ SinkInv /\ ReadsOf(v)
    BY DEF IInv, ReadsStayBehind
  <2>2. QED
    BY <1>2, <2>1, ReadsKept
<1>3. QED
  BY <1>1, <1>2

\* A step that leaves the records alone leaves the hashes alone.
LEMMA SinkKept ==
    ASSUME SinkInv, UNCHANGED <<records, head>>
    PROVE  /\ SinkInv'
           /\ Len(records') \in Nat /\ Len(records') = Len(records)
           /\ \A k \in 0 .. Len(records) : HashAt(k)' = HashAt(k)
<1>1. SinkInv'
  BY DEF SinkInv, ChainIntact, VerifyChain, HeadNamesLatest, HashLengths, Link
<1>2. Len(records) \in Nat
  BY DEF SinkInv
<1>3. QED
  BY <1>1, <1>2 DEF HashAt

-----------------------------------------------------------------------------
(* The two ways control moves on: to the next sink call, or back to idle.  *)

LEMMA GoToFacts ==
    ASSUME ControlInv, NEW w \in Writers, pc[w] # "idle",
           NEW label \in Labels \ {"idle"}, GoTo(w, label), UNCHANGED <<op, resultVars>>
    PROVE  /\ ControlInv'
           /\ pc' = [pc EXCEPT ![w] = label] /\ op' = op
BY DEF ControlInv, GoTo, resultVars, CasNeverDuplicate

LEMMA ReturnFacts ==
    ASSUME ControlInv, NEW w \in Writers, pc[w] # "idle",
           NEW error \in Errors \cup {"none"},
           error = "duplicate" => w \in PlainWriters, Return(w, error)
    PROVE  /\ ControlInv'
           /\ pc' = [pc EXCEPT ![w] = "idle"]
           /\ \A v \in Writers \ {w} : pc'[v] = pc[v] /\ op'[v] = op[v]
<1>1. /\ pc' = [pc EXCEPT ![w] = "idle"] /\ pc' \in [Writers -> Labels]
      /\ op' = [op EXCEPT ![w] = NoOp] /\ op' \in [Writers -> Ops \cup {NoOp}]
  BY DEF ControlInv, Return, GoTo, Labels
<1>2. \A v \in Writers : op'[v] = NoOp <=> pc'[v] = "idle"
  BY <1>1 DEF ControlInv
<1>3. persisted' \in [Writers -> Seq(Ops)]
  <2>1. op[w] \in Ops /\ persisted[w] \in Seq(Ops)
    BY DEF ControlInv
  <2>2. Append(persisted[w], op[w]) \in Seq(Ops)
    BY <2>1, AppendProperties
  <2>3. QED
    BY <2>2 DEF ControlInv, Return
<1>4. CASE error = "none"
  <2>1. reported' = reported
    BY <1>4 DEF Return
  <2>2. QED
    BY <1>1, <1>2, <1>3, <2>1 DEF ControlInv, CasNeverDuplicate
<1>5. CASE error # "none"
  <2>1. reported[w] \in Seq(Errors) /\ error \in Errors
    BY <1>5 DEF ControlInv
  <2>2. reported' = [reported EXCEPT ![w] = Append(@, error)]
    BY <1>5 DEF Return
  <2>3. /\ Append(reported[w], error) \in Seq(Errors)
        /\ DOMAIN Append(reported[w], error) = 1 .. Len(reported[w]) + 1
        /\ \A i \in 1 .. Len(reported[w]) : Append(reported[w], error)[i] = reported[w][i]
        /\ Append(reported[w], error)[Len(reported[w]) + 1] = error
    BY <2>1, AppendProperties
  <2>4. reported' \in [Writers -> Seq(Errors)]
    BY <2>2, <2>3 DEF ControlInv
  <2>5. CasNeverDuplicate'
    <3> SUFFICES ASSUME NEW v \in Writers \ PlainWriters, NEW i \in DOMAIN reported'[v]
                 PROVE  reported'[v][i] # "duplicate"
      BY DEF CasNeverDuplicate
    <3>1. CASE v # w
      BY <3>1, <2>2 DEF ControlInv, CasNeverDuplicate
    <3>2. CASE v = w
      <4>1. reported'[v] = Append(reported[w], error)
        BY <3>2, <2>2 DEF ControlInv
      <4>2. CASE i \in 1 .. Len(reported[w])
        BY <4>1, <4>2, <2>1, <2>3, <3>2 DEF ControlInv, CasNeverDuplicate
      <4>3. CASE i = Len(reported[w]) + 1
        BY <4>1, <4>3, <2>3, <3>2
      <4>4. QED
        BY <4>1, <4>2, <4>3, <2>1, <2>3
    <3>3. QED
      BY <3>1, <3>2
  <2>6. QED
    BY <1>1, <1>2, <1>3, <2>4, <2>5 DEF ControlInv
<1>6. \A v \in Writers \ {w} : pc'[v] = pc[v] /\ op'[v] = op[v]
  BY <1>1 DEF ControlInv
<1>7. QED
  BY <1>1, <1>4, <1>5, <1>6

\* ComputeHash: on to the sink call with an op that has an encoding, or idle.
LEMMA ComputeHashFacts ==
    ASSUME ControlInv, NEW w \in Writers, pc[w] # "idle",
           NEW label \in Labels \ {"idle"}, ComputeHash(w, label)
    PROVE  /\ ControlInv'
           /\ \/ pc'[w] = "idle"
              \/ pc'[w] = label /\ op'[w] = op[w] /\ op[w] \notin Unencodable
           /\ \A v \in Writers \ {w} : pc'[v] = pc[v] /\ op'[v] = op[v]
<1>1. CASE op[w] \in Unencodable
  <2>1. "unencodable" \in Errors \cup {"none"} /\ Return(w, "unencodable")
    BY <1>1 DEF ComputeHash, Errors
  <2>2. QED
    BY <2>1, ReturnFacts DEF ControlInv
<1>2. CASE op[w] \notin Unencodable
  <2>1. GoTo(w, label) /\ UNCHANGED <<op, resultVars>>
    BY <1>2 DEF ComputeHash
  <2>2. ControlInv' /\ pc' = [pc EXCEPT ![w] = label] /\ op' = op
    BY <2>1, GoToFacts
  <2>3. QED
    BY <1>2, <2>2 DEF ControlInv
<1>3. QED
  BY <1>1, <1>2

\* A writer that has just returned holds no reads.
LEMMA IdleReads ==
    ASSUME NEW w \in Writers, pc'[w] = "idle"
    PROVE  ReadsOf(w)'
BY DEF ReadsOf

-----------------------------------------------------------------------------
(* Every action keeps the invariant.                                       *)

LEMMA BeginKeeps ==
    ASSUME IInv, NEW w \in Writers, NEW payload \in Ops, Begin(w, payload)
    PROVE  IInv'
<1>1. SinkInv' /\ Len(records') \in Nat /\ Len(records') = Len(records)
      /\ \A k \in 0 .. Len(records) : HashAt(k)' = HashAt(k)
  BY SinkKept DEF IInv, Begin, sinkVars
<1>2. pc' = [pc EXCEPT ![w] = IF w \in PlainWriters THEN "latestSequence" ELSE "head"]
  BY DEF Begin, GoTo
<1>3. ControlInv'
  <2>1. op' = [op EXCEPT ![w] = payload] /\ payload # NoOp /\ pc[w] = "idle"
    BY StreamAssumption DEF Begin
  <2>2. QED
    BY <1>2, <2>1 DEF IInv, ControlInv, CasNeverDuplicate, Begin, resultVars, Labels
<1>4. LocalsInv'
  BY <1>1 DEF IInv, LocalsInv, SinkInv, Begin, sinkVars
<1>5. ReadsOf(w)'
  <2>1. began'[w] = Len(records') /\ attempt'[w] = 0
    BY <1>1 DEF Begin, IInv, LocalsInv, sinkVars
  <2>2. pc'[w] = IF w \in PlainWriters THEN "latestSequence" ELSE "head"
    BY <1>2 DEF IInv, ControlInv
  <2>3. QED
    BY <1>1, <2>1, <2>2 DEF ReadsOf
<1>6. ReadsStayBehind'
  <2>1. \A v \in Writers \ {w} :
          /\ pc'[v] = pc[v] /\ attempt'[v] = attempt[v]
          /\ readHead'[v] = readHead[v] /\ readSeq'[v] = readSeq[v]
          /\ began'[v] = began[v] /\ op'[v] = op[v]
    BY DEF Begin, GoTo, IInv, ControlInv, LocalsInv
  <2>2. Len(records') >= Len(records)
    BY <1>1
  <2>3. QED
    BY <1>1, <1>5, <2>1, <2>2, OthersKept
<1>7. QED
  BY <1>1, <1>3, <1>4, <1>6 DEF IInv

LEMMA ReadHeadKeeps ==
    ASSUME IInv, NEW w \in Writers, ReadHead(w)
    PROVE  IInv'
<1>1. SinkInv' /\ Len(records') \in Nat /\ Len(records') = Len(records)
      /\ \A k \in 0 .. Len(records) : HashAt(k)' = HashAt(k)
  BY SinkKept DEF IInv, ReadHead, sinkVars
<1>2. ControlInv' /\ pc' = [pc EXCEPT ![w] = "sequence"]
  <2>1. "sequence" \in Labels \ {"idle"}
    BY DEF Labels
  <2>2. QED
    BY <2>1, GoToFacts DEF IInv, ReadHead
<1>3. LocalsInv'
  BY DEF IInv, LocalsInv, SinkInv, ReadHead, sinkVars
<1>4. ReadsOf(w)'
  <2>1. /\ pc'[w] = "sequence" /\ readHead'[w] = head /\ head = HashAt(Len(records))
        /\ Len(HashAt(Len(records))) = Len(records)
    BY <1>1, <1>2, HashAtFacts DEF IInv, ControlInv, LocalsInv, ReadHead
  <2>2. /\ began'[w] = began[w] /\ attempt'[w] = attempt[w]
        /\ began[w] \in Nat /\ attempt[w] \in Nat
        /\ began[w] + attempt[w] <= Len(records) /\ w \notin PlainWriters
    BY DEF ReadHead, IInv, LocalsInv, ReadsStayBehind, ReadsOf
  <2>3. QED
    BY <1>1, <2>1, <2>2 DEF ReadsOf
<1>5. ReadsStayBehind'
  <2>1. \A v \in Writers \ {w} :
          /\ pc'[v] = pc[v] /\ attempt'[v] = attempt[v]
          /\ readHead'[v] = readHead[v] /\ readSeq'[v] = readSeq[v]
          /\ began'[v] = began[v] /\ op'[v] = op[v]
    BY <1>2 DEF ReadHead, IInv, ControlInv, LocalsInv
  <2>2. Len(records') >= Len(records)
    BY <1>1
  <2>3. QED
    BY <1>1, <1>4, <2>1, <2>2, OthersKept
<1>6. QED
  BY <1>1, <1>2, <1>3, <1>5 DEF IInv

LEMMA ReadSequenceKeeps ==
    ASSUME IInv, NEW w \in Writers, ReadSequence(w)
    PROVE  IInv'
<1>1. SinkInv' /\ Len(records') \in Nat /\ Len(records') = Len(records)
      /\ \A k \in 0 .. Len(records) : HashAt(k)' = HashAt(k)
  BY SinkKept DEF IInv, ReadSequence, sinkVars
<1>2. /\ ControlInv'
      /\ pc'[w] = "idle" \/ (pc'[w] = "appendIf" /\ op'[w] = op[w] /\ op[w] \notin Unencodable)
      /\ \A v \in Writers \ {w} : pc'[v] = pc[v] /\ op'[v] = op[v]
  <2>1. "appendIf" \in Labels \ {"idle"}
    BY DEF Labels
  <2>2. QED
    BY <2>1, ComputeHashFacts DEF IInv, ReadSequence
<1>3. LatestSequence = Len(records)
  BY LatestIsLength DEF IInv, SinkInv
<1>4. LocalsInv'
  BY <1>1, <1>3 DEF IInv, LocalsInv, SinkInv, ReadSequence, sinkVars
<1>5. CASE pc'[w] = "idle"
  <2>1. ReadsOf(w)'
    BY <1>5, IdleReads
  <2>2. ReadsStayBehind'
    BY <1>1, <1>2, <2>1, OthersKept DEF ReadSequence, IInv, LocalsInv
  <2>3. QED
    BY <1>1, <1>2, <1>4, <2>2 DEF IInv
<1>6. CASE pc'[w] = "appendIf" /\ op'[w] = op[w] /\ op[w] \notin Unencodable
  <2>1. readSeq'[w] = Len(records) + 1
    BY <1>3 DEF IInv, LocalsInv, ReadSequence
  <2>2. /\ began'[w] = began[w] /\ attempt'[w] = attempt[w] /\ readHead'[w] = readHead[w]
        /\ began[w] \in Nat /\ attempt[w] \in Nat /\ readHead[w] \in Hash
        /\ began[w] + attempt[w] <= Len(readHead[w]) /\ w \notin PlainWriters
        /\ Len(readHead[w]) <= Len(records) /\ readHead[w] = HashAt(Len(readHead[w]))
        /\ began[w] <= Len(records)
    BY DEF ReadSequence, IInv, LocalsInv, ReadsStayBehind, ReadsOf
  <2>3. Len(readHead[w]) \in 0 .. Len(records)
    BY <1>1, <2>2 DEF Hash
  <2>4. readHead'[w] = HashAt(Len(readHead[w]))'
    BY <1>1, <2>2, <2>3
  <2>5. ReadsOf(w)'
    BY <1>1, <1>6, <2>1, <2>2, <2>3, <2>4 DEF ReadsOf
  <2>6. ReadsStayBehind'
    BY <1>1, <1>2, <2>5, OthersKept DEF ReadSequence, IInv, LocalsInv
  <2>7. QED
    BY <1>1, <1>2, <1>4, <2>6 DEF IInv
<1>7. QED
  BY <1>2, <1>5, <1>6

\* AppendNext's key step (CasSink.AppendIf): a head that still matches was read
\* after the last append, so the sequence read after it is fresh and follows it.
LEMMA MatchingHeadIsFresh ==
    ASSUME IInv, NEW w \in Writers, pc[w] = "appendIf", head = readHead[w]
    PROVE  readSeq[w] = Len(records) + 1 /\ ~Duplicate(readSeq[w])
<1>1. head = HashAt(Len(records)) /\ Len(head) = Len(records) /\ Len(records) \in Nat
  BY HashAtFacts DEF IInv, SinkInv
<1>2. readSeq[w] - 1 \in Len(readHead[w]) .. Len(records) /\ readSeq[w] \in Nat
  BY DEF IInv, ReadsStayBehind, ReadsOf, LocalsInv
<1>3. readSeq[w] = Len(records) + 1
  BY <1>1, <1>2
<1>4. Sequences = 1 .. Len(records)
  BY LatestIsLength DEF IInv, SinkInv
<1>5. QED
  BY <1>1, <1>3, <1>4 DEF Duplicate

LEMMA AppendIfKeeps ==
    ASSUME IInv, NEW w \in Writers, AppendIf(w)
    PROVE  IInv'
<1>1. /\ pc[w] = "appendIf" /\ Len(records) \in Nat /\ attempt[w] \in Nat
      /\ w \notin PlainWriters /\ op[w] \in Ops
      /\ attempt' = [attempt EXCEPT ![w] = @ + 1]
      /\ UNCHANGED <<readHead, readSeq, calls, began>>
  BY DEF IInv, SinkInv, ControlInv, LocalsInv, ReadsStayBehind, ReadsOf, AppendIf
<1>2. AppendIfAnswer(w) = IF head # readHead[w] THEN "stale" ELSE "none"
  BY <1>1, MatchingHeadIsFresh DEF AppendIfAnswer
<1>3. CASE AppendIfAnswer(w) = "none"
  <2>1. AppendLocked(MakeRecord(w, Len(records) + 1, head))
    BY <1>1, <1>2, <1>3, MatchingHeadIsFresh DEF AppendIf
  <2>2. SinkInv' /\ Len(records') = Len(records) + 1 /\ Len(records') \in Nat
        /\ \A k \in 0 .. Len(records) : HashAt(k)' = HashAt(k)
    BY <1>1, <2>1, AppendKeepsChain DEF IInv
  <2>3. ControlInv' /\ pc' = [pc EXCEPT ![w] = "idle"]
         /\ \A v \in Writers \ {w} : op'[v] = op[v]
    <3>1. Return(w, "none")
      BY <1>3 DEF AppendIf
    <3>2. QED
      BY <1>1, <3>1, ReturnFacts DEF IInv
  <2>4. LocalsInv'
    BY <1>1, <2>1 DEF IInv, LocalsInv, AppendLocked
  <2>5. ReadsStayBehind'
    <3>1. ReadsOf(w)'
      BY <2>3, IdleReads DEF IInv, ControlInv
    <3>2. \A v \in Writers \ {w} :
           pc'[v] = pc[v] /\ attempt'[v] = attempt[v] /\ op'[v] = op[v]
      BY <1>1, <2>3 DEF IInv, ControlInv, LocalsInv
    <3>3. QED
      BY <1>1, <2>2, <3>1, <3>2, OthersKept
  <2>6. QED
    BY <2>2, <2>3, <2>4, <2>5 DEF IInv
<1>4. CASE AppendIfAnswer(w) # "none"
  <2>1. AppendIfAnswer(w) = "stale" /\ head # readHead[w]
    BY <1>2, <1>4
  <2>2. SinkInv' /\ Len(records') \in Nat /\ Len(records') = Len(records)
        /\ \A k \in 0 .. Len(records) : HashAt(k)' = HashAt(k)
    BY <1>4, SinkKept DEF IInv, AppendIf, sinkVars
  <2>3. LocalsInv'
    BY <1>1, <1>4 DEF IInv, LocalsInv, AppendIf, sinkVars
  <2>4. CASE attempt[w] + 1 < MaxAppendAttempts
    <3>1. ControlInv' /\ pc' = [pc EXCEPT ![w] = "head"] /\ op' = op
      <4>1. "head" \in Labels \ {"idle"} /\ GoTo(w, "head") /\ UNCHANGED <<op, resultVars>>
        BY <2>1, <2>4 DEF AppendIf, Labels
      <4>2. QED
        BY <1>1, <4>1, GoToFacts DEF IInv
    <3>2. ReadsOf(w)'
      <4>1. pc'[w] = "head" /\ attempt'[w] = attempt[w] + 1 /\ began'[w] = began[w]
        BY <1>1, <3>1 DEF IInv, ControlInv, LocalsInv
      <4>2. /\ began[w] + attempt[w] <= Len(readHead[w]) /\ began[w] <= Len(records)
            /\ Len(readHead[w]) <= Len(records) /\ readHead[w] = HashAt(Len(readHead[w]))
            /\ began[w] \in Nat /\ readHead[w] \in Hash
        BY <1>1 DEF IInv, LocalsInv, ReadsStayBehind, ReadsOf
      <4>3. Len(readHead[w]) # Len(records) /\ Len(readHead[w]) \in Nat
        BY <2>1, <4>2, HashAtFacts DEF IInv, Hash
      <4>4. began[w] + (attempt[w] + 1) <= Len(records)
        BY <1>1, <4>2, <4>3
      <4>5. QED
        BY <1>1, <2>2, <4>1, <4>2, <4>4 DEF ReadsOf
    <3>3. ReadsStayBehind'
      <4>1. \A v \in Writers \ {w} :
           pc'[v] = pc[v] /\ attempt'[v] = attempt[v] /\ op'[v] = op[v]
        BY <1>1, <3>1 DEF IInv, ControlInv, LocalsInv
      <4>2. QED
        BY <1>1, <2>2, <3>2, <4>1, OthersKept
    <3>4. QED
      BY <2>2, <2>3, <3>1, <3>3 DEF IInv
  <2>5. CASE ~(attempt[w] + 1 < MaxAppendAttempts)
    <3>1. ControlInv' /\ pc' = [pc EXCEPT ![w] = "idle"]
         /\ \A v \in Writers \ {w} : op'[v] = op[v]
      <4>1. "exhausted" \in Errors \cup {"none"} /\ Return(w, "exhausted")
        BY <2>1, <2>5 DEF AppendIf, Errors
      <4>2. QED
        BY <1>1, <4>1, ReturnFacts DEF IInv
    <3>2. ReadsOf(w)'
      BY <3>1, IdleReads DEF IInv, ControlInv
    <3>3. ReadsStayBehind'
      <4>1. \A v \in Writers \ {w} :
           pc'[v] = pc[v] /\ attempt'[v] = attempt[v] /\ op'[v] = op[v]
        BY <1>1, <3>1 DEF IInv, ControlInv, LocalsInv
      <4>2. QED
        BY <1>1, <2>2, <3>2, <4>1, OthersKept
    <3>4. QED
      BY <2>2, <2>3, <3>1, <3>3 DEF IInv
  <2>6. QED
    BY <2>4, <2>5
<1>5. QED
  BY <1>3, <1>4

LEMMA ReadLatestKeeps ==
    ASSUME IInv, NEW w \in Writers, ReadLatest(w)
    PROVE  IInv'
<1>1. SinkInv' /\ Len(records') \in Nat /\ Len(records') = Len(records)
      /\ \A k \in 0 .. Len(records) : HashAt(k)' = HashAt(k)
  BY SinkKept DEF IInv, ReadLatest, sinkVars
<1>2. ControlInv' /\ pc' = [pc EXCEPT ![w] = "previousHash"]
  <2>1. "previousHash" \in Labels \ {"idle"}
    BY DEF Labels
  <2>2. QED
    BY <2>1, GoToFacts DEF IInv, ReadLatest
<1>3. LatestSequence = Len(records)
  BY LatestIsLength DEF IInv, SinkInv
<1>4. LocalsInv'
  BY <1>1, <1>3 DEF IInv, LocalsInv, SinkInv, ReadLatest, sinkVars
<1>5. ReadsOf(w)'
  <2>1. pc'[w] = "previousHash" /\ readSeq'[w] = Len(records) + 1
    BY <1>2, <1>3 DEF IInv, ControlInv, LocalsInv, ReadLatest
  <2>2. began'[w] = began[w] /\ began[w] \in Nat /\ began[w] <= Len(records)
        /\ w \in PlainWriters
    BY DEF ReadLatest, IInv, LocalsInv, ReadsStayBehind, ReadsOf
  <2>3. QED
    BY <1>1, <2>1, <2>2 DEF ReadsOf
<1>6. ReadsStayBehind'
  <2>1. \A v \in Writers \ {w} :
          /\ pc'[v] = pc[v] /\ attempt'[v] = attempt[v]
          /\ readHead'[v] = readHead[v] /\ readSeq'[v] = readSeq[v]
          /\ began'[v] = began[v] /\ op'[v] = op[v]
    BY <1>2 DEF ReadLatest, IInv, ControlInv, LocalsInv
  <2>2. Len(records') >= Len(records)
    BY <1>1
  <2>3. QED
    BY <1>1, <1>5, <2>1, <2>2, OthersKept
<1>7. QED
  BY <1>1, <1>2, <1>4, <1>6 DEF IInv

\* previousHashFor finds the record its sequence follows, if any.
LEMMA PreviousHashIsHashAt ==
    ASSUME SinkInv, NEW sequence \in Nat, sequence - 1 \in 0 .. Len(records),
           NEW hash \in PreviousHashes(sequence)
    PROVE  hash = HashAt(sequence - 1)
<1>1. CASE sequence = 1
  BY <1>1 DEF PreviousHashes, HashAt
<1>2. CASE sequence # 1
  <2>1. PICK i \in ReplayAt(sequence - 1) : hash = records[i].hash
    BY <1>2 DEF PreviousHashes
  <2>2. i \in DOMAIN records /\ records[i].sequence = sequence - 1
    BY DEF ReplayAt
  <2>3. i = sequence - 1 /\ i # 0
    BY <1>2, <2>2 DEF SinkInv, ChainIntact, VerifyChain
  <2>4. QED
    BY <2>1, <2>3 DEF HashAt
<1>3. QED
  BY <1>1, <1>2

LEMMA PreviousHashForKeeps ==
    ASSUME IInv, NEW w \in Writers, PreviousHashFor(w)
    PROVE  IInv'
<1>1. SinkInv' /\ Len(records') \in Nat /\ Len(records') = Len(records)
      /\ \A k \in 0 .. Len(records) : HashAt(k)' = HashAt(k)
  BY SinkKept DEF IInv, PreviousHashFor, sinkVars
<1>2. /\ pc[w] = "previousHash" /\ w \in PlainWriters
      /\ readSeq[w] - 1 \in began[w] .. Len(records) /\ began[w] <= Len(records)
      /\ began[w] \in Nat /\ readSeq[w] \in Nat
      /\ UNCHANGED <<attempt, readSeq, calls, began, retained>>
  BY DEF IInv, LocalsInv, ReadsStayBehind, ReadsOf, PreviousHashFor, sinkVars
<1>3. readSeq[w] - 1 \in 0 .. Len(records)
  BY <1>1, <1>2
<1>4. \/ Return(w, "gap") /\ UNCHANGED readHead
      \/ /\ readHead' = [readHead EXCEPT ![w] = HashAt(readSeq[w] - 1)]
         /\ ComputeHash(w, "append")
  BY <1>2, <1>3, PreviousHashIsHashAt DEF PreviousHashFor, IInv
<1>5. /\ ControlInv'
      /\ \/ pc'[w] = "idle"
         \/ /\ pc'[w] = "append" /\ op'[w] = op[w] /\ op[w] \notin Unencodable
            /\ readHead' = [readHead EXCEPT ![w] = HashAt(readSeq[w] - 1)]
      /\ \A v \in Writers \ {w} : pc'[v] = pc[v] /\ op'[v] = op[v]
  <2>1. "gap" \in Errors \cup {"none"} /\ "append" \in Labels \ {"idle"}
    BY DEF Errors, Labels
  <2>2. CASE Return(w, "gap")
    <3>1. ControlInv' /\ pc' = [pc EXCEPT ![w] = "idle"]
          /\ \A v \in Writers \ {w} : pc'[v] = pc[v] /\ op'[v] = op[v]
      BY <1>2, <2>1, <2>2, ReturnFacts DEF IInv
    <3>2. QED
      BY <3>1 DEF IInv, ControlInv
  <2>3. CASE /\ readHead' = [readHead EXCEPT ![w] = HashAt(readSeq[w] - 1)]
             /\ ComputeHash(w, "append")
    BY <1>2, <2>1, <2>3, ComputeHashFacts DEF IInv
  <2>4. QED
    BY <1>4, <2>2, <2>3
<1>6. LocalsInv'
  BY <1>2, <1>3, <1>4, HashAtFacts DEF IInv, LocalsInv
<1>7. ReadsOf(w)'
  <2>1. CASE pc'[w] = "idle"
    BY <2>1, IdleReads
  <2>2. CASE /\ pc'[w] = "append" /\ op'[w] = op[w] /\ op[w] \notin Unencodable
             /\ readHead' = [readHead EXCEPT ![w] = HashAt(readSeq[w] - 1)]
    <3>1. readHead'[w] = HashAt(readSeq[w] - 1)
      BY <2>2 DEF IInv, LocalsInv
    <3>2. HashAt(readSeq[w] - 1)' = HashAt(readSeq[w] - 1)
      BY <1>1, <1>2, <1>3
    <3>3. QED
      BY <1>1, <1>2, <2>2, <3>1, <3>2 DEF ReadsOf
  <2>3. QED
    BY <1>5, <2>1, <2>2
<1>8. ReadsStayBehind'
  <2>1. \A v \in Writers \ {w} : readHead'[v] = readHead[v]
    BY <1>4 DEF IInv, LocalsInv
  <2>2. QED
    BY <1>1, <1>2, <1>5, <1>7, <2>1, OthersKept
<1>9. QED
  BY <1>1, <1>5, <1>6, <1>8 DEF IInv

LEMMA PlainAppendKeeps ==
    ASSUME IInv, NEW w \in Writers, PlainAppend(w)
    PROVE  IInv'
<1>1. /\ pc[w] = "append" /\ w \in PlainWriters /\ op[w] \in Ops /\ Len(records) \in Nat
      /\ readSeq[w] - 1 \in began[w] .. Len(records) /\ began[w] \in Nat /\ readSeq[w] \in Nat
      /\ readHead[w] = HashAt(readSeq[w] - 1)
      /\ UNCHANGED <<attempt, readHead, readSeq, calls, began>>
  BY DEF IInv, SinkInv, ControlInv, LocalsInv, ReadsStayBehind, ReadsOf, PlainAppend
<1>2. Duplicate(readSeq[w]) <=> readSeq[w] \in 1 .. Len(records)
  BY LatestIsLength DEF IInv, SinkInv, Duplicate
<1>3. /\ SinkInv' /\ Len(records') \in Nat /\ Len(records') >= Len(records)
      /\ \A k \in 0 .. Len(records) : HashAt(k)' = HashAt(k)
      /\ UNCHANGED retained
  <2>1. CASE Duplicate(readSeq[w])
    BY <1>1, <2>1, SinkKept DEF IInv, PlainAppend, sinkVars
  <2>2. CASE ~Duplicate(readSeq[w])
    <3>1. readSeq[w] = Len(records) + 1
      BY <1>1, <1>2, <2>2
    <3>2. readHead[w] = head
      <4>1. readSeq[w] - 1 = Len(records)
        BY <3>1, <1>1
      <4>2. QED
        BY <4>1, <1>1, HashAtFacts DEF IInv
    <3>3. AppendLocked(MakeRecord(w, Len(records) + 1, head))
      BY <2>2, <3>1, <3>2 DEF PlainAppend
    <3>4. QED
      BY <1>1, <3>3, AppendKeepsChain DEF IInv, AppendLocked
  <2>3. QED
    BY <2>1, <2>2
<1>4. ControlInv' /\ pc' = [pc EXCEPT ![w] = "idle"]
      /\ \A v \in Writers \ {w} : op'[v] = op[v]
  <2>1. PICK error \in {"duplicate", "none"} : Return(w, error)
    BY DEF PlainAppend
  <2>2. error \in Errors \cup {"none"}
    BY DEF Errors
  <2>3. QED
    BY <1>1, <2>1, <2>2, ReturnFacts DEF IInv
<1>5. LocalsInv'
  BY <1>1, <1>3 DEF IInv, LocalsInv
<1>6. ReadsStayBehind'
  <2>1. ReadsOf(w)'
    BY <1>4, IdleReads DEF IInv, ControlInv
  <2>2. \A v \in Writers \ {w} : pc'[v] = pc[v] /\ op'[v] = op[v]
    BY <1>4 DEF IInv, ControlInv
  <2>3. QED
    BY <1>1, <1>3, <2>1, <2>2, OthersKept
<1>7. QED
  BY <1>3, <1>4, <1>5, <1>6 DEF IInv

\* A truncating sink stops replaying a record; what is stored stays.
LEMMA OtherStepsKeep ==
    ASSUME IInv, Truncate \/ UNCHANGED vars
    PROVE  IInv'
<1>1. /\ SinkInv' /\ Len(records') \in Nat /\ Len(records') = Len(records)
      /\ \A k \in 0 .. Len(records) : HashAt(k)' = HashAt(k)
  BY SinkKept DEF IInv, Truncate, vars
<1>2. UNCHANGED <<pc, op, attempt, readHead, readSeq, calls, began, persisted, reported>>
      /\ \/ retained' = retained
         \/ retained <= MaxTruncations /\ retained' = retained + 1
  BY DEF Truncate, vars, localVars, resultVars
<1>3. ControlInv' /\ LocalsInv'
  BY <1>2, StreamAssumption DEF IInv, ControlInv, LocalsInv, CasNeverDuplicate
<1>4. ReadsStayBehind'
  <2> SUFFICES ASSUME NEW w \in Writers PROVE ReadsOf(w)'
    BY DEF ReadsStayBehind
  <2>1. LocalsInv /\ SinkInv /\ ReadsOf(w)
    BY DEF IInv, ReadsStayBehind
  <2>2. QED
    BY <1>1, <1>2, <2>1, ReadsKept
<1>5. QED
  BY <1>1, <1>3, <1>4 DEF IInv

-----------------------------------------------------------------------------
(* The invariant, and the properties it implies.                           *)

LEMMA InitEstablishes == Init => IInv
<1> SUFFICES ASSUME Init PROVE IInv
  OBVIOUS
<1>1. SinkInv
  BY DEF Init, SinkInv, Genesis, Hash, ChainIntact, VerifyChain, HeadNamesLatest, HashLengths
<1>2. ControlInv
  BY DEF Init, ControlInv, CasNeverDuplicate, Labels
<1>3. LocalsInv
  BY StreamAssumption DEF Init, LocalsInv, Genesis, Hash
<1>4. ReadsStayBehind
  BY DEF Init, ReadsStayBehind, ReadsOf
<1>5. QED
  BY <1>1, <1>2, <1>3, <1>4 DEF IInv

LEMMA NextKeeps == IInv /\ [Next]_vars => IInv'
<1> SUFFICES ASSUME IInv, [Next]_vars PROVE IInv'
  OBVIOUS
<1>1. ASSUME NEW w \in Writers, NEW payload \in Ops, Begin(w, payload) PROVE IInv'
  BY <1>1, BeginKeeps
<1>2. ASSUME NEW w \in Writers, CasStep(w) PROVE IInv'
  BY <1>2, ReadHeadKeeps, ReadSequenceKeeps, AppendIfKeeps DEF CasStep
<1>3. ASSUME NEW w \in Writers, PlainStep(w) PROVE IInv'
  BY <1>3, ReadLatestKeeps, PreviousHashForKeeps, PlainAppendKeeps DEF PlainStep
<1>4. CASE Truncate \/ UNCHANGED vars
  BY <1>4, OtherStepsKeep
<1>5. QED
  BY <1>1, <1>2, <1>3, <1>4 DEF Next

\* The inductive invariant holds in every reachable state of opstream's sink
\* and its writers.
THEOREM Invariance == Spec => []IInv
BY InitEstablishes, NextKeeps, PTL DEF Spec

\* Types: sequences are positive, hashes well formed, and a call is in flight
\* exactly while its writer is inside AppendNext or AppendOp.
THEOREM TypeCorrect == Spec => []TypeOK
<1>1. IInv => TypeOK
  BY StreamAssumption DEF IInv, SinkInv, ControlInv, LocalsInv, TypeOK
<1>2. QED
  BY <1>1, Invariance, PTL

\* The stored chain always verifies (VerifyChain in opstream/chain.go), for any
\* number of AppendNext and AppendOp writers and any truncation of the replay.
THEOREM ChainAlwaysIntact == Spec => []ChainIntact
<1>1. IInv => ChainIntact
  BY DEF IInv, SinkInv
<1>2. QED
  BY <1>1, Invariance, PTL

\* The head AppendIf compares against is always that of the latest record.
THEOREM HeadAlwaysLatest == Spec => []HeadNamesLatest
<1>1. IInv => HeadNamesLatest
  BY DEF IInv, SinkInv
<1>2. QED
  BY <1>1, Invariance, PTL

\* No AppendNext call ever sees the sink's duplicate-sequence error: a matching
\* head implies a fresh sequence, however the writers interleave.
THEOREM CasCallsNeverDuplicate == Spec => []CasNeverDuplicate
<1>1. IInv => CasNeverDuplicate
  BY DEF IInv, ControlInv
<1>2. QED
  BY <1>1, Invariance, PTL

\* What any writer has read between two sink calls stays behind the chain.
THEOREM ReadsAlwaysBehind == Spec => []ReadsStayBehind
<1>1. IInv => ReadsStayBehind
  BY DEF IInv
<1>2. QED
  BY <1>1, Invariance, PTL

-----------------------------------------------------------------------------
(* OpStream implements OpLog: the safety half, step by step.               *)

LogOf(rs) == [i \in DOMAIN rs |-> [actor |-> rs[i].actor, op |-> rs[i].op]]

LEMMA LogLength ==
    ASSUME NEW rs \in Seq(Record)
    PROVE  Len(LogOf(rs)) = Len(rs)
<1>1. DOMAIN LogOf(rs) = 1 .. Len(rs) /\ Len(rs) \in Nat
  BY DEF LogOf
<1>2. QED
  BY <1>1, LenProperties

\* The mapped log is as long as the chain, and grows by one entry with it.
LEMMA LogFacts ==
    ASSUME NEW rs \in Seq(Record), NEW record \in Record
    PROVE  /\ Len(LogOf(rs)) = Len(rs)
           /\ LogOf(Append(rs, record))
                = Append(LogOf(rs), [actor |-> record.actor, op |-> record.op])
<1> DEFINE Entry(r) == [actor |-> r.actor, op |-> r.op]
<1>1. DOMAIN rs = 1 .. Len(rs) /\ Len(rs) \in Nat
  OBVIOUS
<1>2. LogOf(rs) = [i \in 1 .. Len(rs) |-> Entry(rs[i])]
  BY <1>1 DEF LogOf
<1>3. \A i \in 1 .. Len(rs) : Entry(rs[i]) \in [actor: Writers, op: Ops]
  <2> TAKE i \in 1 .. Len(rs)
  <2>1. rs[i] \in Record
    BY <1>1, ElementOfSeq
  <2>2. QED
    BY <2>1 DEF Record
<1> HIDE DEF Entry
<1>4. LogOf(rs) \in Seq([actor: Writers, op: Ops]) /\ Len(LogOf(rs)) = Len(rs)
  BY <1>1, <1>2, <1>3, IsASeq, LenProperties
<1>5. Entry(record) \in [actor: Writers, op: Ops]
  BY DEF Record, Entry
<1> DEFINE longer == Append(rs, record)
<1>6. /\ DOMAIN longer = 1 .. Len(rs) + 1
      /\ \A i \in 1 .. Len(rs) : longer[i] = rs[i]
      /\ longer[Len(rs) + 1] = record
  BY <1>1, AppendProperties
<1>7. LogOf(longer) = [i \in 1 .. Len(rs) + 1 |-> Entry(longer[i])]
  BY <1>6 DEF LogOf, Entry
<1> HIDE DEF longer
<1>8. /\ Append(LogOf(rs), Entry(record)) \in [1 .. Len(rs) + 1 -> [actor: Writers, op: Ops]]
      /\ \A i \in 1 .. Len(rs) : Append(LogOf(rs), Entry(record))[i] = Entry(rs[i])
      /\ Append(LogOf(rs), Entry(record))[Len(rs) + 1] = Entry(record)
  <2> DEFINE Entries == [actor: Writers, op: Ops]
  <2>1. /\ LogOf(rs) \in Seq(Entries) /\ Entry(record) \in Entries
        /\ Len(LogOf(rs)) = Len(rs)
        /\ \A i \in 1 .. Len(rs) : LogOf(rs)[i] = Entry(rs[i])
    BY <1>1, <1>2, <1>4, <1>5
  <2> HIDE DEF Entries
  <2>2. /\ Append(LogOf(rs), Entry(record)) \in Seq(Entries)
        /\ Len(Append(LogOf(rs), Entry(record))) = Len(rs) + 1
        /\ Append(LogOf(rs), Entry(record))[Len(rs) + 1] = Entry(record)
        /\ \A i \in 1 .. Len(rs) : Append(LogOf(rs), Entry(record))[i] = LogOf(rs)[i]
    BY <2>1, AppendProperties
  <2>3. Append(LogOf(rs), Entry(record)) \in [1 .. Len(rs) + 1 -> Entries]
    BY <2>2, LenProperties
  <2>4. QED
    BY <2>1, <2>2, <2>3 DEF Entries
<1>9. LogOf(longer) = Append(LogOf(rs), Entry(record))
  <2>1. \A i \in 1 .. Len(rs) + 1 : LogOf(longer)[i] = Append(LogOf(rs), Entry(record))[i]
    <3> TAKE i \in 1 .. Len(rs) + 1
    <3>1. LogOf(longer)[i] = Entry(longer[i])
      BY <1>7
    <3>2. CASE i \in 1 .. Len(rs)
      BY <3>1, <3>2, <1>6, <1>8
    <3>3. CASE i = Len(rs) + 1
      BY <3>1, <3>3, <1>6, <1>8
    <3>4. Len(rs) \in Nat
      BY <1>1
    <3>5. i \in 1 .. Len(rs) \/ i = Len(rs) + 1
      BY <3>4
    <3>6. QED
      BY <3>2, <3>3, <3>5
  <2>2. QED
    BY <2>1, <1>7, <1>8
<1>10. QED
  BY <1>4, <1>9 DEF longer, Entry

LogNeeds == [w \in Writers |-> IF w \notin PlainWriters THEN MaxAppendAttempts
                               ELSE IF MaxTruncations = 0 THEN 1 ELSE 0]

\* A call that lands its record is a Land step of the log.
LEMMA LandingStep ==
    ASSUME IInv, NEW w \in Writers, pc[w] # "idle", Return(w, "none"), began' = began,
           op[w] \notin Unencodable,
           AppendLocked(MakeRecord(w, Len(records) + 1, head))
    PROVE  Log!Land(w)
<1> DEFINE record == MakeRecord(w, Len(records) + 1, head)
<1>1. op[w] \in Ops /\ op[w] # NoOp /\ records \in Seq(Record) /\ head \in Hash
      /\ Len(records) \in Nat
  BY DEF IInv, SinkInv, ControlInv
<1>2. record \in Record /\ record.actor = w /\ record.op = op[w]
  <2>1. Len(records) + 1 \in Nat \ {0}
    BY <1>1
  <2>2. record \in Record
    BY <1>1, <2>1, MakeRecordType
  <2>3. QED
    BY <2>2 DEF MakeRecord
<1> HIDE DEF record
<1>3. records' = Append(records, record)
  BY DEF AppendLocked, record
<1>4. LogOf(records') = Append(LogOf(records), [actor |-> w, op |-> op[w]])
  BY <1>1, <1>2, <1>3, LogFacts
<1>5. op' = [op EXCEPT ![w] = NoOp]
  BY DEF Return
<1>6. QED
  BY <1>1, <1>4, <1>5 DEF Log!Land, LogOf

\* A call that reports an error is a Lose step, when enough others landed.
LEMMA LosingStep ==
    ASSUME IInv, NEW w \in Writers, pc[w] # "idle", NEW error, error # "none",
           Return(w, error), UNCHANGED <<records, began>>,
           op[w] \in Unencodable \/ Len(records) >= began[w] + LogNeeds[w]
    PROVE  Log!Lose(w)
<1>1. op[w] # NoOp /\ records \in Seq(Record) /\ op' = [op EXCEPT ![w] = NoOp]
  BY DEF IInv, SinkInv, ControlInv, Return
<1>2. Len(LogOf(records)) = Len(records)
  BY <1>1, LogLength
<1>3. LogOf(records') = LogOf(records)
  OBVIOUS
<1>4. QED
  BY <1>1, <1>2, <1>3 DEF Log!Lose, LogOf, LogNeeds

\* A step that neither enters nor leaves a call is invisible in the log.
LEMMA InvisibleStep ==
    ASSUME UNCHANGED <<records, op, began>>
    PROVE  UNCHANGED Log!logVars
BY DEF Log!logVars

LEMMA BeginIsCall ==
    ASSUME IInv, NEW w \in Writers, NEW payload \in Ops, Begin(w, payload)
    PROVE  Log!Call(w, payload)
<1>1. op[w] = NoOp /\ op' = [op EXCEPT ![w] = payload] /\ UNCHANGED records
  BY DEF IInv, ControlInv, Begin, sinkVars
<1>2. Len(LogOf(records)) = Len(records) /\ began' = [began EXCEPT ![w] = Len(records)]
  BY LogLength DEF IInv, SinkInv, Begin
<1>3. QED
  BY <1>1, <1>2 DEF Log!Call, LogOf

LEMMA AppendIfLands ==
    ASSUME IInv, NEW w \in Writers, AppendIf(w)
    PROVE  Log!Land(w) \/ Log!Lose(w) \/ UNCHANGED Log!logVars
<1>1. /\ pc[w] = "appendIf" /\ w \notin PlainWriters /\ Len(records) \in Nat
      /\ op[w] \notin Unencodable /\ attempt[w] \in Nat /\ began[w] \in Nat /\ began' = began
      /\ began[w] + attempt[w] <= Len(readHead[w]) /\ Len(readHead[w]) \in Nat
      /\ Len(readHead[w]) <= Len(records) /\ readHead[w] = HashAt(Len(readHead[w]))
  BY DEF IInv, SinkInv, LocalsInv, ReadsStayBehind, ReadsOf, AppendIf, Hash
<1>2. CASE head = readHead[w]
  <2>1. readSeq[w] = Len(records) + 1 /\ AppendIfAnswer(w) = "none"
    BY <1>1, <1>2, MatchingHeadIsFresh DEF AppendIfAnswer
  <2>2. Return(w, "none") /\ AppendLocked(MakeRecord(w, Len(records) + 1, head))
    BY <1>2, <2>1 DEF AppendIf
  <2>3. QED
    BY <1>1, <2>2, LandingStep
<1>3. CASE head # readHead[w]
  <2>1. AppendIfAnswer(w) = "stale" /\ UNCHANGED records
    BY <1>3 DEF AppendIf, AppendIfAnswer, sinkVars
  <2>2. Len(readHead[w]) # Len(records)
    BY <1>1, <1>3, HashAtFacts DEF IInv
  <2>3. CASE attempt[w] + 1 < MaxAppendAttempts
    BY <1>1, <2>1, <2>3, InvisibleStep DEF AppendIf
  <2>4. CASE ~(attempt[w] + 1 < MaxAppendAttempts)
    <3>1. Return(w, "exhausted")
      BY <2>1, <2>4 DEF AppendIf
    <3>2. LogNeeds[w] = MaxAppendAttempts
      BY <1>1 DEF LogNeeds
    <3>3. Len(records) >= began[w] + LogNeeds[w]
      BY <1>1, <2>2, <2>4, <3>2, StreamAssumption
    <3>4. QED
      BY <1>1, <2>1, <3>1, <3>3, LosingStep
  <2>5. QED
    BY <2>3, <2>4
<1>4. QED
  BY <1>2, <1>3

\* ComputeHash loses an op without an encoding, and is invisible otherwise.
LEMMA ComputeHashLands ==
    ASSUME IInv, NEW w \in Writers, pc[w] # "idle", NEW label, ComputeHash(w, label),
           UNCHANGED <<records, began>>
    PROVE  Log!Lose(w) \/ UNCHANGED Log!logVars
<1>1. CASE op[w] \in Unencodable
  <2>1. Return(w, "unencodable")
    BY <1>1 DEF ComputeHash
  <2>2. QED
    BY <1>1, <2>1, LosingStep
<1>2. CASE op[w] \notin Unencodable
  BY <1>2, InvisibleStep DEF ComputeHash
<1>3. QED
  BY <1>1, <1>2

LEMMA PreviousHashForLands ==
    ASSUME IInv, NEW w \in Writers, PreviousHashFor(w)
    PROVE  Log!Lose(w) \/ UNCHANGED Log!logVars
<1>1. /\ pc[w] = "previousHash" /\ w \in PlainWriters /\ Len(records) \in Nat
      /\ began[w] \in Nat /\ began[w] <= Len(records) /\ readSeq[w] \in Nat
      /\ readSeq[w] - 1 \in began[w] .. Len(records)
      /\ retained \in 1 .. MaxTruncations + 1 /\ UNCHANGED <<records, began>>
  BY DEF IInv, SinkInv, LocalsInv, ReadsStayBehind, ReadsOf, PreviousHashFor, sinkVars
<1>2. CASE ComputeHash(w, "append")
  BY <1>1, <1>2, ComputeHashLands
<1>3. CASE PreviousHashes(readSeq[w]) = {} /\ Return(w, "gap")
  <2>1. LogNeeds[w] = 0
    <3>1. SUFFICES ASSUME MaxTruncations = 0 PROVE FALSE
      BY <1>1 DEF LogNeeds
    <3>2. readSeq[w] # 1 /\ ReplayAt(readSeq[w] - 1) = {}
      <4>1. readSeq[w] # 1
        BY <1>3 DEF PreviousHashes
      <4>2. \A i \in ReplayAt(readSeq[w] - 1) : records[i].hash \in PreviousHashes(readSeq[w])
        BY <4>1 DEF PreviousHashes
      <4>3. QED
        BY <1>3, <4>1, <4>2
    <3>3. retained = 1 /\ readSeq[w] - 1 \in 1 .. Len(records)
      BY <1>1, <3>1, <3>2
    <3>4. DOMAIN records = 1 .. Len(records)
      BY DEF IInv, SinkInv
    <3>5. records[readSeq[w] - 1].sequence = readSeq[w] - 1
      BY <3>3, <3>4 DEF IInv, SinkInv, ChainIntact, VerifyChain
    <3>6. readSeq[w] - 1 \in ReplayAt(readSeq[w] - 1)
      BY <3>3, <3>4, <3>5 DEF ReplayAt
    <3>7. QED
      BY <3>2, <3>6
  <2>2. Len(records) >= began[w] + LogNeeds[w]
    BY <1>1, <2>1
  <2>3. QED
    BY <1>1, <1>3, <2>2, LosingStep
<1>4. QED
  BY <1>2, <1>3 DEF PreviousHashFor

LEMMA PlainAppendLands ==
    ASSUME IInv, NEW w \in Writers, PlainAppend(w)
    PROVE  Log!Land(w) \/ Log!Lose(w)
<1>1. /\ pc[w] = "append" /\ w \in PlainWriters /\ Len(records) \in Nat
      /\ began[w] \in Nat /\ readSeq[w] \in Nat /\ began' = began /\ op[w] \notin Unencodable
      /\ readSeq[w] - 1 \in began[w] .. Len(records)
      /\ readHead[w] = HashAt(readSeq[w] - 1)
  BY DEF IInv, SinkInv, LocalsInv, ReadsStayBehind, ReadsOf, PlainAppend
<1>2. Duplicate(readSeq[w]) <=> readSeq[w] \in 1 .. Len(records)
  BY LatestIsLength DEF IInv, SinkInv, Duplicate
<1>3. CASE Duplicate(readSeq[w])
  <2>1. Return(w, "duplicate") /\ UNCHANGED records
    BY <1>3 DEF PlainAppend, sinkVars
  <2>2. LogNeeds[w] \in {0, 1}
    BY <1>1 DEF LogNeeds
  <2>3. Len(records) >= began[w] + LogNeeds[w]
    BY <1>1, <1>2, <1>3, <2>2
  <2>4. QED
    BY <1>1, <2>1, <2>3, LosingStep
<1>4. CASE ~Duplicate(readSeq[w])
  <2>1. readSeq[w] = Len(records) + 1 /\ readSeq[w] - 1 = Len(records)
    BY <1>1, <1>2, <1>4
  <2>2. readHead[w] = head
    BY <1>1, <2>1, HashAtFacts DEF IInv
  <2>3. Return(w, "none") /\ AppendLocked(MakeRecord(w, Len(records) + 1, head))
    BY <1>4, <2>1, <2>2 DEF PlainAppend
  <2>4. QED
    BY <1>1, <2>3, LandingStep
<1>5. QED
  BY <1>3, <1>4

\* AppendNext and AppendOp implement the atomic log: each call appends its op in
\* one step, once, and gives up only when that many other ops landed meanwhile.
THEOREM ImplementsLogSafely == Spec => ImplementsLogSteps
<1>1. Init => Log!LogInit
  BY DEF Init, Log!LogInit
<1>2. IInv /\ [Next]_vars => [Log!LogNext]_(Log!logVars)
  <2> SUFFICES ASSUME IInv, [Next]_vars
               PROVE  Log!LogNext \/ UNCHANGED Log!logVars
    OBVIOUS
  <2>1. ASSUME NEW w \in Writers, NEW payload \in Ops, Begin(w, payload)
        PROVE  Log!LogNext
    BY <2>1, BeginIsCall DEF Log!LogNext
  <2>2. ASSUME NEW w \in Writers, ReadHead(w) \/ ReadLatest(w)
        PROVE  UNCHANGED Log!logVars
    BY <2>2, InvisibleStep DEF ReadHead, ReadLatest, sinkVars
  <2>3. ASSUME NEW w \in Writers, AppendIf(w)
        PROVE  Log!LogNext \/ UNCHANGED Log!logVars
    BY <2>3, AppendIfLands DEF Log!LogNext
  <2>4. ASSUME NEW w \in Writers, PreviousHashFor(w)
        PROVE  Log!LogNext \/ UNCHANGED Log!logVars
    BY <2>4, PreviousHashForLands DEF Log!LogNext
  <2>5. ASSUME NEW w \in Writers, PlainAppend(w)
        PROVE  Log!LogNext
    BY <2>5, PlainAppendLands DEF Log!LogNext
  <2>6. CASE Truncate \/ UNCHANGED vars
    BY <2>6, InvisibleStep DEF Truncate, vars, localVars
  <2>7. ASSUME NEW w \in Writers, ReadSequence(w)
        PROVE  Log!LogNext \/ UNCHANGED Log!logVars
    BY <2>7, ComputeHashLands DEF ReadSequence, sinkVars, Log!LogNext
  <2>8. QED
    BY <2>1, <2>2, <2>3, <2>4, <2>5, <2>6, <2>7 DEF Next, CasStep, PlainStep
<1>3. QED
  BY <1>1, <1>2, Invariance, PTL DEF Spec, ImplementsLogSteps

-----------------------------------------------------------------------------
(* The account of the calls: what each writer was told against what is in  *)
(* the stream.                                                             *)

\* upTo holds w's ops among the first k records, and so all of them at the end.
Collects(upTo, w, rs) ==
    /\ OpsOf(w, rs) = upTo[Len(rs)]
    /\ upTo[0] = <<>>
    /\ \A k \in 1 .. Len(rs) :
          upTo[k] = IF rs[k].actor = w THEN Append(upTo[k - 1], rs[k].op) ELSE upTo[k - 1]

\* The walk of the records that collects one writer's ops.
LEMMA OpsRun ==
    ASSUME NEW w, NEW rs \in Seq(Record)
    PROVE  \E upTo \in [0 .. Len(rs) -> Seq(Ops)] : Collects(upTo, w, rs)
<1> DEFINE n == Len(rs)
           Lists == Seq(Ops)
           none == <<>>
           Round(k, t) == IF rs[k].actor = w THEN Append(t, rs[k].op) ELSE t
           step == [p \in (1 .. n) \X Lists |-> Round(p[1], p[2])]
           Body(f) == [k \in 0 .. n |->
                         IF k = 0 THEN none
                         ELSE IF rs[k].actor = w THEN Append(f[k - 1], rs[k].op)
                                                 ELSE f[k - 1]]
           upTo == CHOOSE f : f = Body(f)
<1>1. n \in Nat /\ none \in Lists
  BY LenProperties
<1>2. ASSUME NEW k \in 1 .. n, NEW t \in Lists PROVE Round(k, t) \in Lists
  <2>1. rs[k] \in Record
    BY ElementOfSeq
  <2>2. rs[k].op \in Ops
    BY <2>1 DEF Record
  <2>3. QED
    BY <2>2, AppendProperties
<1>3. OpsOf(w, rs) = upTo[n]
  BY DEF OpsOf
<1> HIDE DEF n, Lists, none, Round
<1>4. ASSUME NEW k \in 1 .. n, NEW t \in Lists PROVE step[<<k, t>>] = Round(k, t)
  OBVIOUS
<1> HIDE DEF step
<1>5. PICK run \in [0 .. n -> Lists] : RunsFrom(run, n, none, step)
  <2>1. StaysIn(step, n, Lists)
    BY <1>2, <1>4 DEF StaysIn
  <2>2. QED
    BY <1>1, <2>1, LoopRuns
<1>6. run = Body(run)
  <2>1. ASSUME NEW k \in 0 .. n PROVE run[k] = Body(run)[k]
    <3>1. CASE k = 0
      BY <3>1, <1>5 DEF RunsFrom
    <3>2. CASE k # 0
      <4>1. k \in 1 .. n /\ k - 1 \in 0 .. n
        BY <1>1, <3>2
      <4>2. run[k] = step[<<k, run[k - 1]>>] /\ run[k - 1] \in Lists
        BY <4>1, <1>5 DEF RunsFrom
      <4>3. run[k] = Round(k, run[k - 1])
        BY <4>1, <4>2, <1>4
      <4>4. QED
        BY <3>2, <4>3 DEF Round
    <3>3. QED
      BY <3>1, <3>2
  <2>2. run = [k \in 0 .. n |-> run[k]]
    OBVIOUS
  <2>3. QED
    BY <2>1, <2>2
<1>7. upTo = Body(upTo)
  BY <1>6
<1> HIDE DEF upTo
<1>8. upTo[0] = none
  BY <1>1, <1>7
<1>9. ASSUME NEW k \in 1 .. n PROVE upTo[k] = Round(k, upTo[k - 1])
  <2>1. k # 0 /\ k \in 0 .. n
    BY <1>1
  <2>2. Body(upTo)[k] = Round(k, upTo[k - 1])
    BY <2>1 DEF Round
  <2> HIDE DEF Body
  <2>3. QED
    BY <1>7, <2>2
<1> DEFINE T == {k \in 0 .. n : upTo[k] \in Lists}
<1>10. 0 \in T
  BY <1>1, <1>8
<1>11. ASSUME NEW k \in 1 .. n, k - 1 \in T PROVE k \in T
  BY <1>1, <1>2, <1>9, <1>11
<1>12. \A k \in 0 .. n : upTo[k] \in Lists
  <2>1. \A k \in 0 .. n : k \in T
    <3> HIDE DEF T
    <3>1. QED
      BY <1>1, <1>10, <1>11, CountingUp
  <2>2. QED
    BY <2>1
<1>13. upTo \in [0 .. n -> Lists]
  <2>1. Body(upTo) = [k \in 0 .. n |-> Body(upTo)[k]]
    OBVIOUS
  <2> HIDE DEF Body
  <2>2. QED
    BY <2>1, <1>7, <1>12
<1>14. QED
  BY <1>3, <1>8, <1>9, <1>13 DEF n, Lists, none, Round, Collects

\* A new record adds its op to its writer's, and nothing to anyone else's.
LEMMA OpsOfLonger ==
    ASSUME NEW w, NEW rs \in Seq(Record), NEW record \in Record
    PROVE  OpsOf(w, Append(rs, record)) =
              IF record.actor = w THEN Append(OpsOf(w, rs), record.op) ELSE OpsOf(w, rs)
<1> DEFINE longer == Append(rs, record)
           n == Len(rs)
<1>1. /\ longer \in Seq(Record) /\ Len(longer) = n + 1 /\ n \in Nat
      /\ \A k \in 1 .. n : longer[k] = rs[k]
      /\ longer[n + 1] = record
  BY AppendProperties, LenProperties
<1> HIDE DEF longer
<1>2. PICK upTo \in [0 .. Len(rs) -> Seq(Ops)] : Collects(upTo, w, rs)
  BY OpsRun
<1>3. PICK next \in [0 .. Len(longer) -> Seq(Ops)] : Collects(next, w, longer)
  BY <1>1, OpsRun
<1>4. /\ OpsOf(w, rs) = upTo[n]
      /\ upTo[0] = <<>>
      /\ \A k \in 1 .. n :
            upTo[k] = IF rs[k].actor = w THEN Append(upTo[k - 1], rs[k].op) ELSE upTo[k - 1]
  BY <1>2 DEF Collects
<1>5. /\ OpsOf(w, longer) = next[n + 1]
      /\ next[0] = <<>>
      /\ \A k \in 1 .. n + 1 :
            next[k] = IF longer[k].actor = w THEN Append(next[k - 1], longer[k].op)
                                             ELSE next[k - 1]
  BY <1>1, <1>3 DEF Collects
<1> HIDE DEF n
<1> DEFINE T == {k \in 0 .. n : next[k] = upTo[k]}
<1>6. 0 \in T
  BY <1>1, <1>4, <1>5
<1>7. ASSUME NEW k \in 1 .. n, k - 1 \in T PROVE k \in T
  <2>1. k \in 1 .. n + 1 /\ k \in 0 .. n
    BY <1>1
  <2>2. longer[k] = rs[k] /\ next[k - 1] = upTo[k - 1]
    BY <1>1, <1>7
  <2>3. next[k] = upTo[k]
    BY <1>4, <1>5, <2>1, <2>2
  <2>4. QED
    BY <2>1, <2>3
<1>8. next[n] = upTo[n]
  <2> HIDE DEF T
  <2>1. \A k \in 0 .. n : k \in T
    BY <1>1, <1>6, <1>7, CountingUp
  <2>2. n \in T
    BY <1>1, <2>1
  <2>3. QED
    BY <2>2 DEF T
<1>9. n + 1 \in 1 .. n + 1 /\ (n + 1) - 1 = n
  BY <1>1
<1>10. next[n + 1] = IF record.actor = w THEN Append(next[n], record.op) ELSE next[n]
  BY <1>1, <1>5, <1>9
<1>11. QED
  BY <1>4, <1>5, <1>8, <1>10 DEF longer

\* One writer's account.
AccountOf(w) ==
    /\ persisted[w] = OpsOf(w, records)
    /\ Len(persisted[w]) + Len(reported[w]) + (IF pc[w] = "idle" THEN 0 ELSE 1) = calls[w]

\* The call of w ends: with its record in the stream, or with an error and none.
Lands(w, record) ==
    /\ pc[w] # "idle" /\ Return(w, "none")
    /\ record.actor = w /\ record.op = op[w]
    /\ records' = Append(records, record)
    /\ UNCHANGED calls

Loses(w, error) ==
    /\ pc[w] # "idle" /\ Return(w, error)
    /\ UNCHANGED <<records, calls>>

\* No call begins or ends.
Quiet ==
    /\ UNCHANGED <<records, calls, persisted, reported>>
    /\ \A v \in Writers : pc'[v] = "idle" <=> pc[v] = "idle"

\* An append by the writer whose record it is.
LEMMA AppendLands ==
    ASSUME IInv, NEW w \in Writers, pc[w] # "idle", Return(w, "none"), UNCHANGED calls,
           NEW sequence \in Nat \ {0}, NEW previousHash \in Hash,
           AppendLocked(MakeRecord(w, sequence, previousHash))
    PROVE  \E record \in Record : Lands(w, record)
<1>1. op[w] \in Ops
  BY DEF IInv, ControlInv
<1>2. MakeRecord(w, sequence, previousHash) \in Record
  BY <1>1, MakeRecordType
<1>3. /\ MakeRecord(w, sequence, previousHash).actor = w
      /\ MakeRecord(w, sequence, previousHash).op = op[w]
  BY DEF MakeRecord
<1>4. QED
  BY <1>2, <1>3 DEF Lands, AppendLocked

\* A label inside a call is not "idle".
LEMMA MovingIsQuiet ==
    ASSUME IInv, NEW w \in Writers, pc[w] # "idle", NEW label \in Labels \ {"idle"},
           GoTo(w, label), UNCHANGED <<records, calls, persisted, reported>>
    PROVE  Quiet
BY DEF IInv, ControlInv, GoTo, Quiet

LEMMA AppendIfAccounts ==
    ASSUME IInv, NEW w \in Writers, AppendIf(w)
    PROVE  \/ \E record \in Record : Lands(w, record)
           \/ \E error \in Errors : Loses(w, error)
           \/ Quiet
<1>1. pc[w] = "appendIf" /\ UNCHANGED calls
  BY DEF AppendIf
<1>2. CASE AppendIfAnswer(w) = "none"
  <2>1. Return(w, "none") /\ AppendLocked(MakeRecord(w, readSeq[w], readHead[w]))
    BY <1>2 DEF AppendIf
  <2>2. head = readHead[w]
    BY <1>2 DEF AppendIfAnswer
  <2>3. readSeq[w] = Len(records) + 1 /\ Len(records) \in Nat /\ readHead[w] \in Hash
    BY <1>1, <2>2, MatchingHeadIsFresh DEF IInv, SinkInv, LocalsInv
  <2>4. readSeq[w] \in Nat \ {0}
    BY <2>3
  <2>5. QED
    BY <1>1, <2>1, <2>3, <2>4, AppendLands
<1>3. CASE AppendIfAnswer(w) # "none"
  <2>1. AppendIfAnswer(w) \in {"stale", "duplicate"} /\ UNCHANGED records
    BY <1>3 DEF AppendIf, AppendIfAnswer, sinkVars
  <2>2. CASE AppendIfAnswer(w) = "duplicate"
    <3>1. Return(w, "duplicate") /\ "duplicate" \in Errors
      BY <2>2 DEF AppendIf, Errors
    <3>2. QED
      BY <1>1, <2>1, <3>1 DEF Loses
  <2>3. CASE AppendIfAnswer(w) = "stale" /\ attempt[w] + 1 < MaxAppendAttempts
    <3>1. GoTo(w, "head") /\ "head" \in Labels \ {"idle"} /\ UNCHANGED <<persisted, reported>>
      BY <2>3 DEF AppendIf, Labels, resultVars
    <3>2. QED
      BY <1>1, <2>1, <3>1, MovingIsQuiet
  <2>4. CASE AppendIfAnswer(w) = "stale" /\ ~(attempt[w] + 1 < MaxAppendAttempts)
    <3>1. Return(w, "exhausted") /\ "exhausted" \in Errors
      BY <2>4 DEF AppendIf, Errors
    <3>2. QED
      BY <1>1, <2>1, <3>1 DEF Loses
  <2>5. QED
    BY <2>1, <2>2, <2>3, <2>4
<1>4. QED
  BY <1>2, <1>3

LEMMA ComputeHashAccounts ==
    ASSUME IInv, NEW w \in Writers, pc[w] # "idle", NEW label \in Labels \ {"idle"},
           ComputeHash(w, label), UNCHANGED <<records, calls>>
    PROVE  (\E error \in Errors : Loses(w, error)) \/ Quiet
<1>1. CASE op[w] \in Unencodable
  <2>1. Return(w, "unencodable") /\ "unencodable" \in Errors
    BY <1>1 DEF ComputeHash, Errors
  <2>2. QED
    BY <2>1 DEF Loses
<1>2. CASE op[w] \notin Unencodable
  <2>1. GoTo(w, label) /\ UNCHANGED <<persisted, reported>>
    BY <1>2 DEF ComputeHash, resultVars
  <2>2. QED
    BY <2>1, MovingIsQuiet
<1>3. QED
  BY <1>1, <1>2

LEMMA PlainStepAccounts ==
    ASSUME IInv, NEW w \in Writers, PlainStep(w)
    PROVE  \/ \E record \in Record : Lands(w, record)
           \/ \E error \in Errors : Loses(w, error)
           \/ Quiet
<1>1. CASE ReadLatest(w)
  <2>1. pc[w] # "idle" /\ GoTo(w, "previousHash") /\ "previousHash" \in Labels \ {"idle"}
        /\ UNCHANGED <<records, calls, persisted, reported>>
    BY <1>1 DEF ReadLatest, Labels, sinkVars, resultVars
  <2>2. QED
    BY <2>1, MovingIsQuiet
<1>2. CASE PreviousHashFor(w)
  <2>1. pc[w] # "idle" /\ UNCHANGED <<records, calls>>
        /\ (Return(w, "gap") \/ ComputeHash(w, "append"))
    BY <1>2 DEF PreviousHashFor, sinkVars
  <2>2. "gap" \in Errors /\ "append" \in Labels \ {"idle"}
    BY DEF Errors, Labels
  <2>3. QED
    BY <2>1, <2>2, ComputeHashAccounts DEF Loses
<1>3. CASE PlainAppend(w)
  <2>1. pc[w] # "idle" /\ UNCHANGED calls
    BY <1>3 DEF PlainAppend
  <2>2. CASE Duplicate(readSeq[w])
    <3>1. Return(w, "duplicate") /\ "duplicate" \in Errors /\ UNCHANGED records
      BY <1>3, <2>2 DEF PlainAppend, Errors, sinkVars
    <3>2. QED
      BY <2>1, <3>1 DEF Loses
  <2>3. CASE ~Duplicate(readSeq[w])
    <3>1. Return(w, "none") /\ AppendLocked(MakeRecord(w, readSeq[w], readHead[w]))
      BY <1>3, <2>3 DEF PlainAppend
    <3>2. readSeq[w] \in Nat \ {0} /\ readHead[w] \in Hash
      <4>1. pc[w] = "append" /\ readSeq[w] - 1 \in began[w] .. Len(records) /\ began[w] \in Nat
            /\ readSeq[w] \in Nat /\ Len(records) \in Nat /\ readHead[w] \in Hash
        BY <1>3 DEF PlainAppend, IInv, SinkInv, LocalsInv, ReadsStayBehind, ReadsOf
      <4>2. QED
        BY <4>1
    <3>3. QED
      BY <2>1, <3>1, <3>2, AppendLands
  <2>4. QED
    BY <2>2, <2>3
<1>4. QED
  BY <1>1, <1>2, <1>3 DEF PlainStep

LEMMA CasStepAccounts ==
    ASSUME IInv, NEW w \in Writers, CasStep(w)
    PROVE  \/ \E record \in Record : Lands(w, record)
           \/ \E error \in Errors : Loses(w, error)
           \/ Quiet
<1>1. CASE ReadHead(w)
  <2>1. pc[w] # "idle" /\ GoTo(w, "sequence") /\ "sequence" \in Labels \ {"idle"}
        /\ UNCHANGED <<records, calls, persisted, reported>>
    BY <1>1 DEF ReadHead, Labels, sinkVars, resultVars
  <2>2. QED
    BY <2>1, MovingIsQuiet
<1>2. CASE ReadSequence(w)
  <2>1. pc[w] # "idle" /\ ComputeHash(w, "appendIf") /\ "appendIf" \in Labels \ {"idle"}
        /\ UNCHANGED <<records, calls>>
    BY <1>2 DEF ReadSequence, Labels, sinkVars
  <2>2. QED
    BY <2>1, ComputeHashAccounts
<1>3. CASE AppendIf(w)
  BY <1>3, AppendIfAccounts
<1>4. QED
  BY <1>1, <1>2, <1>3 DEF CasStep

\* The account of every writer is settled by each of these steps.
LEMMA AccountKept ==
    ASSUME IInv, IInv', NEW v \in Writers, AccountOf(v),
           \/ \E w \in Writers, payload \in Ops : Begin(w, payload)
           \/ \E w \in Writers, record \in Record : Lands(w, record)
           \/ \E w \in Writers, error \in Errors : Loses(w, error)
           \/ Quiet
    PROVE  AccountOf(v)'
<1>1. /\ persisted[v] \in Seq(Ops) /\ reported[v] \in Seq(Errors) /\ calls[v] \in Nat
      /\ persisted \in [Writers -> Seq(Ops)] /\ reported \in [Writers -> Seq(Errors)]
      /\ pc \in [Writers -> Labels] /\ calls \in [Writers -> Nat]
      /\ Len(persisted[v]) \in Nat /\ Len(reported[v]) \in Nat
      /\ records \in Seq(Record)
  BY LenProperties DEF IInv, SinkInv, ControlInv, LocalsInv
<1>2. ASSUME NEW w \in Writers, NEW payload \in Ops, Begin(w, payload) PROVE AccountOf(v)'
  <2>1. /\ pc[w] = "idle" /\ pc'[w] # "idle" /\ UNCHANGED <<records, persisted, reported>>
        /\ calls' = [calls EXCEPT ![w] = @ + 1]
        /\ \A u \in Writers \ {w} : pc'[u] = pc[u]
    BY <1>1, <1>2 DEF Begin, GoTo, sinkVars, resultVars
  <2>2. UNCHANGED OpsOf(v, records)
    BY <2>1
  <2>3. CASE v = w
    <3>1. calls'[v] = calls[v] + 1
      BY <1>1, <2>1, <2>3
    <3>2. Len(persisted[v]) + Len(reported[v]) = calls[v]
      BY <1>1, <2>1, <2>3 DEF AccountOf
    <3>3. QED
      BY <1>1, <2>1, <2>2, <2>3, <3>1, <3>2 DEF AccountOf
  <2>4. CASE v # w
    <3>1. calls'[v] = calls[v] /\ pc'[v] = pc[v]
      BY <1>1, <2>1, <2>4
    <3>2. QED
      BY <2>1, <2>2, <3>1 DEF AccountOf
  <2>5. QED
    BY <2>3, <2>4
<1>3. ASSUME NEW w \in Writers, NEW record \in Record, Lands(w, record) PROVE AccountOf(v)'
  <2>1. /\ pc[w] # "idle" /\ pc' = [pc EXCEPT ![w] = "idle"]
        /\ persisted' = [persisted EXCEPT ![w] = Append(@, op[w])]
        /\ UNCHANGED <<reported, calls>>
        /\ record.actor = w /\ record.op = op[w] /\ records' = Append(records, record)
    BY <1>3 DEF Lands, Return, GoTo
  <2>2. OpsOf(v, records)' = IF v = w THEN Append(OpsOf(v, records), op[w]) ELSE OpsOf(v, records)
    BY <1>1, <2>1, OpsOfLonger
  <2>3. CASE v = w
    <3>1. persisted'[v] = Append(persisted[v], op[w]) /\ pc'[v] = "idle"
      BY <1>1, <2>1, <2>3
    <3>2. persisted'[v] = OpsOf(v, records)'
      BY <2>2, <2>3, <3>1 DEF AccountOf
    <3>3. op[w] \in Ops
      BY <2>1 DEF IInv, ControlInv
    <3>4. Len(persisted'[v]) = Len(persisted[v]) + 1
      BY <1>1, <3>1, <3>3, AppendProperties
    <3>5. Len(persisted[v]) + Len(reported[v]) + 1 = calls[v]
      BY <2>1, <2>3 DEF AccountOf
    <3>6. reported'[v] = reported[v] /\ calls'[v] = calls[v]
      BY <2>1
    <3>7. (Len(persisted[v]) + 1) + Len(reported[v]) + 0 = calls[v]
      BY <1>1, <3>5
    <3>8. Len(persisted'[v]) + Len(reported'[v]) + 0 = calls'[v]
      BY <3>4, <3>6, <3>7
    <3>9. QED
      BY <3>1, <3>2, <3>8 DEF AccountOf
  <2>4. CASE v # w
    <3>1. persisted'[v] = persisted[v] /\ pc'[v] = pc[v]
      BY <1>1, <2>1, <2>4
    <3>2. QED
      BY <2>1, <2>2, <2>4, <3>1 DEF AccountOf
  <2>5. QED
    BY <2>3, <2>4
<1>4. ASSUME NEW w \in Writers, NEW error \in Errors, Loses(w, error) PROVE AccountOf(v)'
  <2>1. error # "none"
    BY DEF Errors
  <2>2. /\ pc[w] # "idle" /\ pc' = [pc EXCEPT ![w] = "idle"]
        /\ reported' = [reported EXCEPT ![w] = Append(@, error)]
        /\ UNCHANGED <<persisted, calls, records>>
    BY <1>4, <2>1 DEF Loses, Return, GoTo
  <2>3. UNCHANGED OpsOf(v, records)
    BY <2>2
  <2>4. CASE v = w
    <3>1. reported'[v] = Append(reported[v], error) /\ pc'[v] = "idle"
      BY <1>1, <2>2, <2>4
    <3>2. Len(reported'[v]) = Len(reported[v]) + 1
      BY <1>1, <3>1, AppendProperties
    <3>3. Len(persisted[v]) + Len(reported[v]) + 1 = calls[v]
      BY <2>2, <2>4 DEF AccountOf
    <3>4. persisted'[v] = persisted[v] /\ calls'[v] = calls[v]
      BY <2>2
    <3>5. Len(persisted[v]) + (Len(reported[v]) + 1) + 0 = calls[v]
      BY <1>1, <3>3
    <3>6. Len(persisted'[v]) + Len(reported'[v]) + 0 = calls'[v]
      BY <3>2, <3>4, <3>5
    <3>7. QED
      BY <2>2, <2>3, <3>1, <3>6 DEF AccountOf
  <2>5. CASE v # w
    <3>1. reported'[v] = reported[v] /\ pc'[v] = pc[v]
      BY <1>1, <2>2, <2>5
    <3>2. QED
      BY <2>2, <2>3, <3>1 DEF AccountOf
  <2>6. QED
    BY <2>4, <2>5
<1>5. CASE Quiet
  <2>1. UNCHANGED OpsOf(v, records)
    BY <1>5 DEF Quiet
  <2>2. QED
    BY <1>5, <2>1 DEF Quiet, AccountOf
<1>6. QED
  BY <1>2, <1>3, <1>4, <1>5

\* No op is lost in silence and none lands twice (AppendNext, AppendOp and
\* reportSinkError): what a writer was told was persisted is exactly, op by op
\* and in order, what the stream holds of it, and every other finished call was
\* reported to OnSinkError, for any writers, interleaving and truncation.
THEOREM CallsAreAccountedFor == Spec => []ExactlyOnceOrReported
<1>1. Init => ExactlyOnceOrReported
  <2> SUFFICES ASSUME Init, NEW w \in Writers PROVE AccountOf(w)
    BY DEF ExactlyOnceOrReported, AccountOf
  <2>1. records = <<>> /\ persisted[w] = <<>> /\ reported[w] = <<>> /\ pc[w] = "idle" /\ calls[w] = 0
    BY DEF Init
  <2>2. records \in Seq(Record) /\ Len(records) = 0
    BY <2>1
  <2>3. OpsOf(w, records) = <<>>
    <3>1. PICK upTo \in [0 .. Len(records) -> Seq(Ops)] : Collects(upTo, w, records)
      BY <2>2, OpsRun
    <3>2. QED
      BY <2>2, <3>1 DEF Collects
  <2>4. Len(persisted[w]) + Len(reported[w]) + 0 = calls[w]
    BY <2>1
  <2>5. QED
    BY <2>1, <2>3, <2>4 DEF AccountOf
<1>2. IInv /\ IInv' /\ ExactlyOnceOrReported /\ [Next]_vars => ExactlyOnceOrReported'
  <2> SUFFICES ASSUME IInv, IInv', ExactlyOnceOrReported, [Next]_vars, NEW v \in Writers
               PROVE  AccountOf(v)'
    BY DEF ExactlyOnceOrReported, AccountOf
  <2>1. AccountOf(v)
    BY DEF ExactlyOnceOrReported, AccountOf
  <2>2. \/ \E w \in Writers, payload \in Ops : Begin(w, payload)
        \/ \E w \in Writers : CasStep(w) \/ PlainStep(w)
        \/ Quiet
    <3>1. Truncate \/ UNCHANGED vars => Quiet
      BY DEF Truncate, vars, localVars, resultVars, Quiet
    <3>2. QED
      BY <3>1 DEF Next
  <2>3. \/ \E w \in Writers, payload \in Ops : Begin(w, payload)
        \/ \E w \in Writers, record \in Record : Lands(w, record)
        \/ \E w \in Writers, error \in Errors : Loses(w, error)
        \/ Quiet
    BY <2>2, CasStepAccounts, PlainStepAccounts
  <2>4. QED
    BY <2>1, <2>3, AccountKept
<1>3. QED
  BY <1>1, <1>2, Invariance, PTL DEF Spec
=============================================================================
