------------------------------ MODULE OpStream ------------------------------
(***************************************************************************)
(* The hash-chained op-stream: opstream.InMemorySink and the two ways of   *)
(* appending to it, AppendNext (compare-and-append with bounded retry) and *)
(* AppendOp (plain read-then-append), run by concurrent goroutines.        *)
(*                                                                         *)
(* One stream is modelled: the sink keys all its state by stream id and no *)
(* operation relates two streams.  A step is one critical section of the   *)
(* sink's mutex, so two sink calls of one goroutine may be separated by    *)
(* any steps of the others.                                                *)
(*                                                                         *)
(* Every writer uses the sink interface it was given: PlainWriters reach   *)
(* it through AppendOp (a host calling AppendOp itself, or AppendNext's    *)
(* fallback when the sink is no CasSink), the others through AppendNext.   *)
(***************************************************************************)
EXTENDS Integers, Sequences, FiniteSetsExt

CONSTANTS
    Writers,            \* goroutines persisting to the stream
    PlainWriters,       \* those that go through AppendOp
    Ops,                \* op payloads (canonical op + timestamp + prompt id)
    Unencodable,        \* those ComputeHash has no canonical encoding for
    NoOp,               \* a writer outside any call
    MaxAppendAttempts,  \* maxAppendAttempts (8 in the code)
    MaxCalls,           \* bound: calls each writer makes
    MaxTruncations      \* bound: records a third-party sink stops replaying

ASSUME StreamAssumption ==
    /\ PlainWriters \subseteq Writers
    /\ NoOp \notin Ops
    /\ Unencodable \subseteq Ops
    /\ MaxAppendAttempts \in Nat \ {0}
    /\ MaxCalls \in Nat
    /\ MaxTruncations \in Nat

VARIABLES
    records,    \* InMemorySink.records[stream], in append order
    head,       \* InMemorySink.heads[stream], GenesisPreviousHash when unset
    retained,   \* lowest sequence Replay still returns (1 on InMemorySink)
    pc,         \* [Writers -> the next sink call of the writer]
    op,         \* [Writers -> the op of the call in flight, or NoOp]
    attempt,    \* [Writers -> AppendNext's attempt]
    readHead,   \* [Writers -> its local head / previousHash]
    readSeq,    \* [Writers -> its local sequence]
    calls,      \* [Writers -> calls made so far]
    began,      \* history: [Writers -> Len(records) when the call began]
    persisted,  \* history: [Writers -> the ops whose call returned a record]
    reported    \* [Writers -> the errors its OnSinkError saw]

sinkVars == <<records, head, retained>>
localVars == <<op, attempt, readHead, readSeq, calls, began>>
resultVars == <<persisted, reported>>
vars == <<records, head, retained, pc, op, attempt, readHead, readSeq,
          calls, began, persisted, reported>>

-----------------------------------------------------------------------------
(* The chain.  SHA-256 is taken to be collision free: a hash is the list   *)
(* of everything folded into it, so Link is injective and never genesis.   *)

Genesis == <<>>

Link(previousHash, sequence, actor, payload) ==
    Append(previousHash, [index |-> sequence - 1, actor |-> actor, op |-> payload])

Hash == Seq([index: Nat, actor: Writers, op: Ops])

Record == [sequence: Nat \ {0}, previousHash: Hash, hash: Hash,
           actor: Writers, op: Ops]

MakeRecord(w, sequence, previousHash) ==
    [sequence |-> sequence,
     previousHash |-> previousHash,
     hash |-> Link(previousHash, sequence, w, op[w]),
     actor |-> w,
     op |-> op[w]]

VerifyChain(rs) ==
    \A i \in DOMAIN rs :
        /\ rs[i].sequence = i
        /\ rs[i].previousHash = IF i = 1 THEN Genesis ELSE rs[i - 1].hash
        /\ rs[i].hash = Link(rs[i].previousHash, rs[i].sequence,
                             rs[i].actor, rs[i].op)

-----------------------------------------------------------------------------
(* Sink queries, each one critical section.                                *)

Sequences == {records[i].sequence : i \in DOMAIN records}

LatestSequence == Max({0} \cup Sequences)

\* Replay(sequence, sequence): the records found there that are still held
ReplayAt(sequence) ==
    {i \in DOMAIN records : records[i].sequence = sequence /\ sequence >= retained}

\* previousHashFor: none of them is a gap
PreviousHashes(sequence) ==
    IF sequence = 1 THEN {Genesis}
    ELSE {records[i].hash : i \in ReplayAt(sequence - 1)}

\* appendLocked's answer to a record with this sequence
Duplicate(sequence) == sequence \in Sequences

-----------------------------------------------------------------------------
Init ==
    /\ records = <<>>
    /\ head = Genesis
    /\ retained = 1
    /\ pc = [w \in Writers |-> "idle"]
    /\ op = [w \in Writers |-> NoOp]
    /\ attempt = [w \in Writers |-> 0]
    /\ readHead = [w \in Writers |-> Genesis]
    /\ readSeq = [w \in Writers |-> 0]
    /\ calls = [w \in Writers |-> 0]
    /\ began = [w \in Writers |-> 0]
    /\ persisted = [w \in Writers |-> <<>>]
    /\ reported = [w \in Writers |-> <<>>]

GoTo(w, label) == pc' = [pc EXCEPT ![w] = label]

\* The call is entered: AppendNext asks whether the sink is a CasSink.
Begin(w, payload) ==
    /\ pc[w] = "idle"
    /\ calls[w] < MaxCalls
    /\ calls' = [calls EXCEPT ![w] = @ + 1]
    /\ op' = [op EXCEPT ![w] = payload]
    /\ attempt' = [attempt EXCEPT ![w] = 0]
    /\ began' = [began EXCEPT ![w] = Len(records)]
    /\ GoTo(w, IF w \in PlainWriters THEN "latestSequence" ELSE "head")
    /\ UNCHANGED <<sinkVars, readHead, readSeq, resultVars>>

\* Two ways of getting the return wrong: an error nobody hears of, and a call
\* that is over and still holds its op.
ReturnSilently(w, error) ==
    /\ persisted' = IF error = "none" THEN [persisted EXCEPT ![w] = Append(@, op[w])]
                                       ELSE persisted
    /\ UNCHANGED reported
    /\ op' = [op EXCEPT ![w] = NoOp]
    /\ GoTo(w, "idle")

ReturnHoldingOp(w, error) ==
    /\ IF error = "none"
         THEN /\ persisted' = [persisted EXCEPT ![w] = Append(@, op[w])]
              /\ UNCHANGED reported
         ELSE /\ reported' = [reported EXCEPT ![w] = Append(@, error)]
              /\ UNCHANGED persisted
    /\ UNCHANGED op
    /\ GoTo(w, "idle")

\* The call returns: the record on "landed", else an error that
\* reportSinkError has passed to OnSinkError.
Return(w, error) ==
    /\ IF error = "none"
         THEN /\ persisted' = [persisted EXCEPT ![w] = Append(@, op[w])]
              /\ UNCHANGED reported
         ELSE /\ reported' = [reported EXCEPT ![w] = Append(@, error)]
              /\ UNCHANGED persisted
    /\ op' = [op EXCEPT ![w] = NoOp]
    /\ GoTo(w, "idle")

\* An append that leaves the stream's head where it was.
AppendKeepingHead(record) ==
    /\ records' = Append(records, record)
    /\ UNCHANGED <<head, retained>>

\* ComputeHash: the record is ready for the next sink call, or its op has no
\* canonical encoding and the call is over.
ComputeHash(w, label) ==
    IF op[w] \in Unencodable
      THEN Return(w, "unencodable")
      ELSE GoTo(w, label) /\ UNCHANGED <<op, resultVars>>

\* appendLocked on a fresh sequence: the record is appended and becomes head.
AppendLocked(record) ==
    /\ records' = Append(records, record)
    /\ head' = record.hash
    /\ UNCHANGED retained

-----------------------------------------------------------------------------
(* AppendNext on a CasSink: Head, then LatestSequence, then AppendIf.      *)

ReadHead(w) ==
    /\ pc[w] = "head"
    /\ readHead' = [readHead EXCEPT ![w] = head]
    /\ GoTo(w, "sequence")
    /\ UNCHANGED <<sinkVars, op, attempt, readSeq, calls, began, resultVars>>

ReadSequence(w) ==
    /\ pc[w] = "sequence"
    /\ readSeq' = [readSeq EXCEPT ![w] = LatestSequence + 1]
    /\ ComputeHash(w, "appendIf")
    /\ UNCHANGED <<sinkVars, attempt, readHead, calls, began>>

\* The comparison forgotten, and the two checks in the other order.
AppendIfUncompared(w) == IF Duplicate(readSeq[w]) THEN "duplicate" ELSE "none"

AppendIfDuplicateFirst(w) ==
    IF Duplicate(readSeq[w]) THEN "duplicate"
    ELSE IF head # readHead[w] THEN "stale" ELSE "none"

\* AppendIf(record, head): the comparison and the append share the lock
AppendIfAnswer(w) ==
    IF head # readHead[w] THEN "stale"
    ELSE IF Duplicate(readSeq[w]) THEN "duplicate" ELSE "none"

AppendIf(w) ==
    /\ pc[w] = "appendIf"
    /\ attempt' = [attempt EXCEPT ![w] = @ + 1]
    /\ IF AppendIfAnswer(w) = "none"
         THEN AppendLocked(MakeRecord(w, readSeq[w], readHead[w]))
         ELSE UNCHANGED sinkVars
    /\ IF AppendIfAnswer(w) # "stale"
         THEN Return(w, AppendIfAnswer(w))
         ELSE IF attempt[w] + 1 < MaxAppendAttempts
           THEN GoTo(w, "head") /\ UNCHANGED <<op, resultVars>>
           ELSE Return(w, "exhausted")
    /\ UNCHANGED <<readHead, readSeq, calls, began>>

-----------------------------------------------------------------------------
(* AppendOp: LatestSequence, then previousHashFor, then a plain Append.    *)

ReadLatest(w) ==
    /\ pc[w] = "latestSequence"
    /\ readSeq' = [readSeq EXCEPT ![w] = LatestSequence + 1]
    /\ GoTo(w, "previousHash")
    /\ UNCHANGED <<sinkVars, op, attempt, readHead, calls, began, resultVars>>

PreviousHashFor(w) ==
    /\ pc[w] = "previousHash"
    /\ \/ /\ PreviousHashes(readSeq[w]) = {}
          /\ Return(w, "gap")
          /\ UNCHANGED readHead
       \/ /\ \E hash \in PreviousHashes(readSeq[w]) : readHead' = [readHead EXCEPT ![w] = hash]
          /\ ComputeHash(w, "append")
    /\ UNCHANGED <<sinkVars, attempt, readSeq, calls, began>>

PlainAppend(w) ==
    /\ pc[w] = "append"
    /\ IF Duplicate(readSeq[w])
         THEN Return(w, "duplicate") /\ UNCHANGED sinkVars
         ELSE /\ AppendLocked(MakeRecord(w, readSeq[w], readHead[w]))
              /\ Return(w, "none")
    /\ UNCHANGED <<attempt, readHead, readSeq, calls, began>>

-----------------------------------------------------------------------------
\* A third-party Sink that no longer replays its oldest record, while its
\* LatestSequence still counts it (the gap previousHashFor guards against).
Truncate ==
    /\ retained <= Len(records)
    /\ retained <= MaxTruncations
    /\ retained' = retained + 1
    /\ UNCHANGED <<records, head, pc, localVars, resultVars>>

CasStep(w) == ReadHead(w) \/ ReadSequence(w) \/ AppendIf(w)
PlainStep(w) == ReadLatest(w) \/ PreviousHashFor(w) \/ PlainAppend(w)

Next ==
    \/ \E w \in Writers : \/ \E payload \in Ops : Begin(w, payload)
                          \/ CasStep(w)
                          \/ PlainStep(w)
    \/ Truncate

\* A goroutine inside a call keeps being scheduled, and each sink call holds
\* the mutex for a bounded time only.
Fairness == \A w \in Writers : WF_vars(CasStep(w) \/ PlainStep(w))

Spec == Init /\ [][Next]_vars /\ Fairness

-----------------------------------------------------------------------------
(* Properties.                                                             *)

Labels == {"idle", "head", "sequence", "appendIf",
           "latestSequence", "previousHash", "append"}

Errors == {"unencodable", "exhausted", "duplicate", "gap"}

\* Every variable keeps its type; AppendNext's labels and AppendOp's labels
\* are never mixed in one writer, and an op is in flight exactly inside a call.
TypeOK ==
    /\ records \in Seq(Record)
    /\ head \in Hash
    /\ retained \in Nat \ {0}
    /\ pc \in [Writers -> Labels]
    /\ op \in [Writers -> Ops \cup {NoOp}]
    /\ attempt \in [Writers -> Nat]
    /\ readHead \in [Writers -> Hash]
    /\ readSeq \in [Writers -> Nat]
    /\ calls \in [Writers -> Nat]
    /\ began \in [Writers -> Nat]
    /\ persisted \in [Writers -> Seq(Ops)]
    /\ reported \in [Writers -> Seq(Errors)]
    /\ \A w \in Writers : op[w] = NoOp <=> pc[w] = "idle"

\* Whatever mixture of AppendNext and AppendOp writers races on the stream,
\* and whatever a third-party sink stops replaying, the stored records always
\* pass VerifyChain (opstream/chain.go): no writer can bake a broken link in.
ChainIntact == VerifyChain(records)

\* heads[stream], maintained incrementally, is always the hash of the record
\* with the highest sequence (the contract of CasSink.Head in sink.go).
HeadNamesLatest ==
    head = IF records = <<>> THEN Genesis ELSE records[Len(records)].hash

\* The hash of the first k records; of none, genesis.
HashAt(k) == IF k = 0 THEN Genesis ELSE records[k].hash

\* What writer w has read and not yet used.  A head read under one lock and a
\* sequence read under another, and how many records landed since the call
\* began, whatever the other writers did between.
ReadsOf(w) ==
    /\ pc[w] # "idle" => began[w] <= Len(records)
    /\ pc[w] \in {"head", "sequence", "appendIf"} => w \notin PlainWriters
    /\ pc[w] = "head" => began[w] + attempt[w] <= Len(records)
    /\ pc[w] \in {"sequence", "appendIf"} =>
         /\ began[w] + attempt[w] <= Len(readHead[w])
         /\ Len(readHead[w]) <= Len(records)
         /\ readHead[w] = HashAt(Len(readHead[w]))
    /\ pc[w] = "appendIf" => readSeq[w] - 1 \in Len(readHead[w]) .. Len(records)
    /\ pc[w] \in {"latestSequence", "previousHash", "append"} => w \in PlainWriters
    /\ pc[w] \in {"previousHash", "append"} => readSeq[w] - 1 \in began[w] .. Len(records)
    /\ pc[w] = "append" => readHead[w] = HashAt(readSeq[w] - 1)
    /\ pc[w] \in {"appendIf", "append"} => op[w] \notin Unencodable

\* A stale read is stale in one direction only: the head AppendNext read is
\* never ahead of the sequence it read, each failed attempt of it is paid for
\* by a record that landed during the call, and the predecessor AppendOp looked
\* up is the record its sequence follows (opstream/sink.go, opstream/replay.go).
ReadsStayBehind == \A w \in Writers : ReadsOf(w)

\* An AppendNext call never fails on the sink's duplicate-sequence rejection,
\* even with plain writers on the stream: reading the head before the sequence
\* makes AppendIf's comparison catch every race (AppendNext's doc comment).
CasNeverDuplicate ==
    \A w \in Writers \ PlainWriters : \A i \in DOMAIN reported[w] :
        reported[w][i] # "duplicate"

\* The ops of w's records among rs, in their order.
OpsOf(w, rs) ==
    LET upTo[k \in 0 .. Len(rs)] ==
            IF k = 0 THEN <<>>
            ELSE IF rs[k].actor = w THEN Append(upTo[k - 1], rs[k].op)
                                    ELSE upTo[k - 1]
    IN  upTo[Len(rs)]

\* No op is lost in silence and none lands twice: the ops a writer's calls
\* returned as persisted are exactly its records, in program order, and every
\* finished call was either persisted or reported to OnSinkError.
ExactlyOnceOrReported ==
    \A w \in Writers :
        /\ persisted[w] = OpsOf(w, records)
        /\ Len(persisted[w]) + Len(reported[w])
             + (IF pc[w] = "idle" THEN 0 ELSE 1) = calls[w]

\* The promise of the retry loop: each call appends its op in one atomic step,
\* once, and an op that can be encoded is given up by AppendNext only after
\* MaxAppendAttempts other records landed while it ran (by AppendOp: after one,
\* or on a gap of a truncating sink).
Log == INSTANCE OpLog WITH
    log <- [i \in DOMAIN records |-> [actor |-> records[i].actor, op |-> records[i].op]],
    pending <- op,
    since <- began,
    LossNeeds <- [w \in Writers |->
                     IF w \notin PlainWriters THEN MaxAppendAttempts
                     ELSE IF MaxTruncations = 0 THEN 1 ELSE 0]

ImplementsLog == Log!LogSpec

\* Its safety part: every step is a call, a landing, an excused loss or nothing.
ImplementsLogSteps == Log!LogInit /\ [][Log!LogNext]_(Log!logVars)

=============================================================================
