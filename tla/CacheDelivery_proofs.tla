------------------------ MODULE CacheDelivery_proofs ------------------------
(***************************************************************************)
(* Readiness evidence is sound for every object size, chunk size and number *)
(* of faults: an artifact the client calls Complete is published, and no    *)
(* manifest request exists before the partition is published.               *)
(***************************************************************************)
EXTENDS CacheDelivery, TLAPS

\* The wire carries at most the request of the artifact that waits for it.
WireOwner ==
    request.to # "None" =>
        /\ pending[request.to] = request.action
        /\ request.action.op # "None"
        /\ response.kind = "None"

\* An answer exists only while somebody waits for one.
ResponseOwner ==
    response.kind # "None" => \E a \in Artifacts : pending[a].op # "None"

\* Finished artifacts wait for nothing, and the manifest waits for something
\* only once the partition is finished: at most one exchange is open.
Turns ==
    /\ \A a \in Artifacts : state[a].tag = "Complete" => pending[a].op = "None"
    /\ pending["manifest"].op # "None" => state["partition"].tag = "Complete"

\* The two answers that complete an artifact are given by a device that has
\* published it.
AnswerSound ==
    \A a \in Artifacts :
        /\ pending[a].op = "Inspect" /\ response.kind = "Publication"
             => a \in published
        /\ pending[a].op = "Finalize" /\ response.kind = "EmptyOk"
             => a \in published

\* Every chunk on the wire, live or late, is a chunk of its artifact.
InRange(q) ==
    q.action.op = "Chunk" => q.action.index < ChunkCount(q.to)

ChunksInRange ==
    /\ request.to # "None" => InRange(request)
    /\ \A q \in late : InRange(q) /\ q.action.op # "None"

DeliveryInv ==
    /\ TypeOK
    /\ WireOwner
    /\ ResponseOwner
    /\ Turns
    /\ AnswerSound
    /\ ChunksInRange
    /\ CompleteIsPublished
    /\ ManifestAfterPartition

-----------------------------------------------------------------------------
(* What the operators return.                                              *)

\* A validated plan has at least one chunk, and a chunk count in Nat.
LEMMA ChunkCountType ==
    ASSUME NEW a \in Artifacts
    PROVE  ChunkCount(a) \in Nat
  BY PlanAssumption, SMT DEF ChunkCount

\* The prefix a plan expects is a number of bytes.
LEMMA PrefixType ==
    ASSUME NEW a \in Artifacts, NEW n \in Nat
    PROVE  ExpectedPrefixBytes(a, n) \in Nat
  BY PlanAssumption, ChunkCountType DEF ExpectedPrefixBytes

\* A source chunk inside the object has a length.
LEMMA SourceChunkType ==
    ASSUME NEW a \in Artifacts, NEW i \in Nat, i < ChunkCount(a)
    PROVE  SourceChunkBytes(a, i) \in Nat
  <1> DEFINE q == ChunkCount(a)
  <1>1. ByteLen[a] \in Nat \ {0} /\ ChunkBytes \in Nat \ {0}
    BY PlanAssumption
  <1>2. q \in Nat /\ q * ChunkBytes < ByteLen[a] + ChunkBytes
    BY <1>1, ChunkCountType DEF ChunkCount
  <1>3. (i + 1) * ChunkBytes <= q * ChunkBytes
    BY <1>1, <1>2
  <1>4. i * ChunkBytes + ChunkBytes = (i + 1) * ChunkBytes
    BY <1>1
  <1>5. i * ChunkBytes < ByteLen[a] /\ i * ChunkBytes \in Nat
    BY <1>1, <1>2, <1>3, <1>4
  <1>6. QED
    BY <1>1, <1>5 DEF SourceChunkBytes

\* Whatever the device answers, the client ends in one of its states.
LEMMA AcceptedType ==
    ASSUME NEW a \in Artifacts, NEW action \in Actions, action.op # "None",
           NEW r \in Responses
    PROVE  Accepted(a, action, r) \in UploadStates
  <1>1. r.txn \in Txns
    BY DEF Responses
  <1>2. r.txn.next \in Nat /\ r.txn.bytes \in Nat
    BY <1>1 DEF Txns
  <1>3. StateFromProgress(a, r.txn) \in UploadStates
    BY <1>2 DEF StateFromProgress, UploadStates, At, Chunk
  <1>4. QED
    BY <1>3 DEF Accepted, Actions, AcceptInspection, AcceptProgress, AcceptFinalize,
                UploadStates, At

\* The client completes an artifact only on one of two answers.
LEMMA AcceptedComplete ==
    ASSUME NEW a \in Artifacts, NEW action \in Actions, action.op # "None",
           NEW r \in Responses, Accepted(a, action, r).tag = "Complete"
    PROVE  \/ action.op = "Inspect" /\ r.kind = "Publication"
           \/ action.op = "Finalize" /\ r.kind = "EmptyOk"
  <1>1. StateFromProgress(a, r.txn).tag # "Complete"
    BY DEF StateFromProgress, At, Chunk
  <1>2. QED
    BY <1>1 DEF Accepted, Actions, AcceptInspection, AcceptProgress, AcceptFinalize, At

\* What the device does with any request: it answers, it never withdraws a
\* publication, and it gives a completing answer only for what is published.
LEMMA ExecuteSound ==
    ASSUME TypeOK, NEW a \in Artifacts, NEW action \in Actions, action.op # "None",
           action.op = "Chunk" => action.index < ChunkCount(a),
           NEW o \in Execute(a, action)
    PROVE  /\ o.txn \in Txns
           /\ o.published \in SUBSET Artifacts
           /\ published \subseteq o.published
           /\ o.response \in Responses
           /\ o.response.kind # "None"
           /\ action.op = "Inspect" /\ o.response.kind = "Publication"
                => a \in o.published
           /\ action.op = "Finalize" /\ o.response.kind = "EmptyOk"
                => a \in o.published
  <1> DEFINE t == txn[a]
  <1>1. /\ t \in Txns
        /\ t.next \in Nat /\ t.bytes \in Nat
        /\ t.phase \in {"Absent", "Receiving", "PublishPending"}
    BY DEF TypeOK, Txns
  <1>2. published \in SUBSET Artifacts
    BY DEF TypeOK
  <1>3. NoTxn \in Txns
    BY DEF NoTxn, Txns
  <1>4. CASE action.op = "Inspect"
    BY <1>1, <1>2, <1>3, <1>4
       DEF Execute, Unchanged, Outcome, Answer, Responses
  <1>5. CASE action.op = "Begin"
    <2> DEFINE begun == IF t.phase # "Absent" THEN t
                        ELSE [phase |-> "Receiving", next |-> 0, bytes |-> 0]
    <2>1. begun \in Txns
      BY <1>1 DEF Txns
    <2>2. o = Outcome(begun, published, Progress(begun))
      BY <1>5 DEF Execute
    <2> HIDE DEF begun
    <2>3. QED
      BY <1>2, <1>5, <2>1, <2>2 DEF Outcome, Progress, Responses
  <1>6. CASE action.op = "Chunk"
    <2>1. CASE t.phase = "Receiving" /\ action.index = t.next
      <3> DEFINE grown == [phase |-> "Receiving", next |-> t.next + 1,
                           bytes |-> t.bytes + SourceChunkBytes(a, t.next)]
      <3>1. SourceChunkBytes(a, t.next) \in Nat
        BY <1>1, <1>6, <2>1, SourceChunkType
      <3>2. grown \in Txns
        BY <1>1, <3>1 DEF Txns
      <3>3. o = Outcome(grown, published, Progress(grown))
        BY <1>6, <2>1 DEF Execute
      <3> HIDE DEF grown
      <3>4. QED
        BY <1>2, <1>6, <3>2, <3>3 DEF Outcome, Progress, Responses
    <2>2. CASE ~(t.phase = "Receiving" /\ action.index = t.next)
      <3>1. o = Unchanged(a, Answer("Refused")) \/ o = Unchanged(a, Progress(t))
        BY <1>6, <2>2 DEF Execute
      <3>2. QED
        BY <1>1, <1>2, <1>3, <1>6, <3>1
           DEF Unchanged, Outcome, Answer, Progress, Responses
    <2>3. QED
      BY <2>1, <2>2
  <1>7. CASE action.op = "Finalize"
    <2> DEFINE stuck == [t EXCEPT !.phase = "PublishPending"]
    <2>1. stuck \in Txns
      BY <1>1 DEF Txns
    <2>2. \/ o = Outcome(NoTxn, published \cup {a}, Answer("EmptyOk"))
          \/ o = Outcome(stuck, published, Answer("Refused"))
          \/ o = Unchanged(a, Answer("Refused"))
      BY <1>7 DEF Execute
    <2> HIDE DEF stuck
    <2>3. QED
      BY <1>1, <1>2, <1>3, <1>7, <2>1, <2>2 DEF Outcome, Unchanged, Answer, Responses
  <1>8. QED
    BY <1>4, <1>5, <1>6, <1>7 DEF Actions

-----------------------------------------------------------------------------
(* The invariant is inductive.                                             *)

\* An earlier session's transactions and publications satisfy it.
LEMMA DeliveryInit == Init => DeliveryInv
  <1> SUFFICES ASSUME Init PROVE DeliveryInv
    OBVIOUS
  <1>1. \A a \in Artifacts : InitTxns(a) \subseteq Txns
    BY PrefixType, ChunkCountType DEF InitTxns, Txns, NoTxn
  <1>2. txn \in [Artifacts -> Txns]
    BY <1>1 DEF Init, Artifacts
  <1>3. TypeOK
    BY <1>2 DEF Init, TypeOK, UploadStates, At, Actions, NoAction, NoRequest,
                Responses, Answer, NoTxn, Txns
  <1>4. QED
    BY <1>3 DEF Init, DeliveryInv, WireOwner, ResponseOwner, Turns, AnswerSound,
                ChunksInRange, CompleteIsPublished, ManifestAfterPartition, At, NoAction,
                NoRequest, Answer, Artifacts

\* Emitting a request: only the artifact whose turn it is, and only while no
\* answer is outstanding.
LEMMA DeliveryRequest ==
    ASSUME DeliveryInv, NEW a \in Artifacts, NextRequest(a)
    PROVE  DeliveryInv'
  <1> USE DEF NextRequest, deviceVars
  <1>1. /\ state[a] \in UploadStates
        /\ NextAction(a) \in Actions
        /\ NextAction(a).op # "None"
    BY DEF DeliveryInv, TypeOK, UploadStates, Actions, NextAction, Serving
  <1>2. \A b \in Artifacts : pending[b].op = "None"
    BY DEF DeliveryInv, Turns, Serving, Artifacts
  <1>3. response.kind = "None"
    BY <1>2 DEF DeliveryInv, ResponseOwner
  <1>4. TypeOK'
    BY <1>1 DEF DeliveryInv, TypeOK, Requests
  <1>5. WireOwner' /\ ResponseOwner' /\ AnswerSound'
    BY <1>1, <1>3, <1>4
       DEF DeliveryInv, TypeOK, WireOwner, ResponseOwner, AnswerSound
  <1>6. Turns'
    BY <1>1, <1>4 DEF DeliveryInv, TypeOK, Turns, Serving, Artifacts
  <1>7. ChunksInRange'
    BY <1>1 DEF DeliveryInv, ChunksInRange, InRange, NextAction, ValidChunk
  <1>8. CompleteIsPublished' /\ ManifestAfterPartition'
    BY DEF DeliveryInv, CompleteIsPublished, ManifestAfterPartition, Serving, Artifacts
  <1>9. QED
    BY <1>4, <1>5, <1>6, <1>7, <1>8 DEF DeliveryInv

\* Accepting an answer: the two that complete an artifact are sound.
LEMMA DeliveryAccept ==
    ASSUME DeliveryInv, NEW a \in Artifacts, AcceptResponse(a)
    PROVE  DeliveryInv'
  <1> USE DEF AcceptResponse, deviceVars
  <1> DEFINE s == Accepted(a, pending[a], response)
  <1>1. pending[a] \in Actions /\ pending[a].op # "None" /\ response \in Responses
    BY DEF DeliveryInv, TypeOK
  <1>2. s \in UploadStates
    BY <1>1, AcceptedType
  <1>3. s.tag = "Complete" => a \in published
    BY <1>1, AcceptedComplete DEF DeliveryInv, AnswerSound
  <1> HIDE DEF s
  <1>4. NoAction \in Actions /\ NoAction.op = "None"
    BY DEF NoAction, Actions
  <1>5. Answer("None") \in Responses /\ Answer("None").kind = "None"
    BY DEF Answer, Responses, NoTxn, Txns
  <1>6. state' = [state EXCEPT ![a] = s] /\ response' = Answer("None")
    BY DEF s
  <1>7. TypeOK'
    BY <1>2, <1>4, <1>5, <1>6 DEF DeliveryInv, TypeOK
  <1>8. request.to = "None"
    BY DEF DeliveryInv, WireOwner
  <1>9. WireOwner' /\ ResponseOwner' /\ AnswerSound' /\ ChunksInRange'
    BY <1>5, <1>6, <1>8
       DEF DeliveryInv, WireOwner, ResponseOwner, AnswerSound, ChunksInRange, InRange
  <1>10. \A b \in Artifacts : pending'[b].op = "None"
    BY <1>4 DEF DeliveryInv, TypeOK
  <1>11. Turns'
    BY <1>10 DEF Turns, Artifacts
  <1>12. CompleteIsPublished'
    BY <1>3, <1>6 DEF DeliveryInv, TypeOK, CompleteIsPublished
  <1>13. ManifestAfterPartition'
    BY DEF DeliveryInv, ManifestAfterPartition
  <1>14. QED
    BY <1>7, <1>9, <1>11, <1>12, <1>13 DEF DeliveryInv

\* Abandoning: both machines are idle afterwards and the request is late.
LEMMA DeliveryAbandon ==
    ASSUME DeliveryInv, AbandonPending
    PROVE  DeliveryInv'
  <1> USE DEF AbandonPending, deviceVars
  <1>1. At("Inspect") \in UploadStates /\ At("Inspect").tag = "Inspect"
    BY DEF At, UploadStates
  <1>2. NoAction \in Actions /\ NoAction.op = "None"
    BY DEF NoAction, Actions
  <1>3. Answer("None") \in Responses /\ Answer("None").kind = "None"
    BY DEF Answer, Responses, NoTxn, Txns
  <1>4. NoRequest.to = "None"
    BY DEF NoRequest
  <1>5. faults' \in Nat
    BY DEF DeliveryInv, TypeOK
  <1>6. late' \in SUBSET Requests
    BY DEF DeliveryInv, TypeOK, NoRequest
  <1>7. state' \in [Artifacts -> UploadStates]
    BY <1>1 DEF DeliveryInv, TypeOK, AfterAbandon
  <1>8. TypeOK'
    BY <1>2, <1>3, <1>5, <1>6, <1>7 DEF DeliveryInv, TypeOK
  <1>9. WireOwner' /\ ResponseOwner' /\ AnswerSound'
    BY <1>3, <1>4 DEF WireOwner, ResponseOwner, AnswerSound
  <1>10. Turns'
    BY <1>2 DEF Turns, Artifacts
  <1>11. ChunksInRange'
    BY <1>4 DEF DeliveryInv, ChunksInRange, InRange, WireOwner
  <1>12. CompleteIsPublished'
    BY <1>1 DEF DeliveryInv, CompleteIsPublished, AfterAbandon
  <1>13. ManifestAfterPartition'
    BY <1>4 DEF DeliveryInv, ManifestAfterPartition
  <1>14. QED
    BY <1>8, <1>9, <1>10, <1>11, <1>12, <1>13 DEF DeliveryInv

\* The device answers the live request.
LEMMA DeliveryExecute ==
    ASSUME DeliveryInv, DeviceExecute
    PROVE  DeliveryInv'
  <1> USE DEF DeviceExecute, clientVars
  <1>1. PICK o \in Execute(request.to, request.action) :
           /\ Apply(request.to, o)
           /\ response' = o.response
           /\ Budget(request.action, o)
    OBVIOUS
  <1>2. request \in Requests
    BY DEF DeliveryInv, TypeOK, NoRequest
  <1>3. /\ request.to \in Artifacts
        /\ request.action \in Actions
        /\ request.action.op # "None"
        /\ pending[request.to] = request.action
        /\ request.action.op = "Chunk" => request.action.index < ChunkCount(request.to)
    BY <1>2 DEF DeliveryInv, WireOwner, ChunksInRange, InRange, Requests
  <1>4. /\ o.txn \in Txns
        /\ o.published \in SUBSET Artifacts
        /\ published \subseteq o.published
        /\ o.response \in Responses
        /\ o.response.kind # "None"
        /\ request.action.op = "Inspect" /\ o.response.kind = "Publication"
             => request.to \in o.published
        /\ request.action.op = "Finalize" /\ o.response.kind = "EmptyOk"
             => request.to \in o.published
    BY <1>3, ExecuteSound DEF DeliveryInv
  <1>5. NoRequest.to = "None"
    BY DEF NoRequest
  <1>6. faults' \in Nat
    BY <1>1 DEF DeliveryInv, TypeOK, Budget
  <1>7. TypeOK'
    BY <1>1, <1>3, <1>4, <1>6 DEF DeliveryInv, TypeOK, Apply
  <1>8. WireOwner' /\ ChunksInRange'
    BY <1>5 DEF DeliveryInv, WireOwner, ChunksInRange, InRange
  <1>9. ResponseOwner'
    BY <1>3 DEF ResponseOwner
  <1>10. Turns'
    BY DEF DeliveryInv, Turns
  <1>11. \A b \in Artifacts : pending[b].op # "None" => b = request.to
    BY <1>3 DEF DeliveryInv, Turns, Artifacts
  <1>12. AnswerSound'
    BY <1>1, <1>3, <1>4, <1>11 DEF AnswerSound, Apply
  <1>13. CompleteIsPublished'
    BY <1>1, <1>4 DEF DeliveryInv, CompleteIsPublished, Apply
  <1>14. ManifestAfterPartition'
    BY <1>1, <1>4, <1>5 DEF DeliveryInv, ManifestAfterPartition, Apply
  <1>15. QED
    BY <1>7, <1>8, <1>9, <1>10, <1>12, <1>13, <1>14 DEF DeliveryInv

\* The device refuses the live request.
LEMMA DeliveryRefuse ==
    ASSUME DeliveryInv, DeviceRefuse
    PROVE  DeliveryInv'
  <1> USE DEF DeviceRefuse, clientVars, deviceVars
  <1>1. /\ Answer("Refused") \in Responses
        /\ Answer("Refused").kind = "Refused"
        /\ NoRequest.to = "None"
    BY DEF Answer, Responses, NoTxn, Txns, NoRequest
  <1>2. TypeOK'
    BY <1>1 DEF DeliveryInv, TypeOK
  <1>3. request \in Requests
    BY DEF DeliveryInv, TypeOK, NoRequest
  <1>4. ResponseOwner'
    BY <1>3 DEF DeliveryInv, WireOwner, ResponseOwner, Requests
  <1>5. WireOwner' /\ Turns' /\ AnswerSound' /\ ChunksInRange'
    BY <1>1 DEF DeliveryInv, WireOwner, Turns, AnswerSound, ChunksInRange, InRange
  <1>6. CompleteIsPublished' /\ ManifestAfterPartition'
    BY <1>1 DEF DeliveryInv, CompleteIsPublished, ManifestAfterPartition
  <1>7. QED
    BY <1>2, <1>4, <1>5, <1>6 DEF DeliveryInv

\* The device executes a request the client gave up on.
LEMMA DeliveryLate ==
    ASSUME DeliveryInv, DeviceExecuteLate
    PROVE  DeliveryInv'
  <1> USE DEF DeviceExecuteLate, clientVars
  <1>1. PICK q \in late : /\ \E o \in Execute(q.to, q.action) :
                               Apply(q.to, o) /\ Budget(q.action, o)
                          /\ late' = late \ {q}
                          /\ UNCHANGED <<state, pending, request, response>>
    OBVIOUS
  <1>2. PICK o \in Execute(q.to, q.action) : Apply(q.to, o) /\ Budget(q.action, o)
    BY <1>1
  <1>3. /\ q.to \in Artifacts
        /\ q.action \in Actions
        /\ q.action.op # "None"
        /\ q.action.op = "Chunk" => q.action.index < ChunkCount(q.to)
    BY <1>1 DEF DeliveryInv, TypeOK, ChunksInRange, InRange, Requests
  <1>4. /\ o.txn \in Txns
        /\ o.published \in SUBSET Artifacts
        /\ published \subseteq o.published
    BY <1>3, ExecuteSound DEF DeliveryInv
  <1>5. faults' \in Nat
    BY <1>2 DEF DeliveryInv, TypeOK, Budget
  <1>6. TypeOK'
    BY <1>1, <1>2, <1>3, <1>4, <1>5 DEF DeliveryInv, TypeOK, Apply
  <1>7. WireOwner' /\ ResponseOwner' /\ Turns' /\ ChunksInRange'
    BY <1>1 DEF DeliveryInv, WireOwner, ResponseOwner, Turns, ChunksInRange, InRange
  <1>8. AnswerSound' /\ CompleteIsPublished' /\ ManifestAfterPartition'
    BY <1>1, <1>2, <1>4
       DEF DeliveryInv, AnswerSound, CompleteIsPublished, ManifestAfterPartition, Apply
  <1>9. QED
    BY <1>6, <1>7, <1>8 DEF DeliveryInv

\* The inductive invariant of cache delivery holds in every reachable state.
THEOREM DeliveryInvariant == Spec => []DeliveryInv
  <1>1. Init => DeliveryInv
    BY DeliveryInit
  <1>2. DeliveryInv /\ [Next]_vars => DeliveryInv'
    <2> SUFFICES ASSUME DeliveryInv, [Next]_vars PROVE DeliveryInv'
      OBVIOUS
    <2>1. CASE \E a \in Artifacts : NextRequest(a) \/ AcceptResponse(a)
      BY <2>1, DeliveryRequest, DeliveryAccept
    <2>2. CASE AbandonPending
      BY <2>2, DeliveryAbandon
    <2>3. CASE DeviceExecute
      BY <2>3, DeliveryExecute
    <2>4. CASE DeviceRefuse
      BY <2>4, DeliveryRefuse
    <2>5. CASE DeviceExecuteLate
      BY <2>5, DeliveryLate
    <2>6. CASE UNCHANGED vars
      BY <2>6 DEF vars, clientVars, netVars, deviceVars, DeliveryInv, TypeOK, WireOwner,
                  ResponseOwner, Turns, AnswerSound, ChunksInRange, InRange,
                  CompleteIsPublished, ManifestAfterPartition
    <2>7. QED
      BY <2>1, <2>2, <2>3, <2>4, <2>5, <2>6 DEF Next
  <1>3. QED
    BY <1>1, <1>2, PTL DEF Spec

\* Every variable keeps its type, for every plan and any number of faults.
THEOREM DeliveryTypeOK == Spec => []TypeOK
  <1>1. DeliveryInv => TypeOK
    BY DEF DeliveryInv
  <1>2. QED
    BY <1>1, DeliveryInvariant, PTL

\* What the client calls complete the device has published, for every plan and
\* any number of losses, refusals and late executions.
THEOREM CompleteIsAlwaysPublished == Spec => []CompleteIsPublished
  <1>1. DeliveryInv => CompleteIsPublished
    BY DEF DeliveryInv
  <1>2. QED
    BY <1>1, DeliveryInvariant, PTL

\* The manifest is not even asked about before the partition is published.
THEOREM ManifestAlwaysAfterPartition == Spec => []ManifestAfterPartition
  <1>1. DeliveryInv => ManifestAfterPartition
    BY DEF DeliveryInv
  <1>2. QED
    BY <1>1, DeliveryInvariant, PTL

-----------------------------------------------------------------------------
(* What the client takes for uploaded is durable.                          *)

\* A device's transaction, and a progress report of it, is a whole number of
\* chunks with the bytes the plan expects of them.
Whole(a, t) ==
    t.phase # "Absent" =>
        /\ t.next <= ChunkCount(a)
        /\ t.bytes = ExpectedPrefixBytes(a, t.next)
        /\ t.phase = "PublishPending" => t.next = ChunkCount(a)

\* The first n chunks are on the device, or nobody needs them any more.
Durable(a, n) ==
    \/ a \in published
    \/ txn[a].phase # "Absent" /\ txn[a].next >= n

PrefixInv ==
    \A a \in Artifacts :
        /\ Whole(a, txn[a])
        /\ state[a].tag = "Chunk" =>
             /\ state[a].next < ChunkCount(a)
             /\ state[a].accepted = ExpectedPrefixBytes(a, state[a].next)
             /\ Durable(a, state[a].next)
        /\ state[a].tag = "Finalize" => Durable(a, ChunkCount(a))
        /\ pending[a].op \in {"Begin", "Chunk"} /\ response.kind = "Progress" =>
             /\ response.txn.phase # "Absent"
             /\ Whole(a, response.txn)
             /\ Durable(a, response.txn.next)

\* A chunk that is not the last fits before the object's end, and the last one
\* starts before it.
LEMMA ChunkCover ==
    ASSUME NEW a \in Artifacts
    PROVE  /\ ChunkCount(a) > 0
           /\ \A i \in Nat : i < ChunkCount(a) => i * ChunkBytes < ByteLen[a]
           /\ \A i \in Nat : i + 1 = ChunkCount(a) => ByteLen[a] <= i * ChunkBytes + ChunkBytes
           /\ \A i \in Nat : i + 1 < ChunkCount(a) => i * ChunkBytes + ChunkBytes < ByteLen[a]
  <1> DEFINE q == ChunkCount(a)
             b == ByteLen[a]
             c == ChunkBytes
  <1>1. b \in Nat \ {0} /\ c \in Nat \ {0} /\ q \in Nat
    BY PlanAssumption, ChunkCountType
  <1>2. q * c < b + c /\ b <= q * c
    BY <1>1 DEF ChunkCount
  <1> HIDE DEF q, b, c
  <1>3. ASSUME NEW i \in Nat, i < q PROVE i * c < b
    <2>1. (i + 1) * c <= q * c
      BY <1>1, <1>3
    <2>2. i * c + c = (i + 1) * c
      BY <1>1
    <2>3. i * c \in Nat /\ q * c \in Nat
      BY <1>1
    <2> QED
      BY <1>1, <1>2, <2>1, <2>2, <2>3
  <1>4. q > 0
    BY <1>1, <1>2
  <1>5. ASSUME NEW i \in Nat PROVE i * c + c = (i + 1) * c /\ i * c \in Nat
    BY <1>1
  <1>6. ASSUME NEW i \in Nat, i + 1 = q PROVE b <= i * c + c
    BY <1>1, <1>2, <1>5, <1>6
  <1>7. ASSUME NEW i \in Nat, i + 1 < q PROVE i * c + c < b
    BY <1>1, <1>3, <1>5, <1>7
  <1> QED
    BY <1>3, <1>4, <1>6, <1>7 DEF q, b, c

\* The device's sum of chunk lengths is the client's prefix arithmetic.
LEMMA PrefixGrows ==
    ASSUME NEW a \in Artifacts, NEW n \in Nat, n < ChunkCount(a)
    PROVE  ExpectedPrefixBytes(a, n) + SourceChunkBytes(a, n) = ExpectedPrefixBytes(a, n + 1)
  <1>1. ByteLen[a] \in Nat /\ ChunkBytes \in Nat /\ ChunkCount(a) \in Nat
    BY PlanAssumption, ChunkCountType
  <1>2. n * ChunkBytes \in Nat /\ n * ChunkBytes = ChunkBytes * n
        /\ ChunkBytes * (n + 1) = n * ChunkBytes + ChunkBytes
    BY <1>1
  <1>3. ExpectedPrefixBytes(a, n) = n * ChunkBytes
    BY <1>1, <1>2 DEF ExpectedPrefixBytes
  <1>4. CASE n + 1 = ChunkCount(a)
    <2>1. ByteLen[a] <= n * ChunkBytes + ChunkBytes
      BY <1>4, ChunkCover
    <2>2. SourceChunkBytes(a, n) = ByteLen[a] - n * ChunkBytes
      BY <1>1, <1>2, <2>1 DEF SourceChunkBytes
    <2> QED
      BY <1>1, <1>2, <1>3, <1>4, <2>2 DEF ExpectedPrefixBytes
  <1>5. CASE n + 1 < ChunkCount(a)
    <2>1. n * ChunkBytes + ChunkBytes < ByteLen[a]
      BY <1>5, ChunkCover
    <2>2. SourceChunkBytes(a, n) = ChunkBytes
      BY <1>1, <1>2, <2>1 DEF SourceChunkBytes
    <2> QED
      BY <1>1, <1>2, <1>3, <1>5, <2>2 DEF ExpectedPrefixBytes
  <1> QED
    BY <1>1, <1>4, <1>5

\* A longer prefix has at least as many bytes.
LEMMA PrefixMonotone ==
    ASSUME NEW a \in Artifacts, NEW m \in Nat, NEW n \in Nat, m <= n, n <= ChunkCount(a)
    PROVE  ExpectedPrefixBytes(a, m) <= ExpectedPrefixBytes(a, n)
  <1>1. ByteLen[a] \in Nat /\ ChunkBytes \in Nat /\ ChunkCount(a) \in Nat
    BY PlanAssumption, ChunkCountType
  <1>2. ChunkBytes * m <= ChunkBytes * n /\ m * ChunkBytes = ChunkBytes * m
    BY <1>1
  <1>3. m < ChunkCount(a) => ChunkBytes * m < ByteLen[a]
    BY <1>2, ChunkCover
  <1> QED
    BY <1>1, <1>2, <1>3 DEF ExpectedPrefixBytes

\* A request, in time or late, only adds chunks, and answers with what there is.
LEMMA ExecutePrefix ==
    ASSUME TypeOK, NEW a \in Artifacts, NEW action \in Actions, action.op # "None",
           action.op = "Chunk" => action.index < ChunkCount(a),
           Whole(a, txn[a]),
           NEW o \in Execute(a, action)
    PROVE  /\ Whole(a, o.txn)
           /\ \/ a \in o.published
              \/ txn[a].phase # "Absent" => o.txn.phase # "Absent" /\ o.txn.next >= txn[a].next
           /\ o.response.kind = "Progress" =>
                o.response.txn = o.txn /\ o.txn.phase # "Absent"
  <1> DEFINE t == txn[a]
  <1>1. t \in Txns /\ t.next \in Nat /\ t.bytes \in Nat /\ ChunkCount(a) \in Nat
    BY ChunkCountType DEF TypeOK, Txns
  <1>2. \A r : Unchanged(a, r).txn = t /\ Unchanged(a, r).response = r
    BY DEF Unchanged, Outcome
  <1>3. CASE action.op = "Inspect"
    BY <1>1, <1>2, <1>3 DEF Execute, Answer
  <1>4. CASE action.op = "Begin"
    <2> DEFINE begun == IF t.phase # "Absent" THEN t
                        ELSE [phase |-> "Receiving", next |-> 0, bytes |-> 0]
    <2>1. ExpectedPrefixBytes(a, 0) = 0 /\ 0 < ChunkCount(a)
      BY PlanAssumption, ChunkCover, <1>1 DEF ExpectedPrefixBytes
    <2>2. Whole(a, begun) /\ begun.phase # "Absent" /\ (t.phase # "Absent" => begun.next >= t.next)
      BY <1>1, <2>1 DEF Whole
    <2>3. o = Outcome(begun, published, Progress(begun))
      BY <1>4 DEF Execute
    <2> HIDE DEF begun
    <2> QED
      BY <2>2, <2>3 DEF Outcome, Progress
  <1>5. CASE action.op = "Chunk"
    <2>1. CASE t.phase = "Receiving" /\ action.index = t.next
      <3> DEFINE grown == [phase |-> "Receiving", next |-> t.next + 1,
                           bytes |-> t.bytes + SourceChunkBytes(a, t.next)]
      <3>1. t.bytes + SourceChunkBytes(a, t.next) = ExpectedPrefixBytes(a, t.next + 1)
        BY <1>1, <1>5, <2>1, PrefixGrows DEF Whole
      <3>2. Whole(a, grown) /\ grown.phase # "Absent" /\ grown.next >= t.next
        BY <1>1, <1>5, <2>1, <3>1 DEF Whole
      <3>3. o = Outcome(grown, published, Progress(grown))
        BY <1>5, <2>1 DEF Execute
      <3> HIDE DEF grown
      <3> QED
        BY <3>2, <3>3 DEF Outcome, Progress
    <2>2. CASE ~(t.phase = "Receiving" /\ action.index = t.next)
      <3>1. \/ o = Unchanged(a, Answer("Refused"))
            \/ o = Unchanged(a, Progress(t)) /\ t.phase # "Absent"
        BY <1>5, <2>2 DEF Execute
      <3> QED
        BY <1>1, <1>2, <3>1 DEF Answer, Progress
    <2> QED
      BY <2>1, <2>2
  <1>6. CASE action.op = "Finalize"
    <2> DEFINE stuck == [t EXCEPT !.phase = "PublishPending"]
    <2>1. \/ o = Outcome(NoTxn, published \cup {a}, Answer("EmptyOk"))
          \/ /\ o = Outcome(stuck, published, Answer("Refused"))
             /\ t.phase # "Absent" /\ t.next = ChunkCount(a)
          \/ o = Unchanged(a, Answer("Refused"))
      BY <1>6 DEF Execute
    <2>2. stuck.next = t.next /\ stuck.bytes = t.bytes /\ stuck.phase = "PublishPending"
      BY <1>1 DEF Txns
    <2> HIDE DEF stuck
    <2> QED
      BY <1>1, <1>2, <2>1, <2>2 DEF Outcome, Answer, Whole, NoTxn
  <1> QED
    BY <1>3, <1>4, <1>5, <1>6 DEF Actions

\* Chunks that are durable stay so under any request.
LEMMA DeviceKeepsPrefix ==
    ASSUME DeliveryInv, PrefixInv, NEW b \in Artifacts, NEW action \in Actions,
           action.op # "None", action.op = "Chunk" => action.index < ChunkCount(b),
           NEW o \in Execute(b, action), Apply(b, o)
    PROVE  \A a \in Artifacts :
             /\ Whole(a, txn'[a])
             /\ \A n \in Nat : Durable(a, n) => Durable(a, n)'
  <1>1. /\ published \subseteq o.published
        /\ Whole(b, o.txn)
        /\ \/ b \in o.published
           \/ txn[b].phase # "Absent" => o.txn.phase # "Absent" /\ o.txn.next >= txn[b].next
        /\ o.txn \in Txns
    BY ExecuteSound, ExecutePrefix DEF DeliveryInv, PrefixInv
  <1>2. txn \in [Artifacts -> Txns]
    BY DEF DeliveryInv, TypeOK
  <1>3. o.txn.next \in Nat /\ \A a \in Artifacts : txn[a].next \in Nat
    BY <1>1, <1>2 DEF Txns
  <1> QED
    BY <1>1, <1>2, <1>3 DEF Apply, PrefixInv, Durable

LEMMA PrefixInit == Init => PrefixInv
  <1> SUFFICES ASSUME Init, NEW a \in Artifacts
               PROVE  Whole(a, txn[a])
    BY DEF Init, PrefixInv, At, NoAction
  <1>1. txn[a] \in InitTxns(a)
    BY DEF Init, Artifacts
  <1>2. \A t \in InitTxns(a) : Whole(a, t)
    BY ChunkCountType DEF InitTxns, Whole, NoTxn
  <1> QED
    BY <1>1, <1>2

\* Only a progress report that agrees with the plan leads on.
LEMMA PrefixAccept ==
    ASSUME DeliveryInv, PrefixInv, NEW b \in Artifacts, AcceptResponse(b)
    PROVE  PrefixInv'
  <1> DEFINE s == Accepted(b, pending[b], response)
  <1>1. /\ pending[b] \in Actions /\ response \in Responses
        /\ state \in [Artifacts -> UploadStates] /\ pending \in [Artifacts -> Actions]
    BY DEF DeliveryInv, TypeOK
  <1>2. response.txn.next \in Nat /\ ChunkCount(b) \in Nat
    BY <1>1, ChunkCountType DEF Responses, Txns
  <1>3. /\ s.tag = "Chunk" => /\ s.next < ChunkCount(b)
                              /\ s.accepted = ExpectedPrefixBytes(b, s.next)
                              /\ Durable(b, s.next)
        /\ s.tag = "Finalize" => Durable(b, ChunkCount(b))
    <2>1. CASE pending[b].op \in {"Begin", "Chunk"} /\ response.kind = "Progress"
      <3>1. /\ response.txn.phase # "Absent"
            /\ Whole(b, response.txn)
            /\ Durable(b, response.txn.next)
        BY <2>1 DEF PrefixInv
      <3>2. s = StateFromProgress(b, response.txn) \/ s = At("Inspect")
        BY <2>1 DEF Accepted, AcceptProgress
      <3> HIDE DEF s
      <3> QED
        BY <1>2, <3>1, <3>2 DEF StateFromProgress, Whole, At, Chunk
    <2>2. CASE pending[b].op \in {"Inspect", "Finalize"}
      BY <2>2 DEF Accepted, AcceptInspection, AcceptFinalize, At
    <2>3. CASE pending[b].op \in {"Begin", "Chunk"} /\ response.kind # "Progress"
      BY <2>3 DEF Accepted, AcceptProgress, At
    <2>4. pending[b].op \in {"Inspect", "Begin", "Chunk", "Finalize"}
      BY <1>1 DEF AcceptResponse, Actions
    <2> QED
      BY <2>1, <2>2, <2>3, <2>4
  <1>4. /\ state' = [state EXCEPT ![b] = s]
        /\ response' = Answer("None")
        /\ UNCHANGED <<txn, published>>
    BY DEF AcceptResponse, deviceVars
  <1> HIDE DEF s
  <1> QED
    BY <1>1, <1>3, <1>4 DEF PrefixInv, Durable, Whole, Answer

\* The prefix invariant is inductive next to the delivery's.
LEMMA PrefixStep == DeliveryInv /\ PrefixInv /\ [Next]_vars => PrefixInv'
  <1> SUFFICES ASSUME DeliveryInv, PrefixInv, [Next]_vars PROVE PrefixInv'
    OBVIOUS
  <1>0. /\ state \in [Artifacts -> UploadStates] /\ pending \in [Artifacts -> Actions]
        /\ txn \in [Artifacts -> Txns] /\ response \in Responses
    BY DEF DeliveryInv, TypeOK
  <1>1. ASSUME NEW b \in Artifacts, NextRequest(b) PROVE PrefixInv'
    <2>1. response.kind = "None"
      BY <1>1 DEF NextRequest, Serving, DeliveryInv, ResponseOwner, Turns, Artifacts
    <2> QED
      BY <1>1, <2>1 DEF NextRequest, deviceVars, PrefixInv, Durable, Whole
  <1>2. ASSUME NEW b \in Artifacts, AcceptResponse(b) PROVE PrefixInv'
    BY <1>2, PrefixAccept
  <1>3. CASE AbandonPending
    BY <1>3 DEF AbandonPending, AfterAbandon, At, NoAction, deviceVars, PrefixInv, Durable,
                Whole
  <1>4. CASE DeviceExecute
    <2>0. PICK b : b = request.to
      OBVIOUS
    <2>1. PICK o \in Execute(b, request.action) : Apply(b, o) /\ response' = o.response
      BY <1>4, <2>0 DEF DeviceExecute
    <2>2. request \in Requests
      BY <1>4 DEF DeviceExecute, DeliveryInv, TypeOK, NoRequest
    <2>3. /\ b \in Artifacts /\ request.action \in Actions /\ request.action.op # "None"
          /\ pending[b] = request.action
          /\ request.action.op = "Chunk" => request.action.index < ChunkCount(b)
      BY <1>4, <2>0, <2>2 DEF DeviceExecute, DeliveryInv, WireOwner, ChunksInRange, InRange, Requests
    <2>4. \A a \in Artifacts : pending[a].op # "None" => a = b
      BY <2>3 DEF DeliveryInv, Turns, Artifacts
    <2>5. \A a \in Artifacts : /\ Whole(a, txn'[a])
                               /\ \A n \in Nat : Durable(a, n) => Durable(a, n)'
      BY <2>1, <2>3, DeviceKeepsPrefix
    <2>6. response'.kind = "Progress" => response'.txn = txn'[b] /\ txn'[b].phase # "Absent"
      BY <1>0, <2>1, <2>3, ExecutePrefix DEF Apply, DeliveryInv, PrefixInv
    <2>7. response'.kind = "Progress" => Durable(b, response.txn.next)'
      <3>1. txn'[b].next \in Nat
        BY <1>0, <2>1, <2>3, ExecuteSound DEF Apply, DeliveryInv, Txns
      <3> QED
        BY <2>6, <3>1 DEF Durable
    <2>8. UNCHANGED <<state, pending>>
      BY <1>4 DEF DeviceExecute, clientVars
    <2>9. \A a \in Artifacts : state[a].next \in Nat /\ ChunkCount(a) \in Nat
      BY <1>0, ChunkCountType DEF UploadStates
    <2> QED
      BY <2>4, <2>5, <2>6, <2>7, <2>8, <2>9 DEF PrefixInv, Whole, Durable
  <1>5. CASE DeviceRefuse
    BY <1>5 DEF DeviceRefuse, clientVars, deviceVars, PrefixInv, Durable, Whole, Answer
  <1>6. CASE DeviceExecuteLate
    <2>1. PICK q \in late : \E o \in Execute(q.to, q.action) : Apply(q.to, o)
      BY <1>6 DEF DeviceExecuteLate
    <2>2. PICK o \in Execute(q.to, q.action) : Apply(q.to, o)
      BY <2>1
    <2>3. /\ q.to \in Artifacts /\ q.action \in Actions /\ q.action.op # "None"
          /\ q.action.op = "Chunk" => q.action.index < ChunkCount(q.to)
      BY DEF DeliveryInv, TypeOK, ChunksInRange, InRange, Requests
    <2>4. \A a \in Artifacts : /\ Whole(a, txn'[a])
                               /\ \A n \in Nat : Durable(a, n) => Durable(a, n)'
      BY <2>2, <2>3, DeviceKeepsPrefix
    <2>5. UNCHANGED <<state, pending, response>>
      BY <1>6 DEF DeviceExecuteLate, clientVars
    <2>6. \A a \in Artifacts : state[a].next \in Nat /\ ChunkCount(a) \in Nat
      BY <1>0, ChunkCountType DEF UploadStates
    <2>7. response.txn.next \in Nat
      BY <1>0 DEF Responses, Txns
    <2> QED
      BY <2>4, <2>5, <2>6, <2>7 DEF PrefixInv
  <1>7. CASE UNCHANGED vars
    BY <1>7 DEF vars, clientVars, netVars, deviceVars, PrefixInv, Durable, Whole
  <1> QED
    BY <1>1, <1>2, <1>3, <1>4, <1>5, <1>6, <1>7 DEF Next

\* What the invariant says about the bytes the client shows.
LEMMA PrefixMeans == DeliveryInv /\ PrefixInv => PrefixAgreed
  <1> SUFFICES ASSUME DeliveryInv, PrefixInv PROVE PrefixAgreed
    OBVIOUS
  <1>1. \A a \in Artifacts : /\ txn[a].next \in Nat /\ state[a].next \in Nat
                             /\ ChunkCount(a) \in Nat
    BY ChunkCountType DEF DeliveryInv, TypeOK, Txns, UploadStates
  <1>2. AcceptedIsDurable
    <2> SUFFICES ASSUME NEW a \in Artifacts, a \notin published
                 PROVE  /\ state[a].tag = "Chunk" =>
                             /\ txn[a].next >= state[a].next
                             /\ txn[a].bytes >= state[a].accepted
                        /\ state[a].tag = "Finalize" => txn[a].next = ChunkCount(a)
      BY DEF AcceptedIsDurable
    <2>1. /\ Whole(a, txn[a])
          /\ state[a].tag = "Chunk" =>
               /\ state[a].accepted = ExpectedPrefixBytes(a, state[a].next)
               /\ Durable(a, state[a].next)
          /\ state[a].tag = "Finalize" => Durable(a, ChunkCount(a))
      BY DEF PrefixInv
    <2>2. ASSUME state[a].tag = "Chunk"
          PROVE  txn[a].next >= state[a].next /\ txn[a].bytes >= state[a].accepted
      <3>1. /\ txn[a].next >= state[a].next /\ txn[a].next <= ChunkCount(a)
            /\ txn[a].bytes = ExpectedPrefixBytes(a, txn[a].next)
        BY <2>1, <2>2 DEF Durable, Whole
      <3>2. ExpectedPrefixBytes(a, state[a].next) <= ExpectedPrefixBytes(a, txn[a].next)
        BY <1>1, <3>1, PrefixMonotone
      <3>3. /\ ExpectedPrefixBytes(a, state[a].next) \in Nat
            /\ ExpectedPrefixBytes(a, txn[a].next) \in Nat
        BY <1>1, PrefixType
      <3> QED
        BY <2>1, <2>2, <3>1, <3>2, <3>3
    <2>3. ASSUME state[a].tag = "Finalize" PROVE txn[a].next = ChunkCount(a)
      BY <1>1, <2>1, <2>3 DEF Durable, Whole
    <2> QED
      BY <2>2, <2>3
  <1>3. ResumeAccepted
    <2> SUFFICES ASSUME NEW a \in Artifacts, pending[a].op = "Begin",
                        response.kind = "Progress"
                 PROVE  StateFromProgress(a, response.txn).tag # "Inspect"
      BY DEF ResumeAccepted
    <2>1. response.txn.phase # "Absent" /\ Whole(a, response.txn)
      BY DEF PrefixInv
    <2>2. /\ response.txn.phase \in {"Absent", "Receiving", "PublishPending"}
          /\ response.txn.next \in Nat
      BY DEF DeliveryInv, TypeOK, Responses, Txns
    <2> QED
      BY <1>1, <2>1, <2>2 DEF StateFromProgress, Whole, At, Chunk
  <1> QED
    BY <1>2, <1>3 DEF PrefixAgreed, DeliveryInv

\* For every plan, what is accepted is durable and what is durable is accepted for
\* resumption, whatever is lost, refused or executed late.
THEOREM PrefixAlwaysAgreed == Spec => []PrefixAgreed
  <1>1. Init => PrefixInv
    BY PrefixInit
  <1>2. DeliveryInv /\ PrefixInv /\ [Next]_vars => PrefixInv'
    BY PrefixStep
  <1>3. DeliveryInv /\ PrefixInv => PrefixAgreed
    BY PrefixMeans
  <1> QED
    BY <1>1, <1>2, <1>3, DeliveryInvariant, PTL DEF Spec
=============================================================================
