---------------------------- MODULE CacheDelivery ----------------------------
(***************************************************************************)
(* Delivery of one participant's immutable artifacts into its device's     *)
(* cache: first the executable partition, then the global job manifest     *)
(* (ParticipantCacheDelivery), each driven by its own CacheUploadMachine.  *)
(*                                                                         *)
(* The network loses requests and responses, and a request the client has  *)
(* given up on may still be executed later: the firmware's replay window   *)
(* accepts an older, not yet seen counter, so late requests are not in     *)
(* order.  Correlation of responses with requests is the business of the   *)
(* HTTP session; here a response belongs to the live request.              *)
(*                                                                         *)
(* The device's storage coordinator is external.  It is modelled from the  *)
(* requests the client sends and the answers it accepts.                   *)
(***************************************************************************)
EXTENDS Integers

CONSTANTS
    ByteLen,      \* exact object length of each artifact
    ChunkBytes,   \* nominal chunk length of the upload plans
    MaxFaults     \* bound on lost exchanges and device refusals

Artifacts == {"partition", "manifest"}

ASSUME PlanAssumption ==
    /\ ByteLen \in [Artifacts -> Nat \ {0}]
    /\ ChunkBytes \in Nat \ {0}

ASSUME FaultAssumption == MaxFaults \in Nat

VARIABLES
    state,      \* UploadState of each artifact's machine
    pending,    \* emitted, neither accepted nor abandoned action
    request,    \* the live request on the wire, if any
    response,   \* the answer to the live request, if any
    late,       \* abandoned requests that may still reach the device
    txn,        \* device: upload transaction of each artifact
    published,  \* device: artifacts published by content identity
    faults      \* lost exchanges and refusals so far

clientVars == <<state, pending>>
netVars == <<request, response, late>>
deviceVars == <<txn, published>>
vars == <<clientVars, netVars, deviceVars, faults>>

-----------------------------------------------------------------------------
(* Chunk arithmetic.                                                       *)

\* The chunk count a validated plan declares: the least number of nominal
\* chunks that covers the object.
ChunkCount(a) == (ByteLen[a] + ChunkBytes - 1) \div ChunkBytes

\* Bytes of the source range of chunk i (the length of chunk_range).
SourceChunkBytes(a, i) ==
    LET start == i * ChunkBytes
        nominalEnd == start + ChunkBytes
        end == IF nominalEnd <= ByteLen[a] THEN nominalEnd ELSE ByteLen[a]
    IN  end - start

ExpectedChunkBytes(a, i) ==
    IF i + 1 < ChunkCount(a) THEN ChunkBytes
                             ELSE ByteLen[a] - ChunkBytes * i

\* Mutation: the short last chunk is forgotten.
ExpectedPrefixBytesNominal(a, next) == ChunkBytes * next

ExpectedPrefixBytes(a, next) ==
    IF next = ChunkCount(a) THEN ByteLen[a] ELSE ChunkBytes * next

-----------------------------------------------------------------------------
(* Values.                                                                 *)

UploadStates ==
    [tag : {"Inspect", "Begin", "Chunk", "Finalize", "Complete"},
     next : Nat, accepted : Nat]

\* Only a chunk state carries progress.
At(tag) == [tag |-> tag, next |-> 0, accepted |-> 0]
Chunk(next, accepted) ==
    [tag |-> "Chunk", next |-> next, accepted |-> accepted]

\* Only a chunk action carries an index.
Actions == [op : {"None", "Inspect", "Begin", "Chunk", "Finalize"}, index : Nat]
NoAction == [op |-> "None", index |-> 0]

\* "id" tells two abandoned requests for the same thing apart: each was signed
\* with a counter of its own.
Requests == [to : Artifacts, action : Actions, id : Nat]
NoRequest == [to |-> "None", action |-> NoAction, id |-> 0]

Txns == [phase : {"Absent", "Receiving", "PublishPending"}, next : Nat, bytes : Nat]
NoTxn == [phase |-> "Absent", next |-> 0, bytes |-> 0]

\* A refusal is any status but Ok and NotFound; "NotFound" and "EmptyOk" have an
\* empty body, "Publication" the exact publication asked for.
Responses ==
    [kind : {"None", "Refused", "NotFound", "Publication", "EmptyOk", "Progress"},
     txn : Txns]
Answer(kind) == [kind |-> kind, txn |-> NoTxn]
Progress(t) == [kind |-> "Progress", txn |-> t]

-----------------------------------------------------------------------------
(* The client.                                                             *)

\* Mutation: the two artifacts are delivered independently of each other.
ServingAnyOrder(a) == state[a].tag # "Complete"

\* The artifact next_request serves: the manifest waits for the partition.
Serving(a) ==
    /\ state[a].tag # "Complete"
    /\ a = "manifest" => state["partition"].tag = "Complete"

\* The action the upload machine emits from its state.
NextAction(a) ==
    [op |-> state[a].tag, index |-> state[a].next]

\* A chunk leaves only if the source still has it at its exact length.
ValidChunk(a) ==
    state[a].tag = "Chunk" =>
        /\ state[a].next < ChunkCount(a)
        /\ SourceChunkBytes(a, state[a].next)
             = ExpectedChunkBytes(a, state[a].next)

NextRequest(a) ==
    /\ Serving(a)
    /\ pending[a].op = "None"
    /\ ValidChunk(a)
    /\ pending' = [pending EXCEPT ![a] = NextAction(a)]
    /\ request' = [to |-> a, action |-> NextAction(a), id |-> faults]
    /\ UNCHANGED <<state, response, late, deviceVars, faults>>

\* Durable progress decides the next state; anything that disagrees with the
\* bound plan is an error, and every error returns to inspection.
StateFromProgress(a, p) ==
    IF p.next > ChunkCount(a) \/ p.bytes # ExpectedPrefixBytes(a, p.next)
      THEN At("Inspect")
      ELSE IF p.next < ChunkCount(a)
             THEN IF p.phase = "Receiving" THEN Chunk(p.next, p.bytes)
                                           ELSE At("Inspect")
             ELSE IF p.phase \in {"Receiving", "PublishPending"}
                    THEN At("Finalize") ELSE At("Inspect")

\* accept_inspection
AcceptInspection(r) ==
    CASE r.kind = "Publication" -> At("Complete")
      [] r.kind = "NotFound"    -> At("Begin")
      [] OTHER                  -> At("Inspect")

\* Begin and chunk responses; a chunk must have advanced the prefix by one.
AcceptProgress(a, action, r) ==
    IF r.kind = "Progress" /\ (action.op = "Chunk" => r.txn.next = action.index + 1)
      THEN StateFromProgress(a, r.txn)
      ELSE At("Inspect")

\* Mutation: the status of a finalize response is not looked at.
AcceptFinalizeAnyStatus(r) == At("Complete")

\* Mutation: a finalize that failed is sent again without inspecting first.
AcceptFinalizeRetry(r) ==
    IF r.kind = "EmptyOk" THEN At("Complete") ELSE At("Finalize")

AcceptFinalize(r) ==
    IF r.kind = "EmptyOk" THEN At("Complete") ELSE At("Inspect")

Accepted(a, action, r) ==
    CASE action.op = "Inspect"            -> AcceptInspection(r)
      [] action.op \in {"Begin", "Chunk"} -> AcceptProgress(a, action, r)
      [] action.op = "Finalize"           -> AcceptFinalize(r)

\* accept_response of the delivery: the artifact with the pending request owns
\* the response.
AcceptResponse(a) ==
    /\ response.kind # "None"
    /\ pending[a].op # "None"
    /\ \A b \in Artifacts \ {a} : pending[b].op = "None"
    /\ pending' = [pending EXCEPT ![a] = NoAction]
    /\ state' = [state EXCEPT ![a] = Accepted(a, pending[a], response)]
    /\ response' = Answer("None")
    /\ UNCHANGED <<request, late, deviceVars, faults>>

AfterAbandon(a) == IF pending[a].op # "None" THEN At("Inspect") ELSE state[a]

\* A failed or timed-out fetch.  The request may already have been executed,
\* may never arrive, or may arrive later.
AbandonPending ==
    /\ \E a \in Artifacts : pending[a].op # "None"
    /\ faults < MaxFaults
    /\ faults' = faults + 1
    /\ state' = [a \in Artifacts |-> AfterAbandon(a)]
    /\ pending' = [a \in Artifacts |-> NoAction]
    /\ late' = IF request.to # "None" THEN late \cup {request} ELSE late
    /\ request' = NoRequest
    /\ response' = Answer("None")
    /\ UNCHANGED deviceVars

Ready == \A a \in Artifacts : state[a].tag = "Complete"

-----------------------------------------------------------------------------
(* The device.                                                             *)

Outcome(t, pub, r) == [txn |-> t, published |-> pub, response |-> r]
Unchanged(a, r) == Outcome(txn[a], published, r)

\* Every outcome of executing an action against artifact a.  A repeated chunk
\* is refused or answered with the current progress; a finalize interrupted
\* before publication leaves the transaction publish-pending.
Execute(a, action) ==
    LET t == txn[a] IN
    CASE action.op = "Inspect" ->
           {Unchanged(a, Answer(IF a \in published THEN "Publication" ELSE "NotFound"))}
      [] action.op = "Begin" ->
           LET begun == IF t.phase # "Absent" THEN t
                        ELSE [phase |-> "Receiving", next |-> 0, bytes |-> 0]
           IN  {Outcome(begun, published, Progress(begun))}
      [] action.op = "Chunk" ->
           IF t.phase = "Receiving" /\ action.index = t.next
             THEN LET grown == [phase |-> "Receiving", next |-> t.next + 1,
                                bytes |-> t.bytes + SourceChunkBytes(a, t.next)]
                  IN  {Outcome(grown, published, Progress(grown))}
             ELSE {Unchanged(a, Answer("Refused"))}
                    \cup (IF t.phase # "Absent" /\ action.index < t.next
                            THEN {Unchanged(a, Progress(t))} ELSE {})
      [] action.op = "Finalize" ->
           IF t.phase # "Absent" /\ t.next = ChunkCount(a)
             THEN {Outcome(NoTxn, published \cup {a}, Answer("EmptyOk")),
                   Outcome([t EXCEPT !.phase = "PublishPending"], published, Answer("Refused"))}
             ELSE {Unchanged(a, Answer("Refused"))}

Apply(a, o) ==
    /\ txn' = [txn EXCEPT ![a] = o.txn]
    /\ published' = o.published

\* A refusal of an executable finalize is a fault like any other.
Budget(action, o) ==
    IF action.op = "Finalize" /\ o.txn.phase = "PublishPending"
      THEN faults < MaxFaults /\ faults' = faults + 1
      ELSE UNCHANGED faults

DeviceExecute ==
    /\ request.to # "None"
    /\ \E o \in Execute(request.to, request.action) :
         /\ Apply(request.to, o)
         /\ response' = o.response
         /\ Budget(request.action, o)
    /\ request' = NoRequest
    /\ UNCHANGED <<clientVars, late>>

\* Rate limit, armed device, media error: refused without any effect.
DeviceRefuse ==
    /\ request.to # "None"
    /\ faults < MaxFaults
    /\ faults' = faults + 1
    /\ response' = Answer("Refused")
    /\ request' = NoRequest
    /\ UNCHANGED <<clientVars, late, deviceVars>>

DeviceExecuteLate ==
    \E q \in late :
      /\ \E o \in Execute(q.to, q.action) :
           /\ Apply(q.to, o)
           /\ Budget(q.action, o)
      /\ late' = late \ {q}
      /\ UNCHANGED <<clientVars, request, response>>

-----------------------------------------------------------------------------
\* An earlier session may have left a transaction at any durable prefix, or
\* already published either artifact.
InitTxns(a) ==
    LET Prefix(phase, n) == [phase |-> phase, next |-> n,
                             bytes |-> ExpectedPrefixBytes(a, n)]
    IN  {NoTxn, Prefix("PublishPending", ChunkCount(a))}
          \cup {Prefix("Receiving", n) : n \in 0 .. ChunkCount(a)}

Init ==
    /\ state = [a \in Artifacts |-> At("Inspect")]
    /\ pending = [a \in Artifacts |-> NoAction]
    /\ request = NoRequest
    /\ response = Answer("None")
    /\ late = {}
    /\ \E p \in InitTxns("partition"), m \in InitTxns("manifest") :
         txn = [a \in Artifacts |-> IF a = "partition" THEN p ELSE m]
    /\ published \in SUBSET Artifacts
    /\ faults = 0

Next ==
    \/ \E a \in Artifacts : NextRequest(a) \/ AcceptResponse(a)
    \/ AbandonPending
    \/ DeviceExecute
    \/ DeviceRefuse
    \/ DeviceExecuteLate

Spec == Init /\ [][Next]_vars

\* The worker polls the job on a timer and the network delivers what is neither
\* lost nor refused; nothing obliges a late request to arrive.
Fairness ==
    /\ \A a \in Artifacts : WF_vars(NextRequest(a)) /\ WF_vars(AcceptResponse(a))
    /\ WF_vars(DeviceExecute)

FairSpec == Spec /\ Fairness

-----------------------------------------------------------------------------
(* Properties.                                                             *)

TypeOK ==
    /\ state \in [Artifacts -> UploadStates]
    /\ pending \in [Artifacts -> Actions]
    /\ request \in Requests \cup {NoRequest}
    /\ response \in Responses
    /\ late \in SUBSET Requests
    /\ txn \in [Artifacts -> Txns]
    /\ published \in SUBSET Artifacts
    /\ faults \in Nat

\* An artifact the client calls Complete is published on the device, whatever
\* was lost, refused, or executed late on the way (readiness() is evidence).
CompleteIsPublished ==
    \A a \in Artifacts : state[a].tag = "Complete" => a \in published

\* No request for the manifest exists, not even a late one, unless the
\* partition is already published: the order the delivery promises.
ManifestAfterPartition ==
    /\ request.to = "manifest" => "partition" \in published
    /\ \A q \in late : q.to = "manifest" => "partition" \in published

\* What the client shows as accepted is durable on the device: the device
\* never holds a shorter prefix, unless it has published the artifact.
AcceptedIsDurable ==
    \A a \in Artifacts :
        \/ a \in published
        \/ /\ state[a].tag = "Chunk" =>
                /\ txn[a].next >= state[a].next
                /\ txn[a].bytes >= state[a].accepted
           /\ state[a].tag = "Finalize" => txn[a].next = ChunkCount(a)

\* A correct device is never accused: the client's prefix arithmetic agrees
\* with the bytes the device summed up, so resuming is always accepted.
ResumeAccepted ==
    \A a \in Artifacts :
        pending[a].op = "Begin" /\ response.kind = "Progress"
            => StateFromProgress(a, response.txn).tag # "Inspect"

\* What the client takes for uploaded the device holds, and whatever prefix an earlier
\* session left, a short last chunk included, is accepted for resumption.
PrefixAgreed == TypeOK /\ AcceptedIsDurable /\ ResumeAccepted

\* With finitely many losses and refusals both artifacts are delivered: the
\* inspect-and-resume loop always makes progress.
Delivered == <>[]Ready
=============================================================================
