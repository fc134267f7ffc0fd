--------------------------- MODULE AuthoringSession ---------------------------
(***************************************************************************)
(* The authoring session of the graph editor: one workspace, the probes    *)
(* bound to exactly that workspace, the cached jobs and the component made *)
(* from the workspace, with one history for all of them.                   *)
(*                                                                         *)
(* Every edit prepares a complete next session and either commits all of   *)
(* it, recording the prior one, or changes nothing.  Identities come from  *)
(* cursors that are part of the session, so undo takes a cursor back.  The *)
(* session is saved to the browser's storage when it is dirty and restored *)
(* when the page is loaded.                                                *)
(*                                                                         *)
(* A node has one input and one output.  "text" stands for whatever an     *)
(* edit replaces in it (place, label, domain, parameter).  Documents bind  *)
(* to each other by digest: here the number of the edit that made the      *)
(* workspace, which like its revision is another after every edit.  A byte *)
(* is a node, a wire, a probe or the component, whose own "text" stands    *)
(* for its connectors, front panel, hierarchy and library.  The wording of *)
(* statuses is left out; a rejected edit is a stuttering step.  "line" and *)
(* "made" are ghosts: which document an identity comes from (the one the   *)
(* page began with, one from a file, the reference when the draft is       *)
(* reset) and which edit gave it out.                                      *)
(***************************************************************************)
EXTENDS Integers, Sequences, FiniteSets, SequencesExt

CONSTANTS
    MaxId,              \* the largest identity (u32::MAX); the cursor may stand one past it
    MaxSamples,         \* the capture a new probe asks for
    Pane,               \* the nodes the component's connectors bind
    MaxSessionBytes,    \* the largest session (maximum_session_bytes)
    MaxSnapshots,       \* history: sessions kept in each direction
    MaxBytes,           \* history: bytes kept in both directions
    Foreign, Watched,   \* bound: workspaces a file may bring, nodes its probes may observe
    Texts, Windows,     \* bound: what an edit puts in a node, and the windows of a trigger
    MaxEdits,           \* bound on committed edits
    MaxVisits           \* bound on uses of the browser's storage

\* The reference session is admitted.
ASSUME BoundAssumption ==
    /\ MaxSnapshots \in Nat \ {0} /\ MaxBytes \in Nat \ {0}
    /\ MaxSessionBytes \in Nat /\ 4 <= MaxSessionBytes /\ MaxSessionBytes <= MaxBytes
    /\ MaxId \in Nat \ {0} /\ MaxSamples \in Nat \ {0} /\ Windows \subseteq 1..MaxSamples
    /\ MaxEdits \in Nat /\ MaxVisits \in Nat /\ Texts \subseteq Nat

\* A workspace from a file has been validated where it is read.
ASSUME ForeignAssumption ==
    \A f \in Foreign :
        /\ f.nodes \subseteq 1..MaxId /\ f.nextNode \in 1..(MaxId + 1)
        /\ \A n \in f.nodes : n < f.nextNode
        /\ f.nextWire \in 1..(MaxId + 1)
        /\ f.wires \in [DOMAIN f.wires -> [source : f.nodes, target : f.nodes, made : {0}]]
        /\ \A w \in DOMAIN f.wires :
              /\ w \in 1..MaxId /\ w < f.nextWire
              /\ \A v \in DOMAIN f.wires : f.wires[v].target = f.wires[w].target => v = w

VARIABLES
    session,            \* the current session
    undo, redo, bytes,  \* the history: two stacks, the newest last, and their bytes
    pending,            \* the output chosen as the source of a wire, or 0
    dirty, attempted,   \* persistence: changed since saved; saving it has failed
    stored,             \* the session in the browser's storage, or NoSession
    edits, visits       \* ghosts: committed edits, uses of the storage

history == <<undo, redo, bytes>>
persistence == <<dirty, attempted, stored>>
vars == <<session, history, pending, persistence, edits, visits>>

-----------------------------------------------------------------------------
(* Workspaces.                                                             *)

NoTrigger == [probe |-> 0, window |-> 0]
NoComponent == [of |-> -1, text |-> 0]
NoSession == [jobs |-> -1]

Owned(ws, node) == \E w \in DOMAIN ws.wires : ws.wires[w].target = node

\* The analysis of a draft refuses a graph in which some nodes feed each other in a circle.
Acyclic(ws) ==
    \A nodes \in SUBSET (DOMAIN ws.nodes) :
        nodes # {} => \E n \in nodes : \A w \in DOMAIN ws.wires :
            ws.wires[w].target = n => ws.wires[w].source \notin nodes

Without(f, ids) == [i \in DOMAIN f \ ids |-> f[i]]
With(f, i, value) == [j \in DOMAIN f \cup {i} |-> IF j = i THEN value ELSE f[j]]

NodeCreated(ws) ==
    [ws EXCEPT !.nodes = With(@, ws.nextNode, [made |-> edits + 1, text |-> 0]),
               !.nextNode = @ + 1]

\* Mutant: deleting a node gives its identity back.
NodeDeletedRewinding(ws, n) ==
    [ws EXCEPT !.nodes = Without(@, {n}),
               !.wires = Without(@, {w \in DOMAIN @ : n \in {@[w].source, @[w].target}}),
               !.nextNode = n]

\* The wires of a node go with it; no cursor is taken back.
NodeDeleted(ws, n) ==
    [ws EXCEPT !.nodes = Without(@, {n}),
               !.wires = Without(@, {w \in DOMAIN @ : n \in {@[w].source, @[w].target}})]

Connected(ws, source, target) ==
    [ws EXCEPT !.wires = With(@, ws.nextWire,
                              [source |-> source, target |-> target, made |-> edits + 1]),
               !.nextWire = @ + 1]

-----------------------------------------------------------------------------
(* Probes, component and session.                                          *)

EmptyProbes(ws) == [next |-> 1, of |-> ws.digest, trigger |-> NoTrigger, probes |-> <<>>]

\* Mutant: the probes are bound to the revised workspace whatever they observe.
ProbesForUnchecked(p, ws) == [p EXCEPT !.of = ws.digest]

\* A revised workspace keeps its probes when all they observe is still there; otherwise
\* the whole sidecar is replaced by an empty one.
ProbesFor(p, ws) ==
    IF \A i \in DOMAIN p.probes : p.probes[i].source \in DOMAIN ws.nodes
    THEN [p EXCEPT !.of = ws.digest]
    ELSE EmptyProbes(ws)

\* The component follows the revised workspace, with what was authored in it; it is
\* detached when a connector loses its node, and a new one is made when there was none.
ComponentFor(ws, component) ==
    IF Pane \subseteq DOMAIN ws.nodes
    THEN [component EXCEPT !.of = ws.digest] ELSE NoComponent

SessionOf(ws, p, jobs, component) ==
    [workspace |-> ws, probes |-> p, jobs |-> jobs, component |-> ComponentFor(ws, component)]

\* The session a page begins with when none is stored.
Reference ==
    LET ws == [line |-> 0, digest |-> 0, nextNode |-> 2, nextWire |-> 1,
               nodes |-> [n \in {1} |-> [made |-> 0, text |-> 0]], wires |-> <<>>]
    IN SessionOf(ws, [EmptyProbes(ws) EXCEPT
                        !.next = 2,
                        !.probes = [i \in {1} |-> [source |-> 1, capture |-> MaxSamples]]],
                 0, NoComponent)

Size(s) ==
    1 + Cardinality(DOMAIN s.workspace.nodes) + Cardinality(DOMAIN s.workspace.wires)
      + Cardinality(DOMAIN s.probes.probes) + (IF s.component = NoComponent THEN 0 ELSE 1)

Total(stack) ==
    LET sum[n \in 0..Len(stack)] == IF n = 0 THEN 0 ELSE sum[n - 1] + Size(stack[n])
    IN  sum[Len(stack)]

-----------------------------------------------------------------------------
(* History.                                                                *)

\* Mutant: the newest go first.
DropNewest(stack, n) == SubSeq(stack, 1, Len(stack) - n)

Drop(stack, n) == SubSeq(stack, n + 1, Len(stack))
Excess(stack) == IF Len(stack) > MaxSnapshots THEN Len(stack) - MaxSnapshots ELSE 0

\* The turns a loop makes that ends at the first number in "stops", or at "last".
Turns(stops, first, last) ==
    CHOOSE n \in first..last :
        (n \in stops \/ n = last) /\ \A m \in first..last : m < n => m \notin stops

\* The oldest go until both stacks are short enough and all bytes fit; what was undone
\* first goes only when nothing is left to undo.
EnforceLimits(h) ==
    LET Left(u, r) == h.bytes - Total(SubSeq(h.undo, 1, u)) - Total(SubSeq(h.redo, 1, r))
        redoExcess == Excess(h.redo)
        u == Turns({n \in 0..Len(h.undo) : Left(n, redoExcess) <= MaxBytes},
                   Excess(h.undo), Len(h.undo))
        r == Turns({n \in 0..Len(h.redo) : Left(u, n) <= MaxBytes}, redoExcess, Len(h.redo))
    IN [undo |-> Drop(h.undo, u), redo |-> Drop(h.redo, r), bytes |-> Left(u, r)]

KeepHistory(h) ==
    LET kept == EnforceLimits(h) IN undo' = kept.undo /\ redo' = kept.redo /\ bytes' = kept.bytes

\* Mutant: a change does not clear a failed attempt.
ChangedStillAttempted == dirty' = TRUE /\ UNCHANGED <<attempted, stored>>

Changed == dirty' = TRUE /\ attempted' = FALSE /\ UNCHANGED stored

\* record: the prior session is kept and what had been undone is forgotten.
Record ==
    /\ Size(session) <= MaxBytes
    /\ KeepHistory([undo |-> Append(undo, session), redo |-> <<>>,
                    bytes |-> bytes - Total(redo) + Size(session)])

Commit(next) ==
    /\ edits < MaxEdits /\ edits' = edits + 1
    /\ Size(next) <= MaxSessionBytes
    /\ session' = next
    /\ Record
    /\ Changed

-----------------------------------------------------------------------------
(* Edits of the workspace.                                                 *)

CommitWorkspace(ws) ==
    /\ Acyclic(ws)
    /\ Commit(SessionOf(ws, ProbesFor(session.probes, ws), session.jobs, session.component))

CommitCandidate(ws) ==
    IF ws = session.workspace THEN UNCHANGED <<session, history, persistence, edits>>
    ELSE CommitWorkspace([ws EXCEPT !.digest = edits + 1])

CreateNode ==
    /\ session.workspace.nextNode <= MaxId
    /\ CommitCandidate(NodeCreated(session.workspace))
    /\ pending' = 0

DeleteNode(n) ==
    /\ n \in DOMAIN session.workspace.nodes
    /\ CommitCandidate(NodeDeleted(session.workspace, n))
    /\ pending' = IF pending = n THEN 0 ELSE pending

EditNode(n, text) ==
    /\ n \in DOMAIN session.workspace.nodes
    /\ CommitCandidate([session.workspace EXCEPT !.nodes[n].text = text])
    /\ UNCHANGED pending

SelectOutput(n) ==
    /\ n \in DOMAIN session.workspace.nodes
    /\ pending' = IF pending = n THEN 0 ELSE n
    /\ UNCHANGED <<session, history, persistence, edits>>

ConnectInput(target) ==
    /\ pending \in DOMAIN session.workspace.nodes /\ target \in DOMAIN session.workspace.nodes
    /\ session.workspace.nextWire <= MaxId /\ ~Owned(session.workspace, target)
    /\ CommitCandidate(Connected(session.workspace, pending, target))
    /\ pending' = 0

DisconnectInput(w) ==
    /\ w \in DOMAIN session.workspace.wires
    /\ CommitCandidate([session.workspace EXCEPT !.wires = Without(@, {w})])
    /\ pending' = 0

\* A workspace from a file is one more edit; its identities are of another line.
Imported(f) ==
    [line |-> edits + 1, digest |-> edits + 1, nextNode |-> f.nextNode, nextWire |-> f.nextWire,
     nodes |-> [n \in f.nodes |-> [made |-> 0, text |-> 0]],
     wires |-> [w \in DOMAIN f.wires |-> f.wires[w]]]

ImportWorkspace(f) ==
    /\ CommitCandidate(Imported(f))
    /\ pending' = 0

\* reset_draft: the reference itself, its revision and its cursors taken back, as one more
\* edit of the same history.
ResetDraft ==
    /\ IF session.workspace.digest = Reference.workspace.digest
       THEN UNCHANGED <<session, history, persistence, edits>>
       ELSE CommitWorkspace([Reference.workspace EXCEPT !.line = edits + 1])
    /\ pending' = 0

-----------------------------------------------------------------------------
(* Edits of the probes, the jobs and the component.                        *)

TriggerFits(p) ==
    p.trigger # NoTrigger =>
        /\ p.trigger.probe \in DOMAIN p.probes
        /\ p.trigger.window <= p.probes[p.trigger.probe].capture

\* commit_probe_package: every edit below is made on the current workspace's own sidecar.
CommitProbes(p) ==
    /\ p # session.probes /\ session.probes.of = session.workspace.digest
    /\ TriggerFits(p)
    /\ Commit([session EXCEPT !.probes = p])
    /\ UNCHANGED pending

AddProbe(n) ==
    /\ n \in DOMAIN session.workspace.nodes /\ session.probes.next <= MaxId
    /\ \A i \in DOMAIN session.probes.probes : session.probes.probes[i].source # n
    /\ CommitProbes([session.probes EXCEPT
          !.probes = With(@, session.probes.next, [source |-> n, capture |-> MaxSamples]),
          !.next = @ + 1])

RemoveProbe(i) ==
    /\ i \in DOMAIN session.probes.probes
    /\ CommitProbes([session.probes EXCEPT
          !.probes = Without(@, {i}),
          !.trigger = IF @.probe = i THEN NoTrigger ELSE @])

ReplaceProbeMetadata(i, capture) ==
    /\ i \in DOMAIN session.probes.probes
    /\ CommitProbes([session.probes EXCEPT !.probes[i].capture = capture])

SetTrigger(i, window) ==
    CommitProbes([session.probes EXCEPT !.trigger = [probe |-> i, window |-> window]])

ClearTrigger == CommitProbes([session.probes EXCEPT !.trigger = NoTrigger])

\* A sidecar from a file must be bound to this very workspace.
ImportProbes(n) ==
    /\ n \in DOMAIN session.workspace.nodes
    /\ CommitProbes([EmptyProbes(session.workspace) EXCEPT
          !.next = MaxId + 1,
          !.probes = With(@, MaxId, [source |-> n, capture |-> MaxSamples])])

EditJobs(jobs) ==
    /\ jobs # session.jobs
    /\ Commit([session EXCEPT !.jobs = jobs])
    /\ UNCHANGED pending

\* commit_component_dependency_document, commit_hierarchy_document
EditComponent(text) ==
    /\ session.component # NoComponent /\ text # session.component.text
    /\ Commit([session EXCEPT !.component.text = text])
    /\ UNCHANGED pending

-----------------------------------------------------------------------------
(* Navigation.                                                             *)

\* Undo and redo put another complete session in place of the current one.
NavigateUndo ==
    /\ undo # <<>> /\ Size(session) <= MaxBytes
    /\ session' = Last(undo)
    /\ KeepHistory([undo |-> Front(undo), redo |-> Append(redo, session),
                    bytes |-> bytes - Size(Last(undo)) + Size(session)])
    /\ Changed /\ pending' = 0
    /\ UNCHANGED edits

NavigateRedo ==
    /\ redo # <<>> /\ Size(session) <= MaxBytes
    /\ session' = Last(redo)
    /\ KeepHistory([undo |-> Append(undo, session), redo |-> Front(redo),
                    bytes |-> bytes - Size(Last(redo)) + Size(session)])
    /\ Changed /\ pending' = 0
    /\ UNCHANGED edits

\* restore_authoring_session_bytes: a session that comes from outside starts a history.
Restore(s) ==
    /\ session' = s /\ pending' = 0
    /\ undo' = <<>> /\ redo' = <<>> /\ bytes' = 0

ImportSession(f) ==
    /\ edits < MaxEdits /\ edits' = edits + 1
    /\ LET ws == Imported(f) IN
       /\ Acyclic(ws)
       /\ Size(SessionOf(ws, EmptyProbes(ws), 0, NoComponent)) <= MaxSessionBytes
       /\ Restore(SessionOf(ws, EmptyProbes(ws), 0, NoComponent))
    /\ Changed

-----------------------------------------------------------------------------
(* Persistence.                                                            *)

Save ==
    /\ visits < MaxVisits /\ visits' = visits + 1
    /\ dirty /\ ~attempted
    /\ \/ stored' = session /\ dirty' = FALSE /\ attempted' = FALSE
       \/ attempted' = TRUE /\ UNCHANGED <<dirty, stored>>
    /\ UNCHANGED <<session, history, pending, edits>>

\* The page is loaded again: what is stored is restored; the reference stands in for
\* nothing, for what cannot be read and for what is no longer admitted.
Reload ==
    /\ visits < MaxVisits /\ visits' = visits + 1
    /\ \/ stored # NoSession /\ Restore(stored) /\ dirty' = FALSE /\ attempted' = FALSE
       \/ Restore(Reference) /\ dirty' = TRUE /\ attempted' = FALSE
       \/ Restore(Reference) /\ dirty' = TRUE /\ attempted' = TRUE
    /\ UNCHANGED <<stored, edits>>

-----------------------------------------------------------------------------

Init ==
    /\ session = Reference /\ undo = <<>> /\ redo = <<>> /\ bytes = 0
    /\ pending = 0 /\ dirty = TRUE /\ attempted = FALSE
    /\ stored = NoSession /\ edits = 0 /\ visits = 0

Edit ==
    \/ CreateNode
    \/ \E n \in 1..MaxId :
          \/ DeleteNode(n) \/ SelectOutput(n) \/ ConnectInput(n) \/ DisconnectInput(n)
          \/ AddProbe(n) \/ RemoveProbe(n)
          \/ \E text \in Texts : EditNode(n, text)
          \/ \E capture \in 1..MaxSamples : ReplaceProbeMetadata(n, capture)
          \/ \E window \in Windows : SetTrigger(n, window)
    \/ ClearTrigger
    \/ ResetDraft
    \/ \E text \in Texts : EditComponent(text)
    \/ \E jobs \in {0, 1} : EditJobs(jobs)
    \/ \E n \in Watched : ImportProbes(n)
    \/ \E f \in Foreign : ImportWorkspace(f) \/ ImportSession(f)

Next ==
    \/ (Edit \/ NavigateUndo \/ NavigateRedo) /\ UNCHANGED visits
    \/ Save \/ Reload

Spec == Init /\ [][Next]_vars

-----------------------------------------------------------------------------
(* Properties.                                                             *)

Workspace(ws) ==
    /\ ws.line \in Nat /\ ws.digest \in Nat /\ ws.nextNode \in 1..(MaxId + 1) /\ ws.nextWire \in 1..(MaxId + 1)
    /\ \A n \in DOMAIN ws.nodes : ws.nodes[n] \in [made : Nat, text : Nat]
    /\ \A w \in DOMAIN ws.wires : ws.wires[w] \in [source : 1..MaxId, target : 1..MaxId, made : Nat]

TypeOK ==
    /\ Workspace(session.workspace)
    /\ session.probes.next \in 1..(MaxId + 1)
    /\ pending \in 0..MaxId /\ dirty \in BOOLEAN /\ attempted \in BOOLEAN
    /\ edits \in 0..MaxEdits /\ visits \in 0..MaxVisits /\ bytes \in Nat

Retained == ToSet(undo) \cup {session} \cup ToSet(redo)

\* Every document of a session fits the others: wires and probes bind what exists, an
\* input has one owner, no identity is beyond its cursor, the probes and the component
\* are those of this workspace, the trigger's window fits its probe.
ValidWorkspace(ws) ==
    /\ \A n \in DOMAIN ws.nodes : n \in 1..MaxId /\ n < ws.nextNode
    /\ \A w \in DOMAIN ws.wires :
          /\ w \in 1..MaxId /\ w < ws.nextWire
          /\ {ws.wires[w].source, ws.wires[w].target} \subseteq DOMAIN ws.nodes
          /\ \A v \in DOMAIN ws.wires : ws.wires[v].target = ws.wires[w].target => v = w
    /\ Acyclic(ws)

ValidProbes(p, ws) ==
    /\ p.of = ws.digest
    /\ \A i \in DOMAIN p.probes :
          /\ i \in 1..MaxId /\ i < p.next
          /\ p.probes[i].source \in DOMAIN ws.nodes
          /\ \A j \in DOMAIN p.probes : p.probes[j].source = p.probes[i].source => j = i
    /\ TriggerFits(p)

ValidSession(s) ==
    /\ ValidWorkspace(s.workspace) /\ ValidProbes(s.probes, s.workspace)
    /\ s.component # NoComponent => s.component.of = s.workspace.digest
    /\ Size(s) <= MaxSessionBytes

\* Whatever undo, redo or a reload can bring back is a session whose parts belong
\* together (GraphAuthoringSessionDocument::try_new would admit it again).
RetainedAreValid ==
    /\ \A s \in Retained : ValidSession(s)
    /\ stored # NoSession => ValidSession(stored)

\* retained_bytes, kept by additions and subtractions, is what the two stacks hold, and
\* both bounds are kept.
BytesAreExact ==
    /\ bytes = Total(undo) + Total(redo) /\ bytes <= MaxBytes
    /\ Len(undo) <= MaxSnapshots /\ Len(redo) <= MaxSnapshots

\* Undo takes the cursors back, so an identity is given out again.  Yet of all the
\* sessions of one line that one can still navigate to, no two use one identity of a node
\* or a wire for different things.  A workspace from a file or a reset of the draft starts
\* another line in the same history, and there the code gives identities out anew; so it
\* does with those of probes, whose sidecar may be replaced by an empty one.
IdentitiesAreUnique ==
    \A s, t \in Retained : s.workspace.line = t.workspace.line =>
        /\ \A n \in DOMAIN s.workspace.nodes \cap DOMAIN t.workspace.nodes :
              s.workspace.nodes[n].made = t.workspace.nodes[n].made
        /\ \A w \in DOMAIN s.workspace.wires \cap DOMAIN t.workspace.wires :
              s.workspace.wires[w] = t.workspace.wires[w]

\* The half-made wire of the user starts at an output that exists.
PendingIsLive == pending # 0 => pending \in DOMAIN session.workspace.nodes

\* The page never believes saved what is not.
SavedIsStored == ~dirty => stored = session

\* Whatever undo, redo or a reload brings back fits together, the byte count of the
\* history is exact, and nothing unsaved is believed saved.
SessionIsWhole ==
    TypeOK /\ RetainedAreValid /\ BytesAreExact /\ PendingIsLive /\ SavedIsStored

\* After saving has failed, any change of the session (an edit of any of its documents, a
\* reset of the draft, undo, redo, a session from a file) is offered to the storage again.
ChangesAreOffered == [][session' # session => ~attempted' \/ Reload]_vars

\* The two stacks are one line of sessions with a place on it.
Line == INSTANCE Timeline
    WITH Weight <- Size, MaxEachWay <- MaxSnapshots, MaxWeight <- MaxBytes,
         timeline <- undo \o <<session>> \o Reverse(redo), at <- Len(undo) + 1
ImplementsTimeline == Line!Spec
=============================================================================
