---------------------------- MODULE MCGraphEditor ----------------------------
(* The graph editor and the simulation of what it edits.  They share nothing: a *)
(* behaviour either edits sessions or analyses and orders one graph.            *)
EXTENDS AuthoringSession, FiniteSetsExt, TLC

CONSTANTS
    Shapes, Wirings, MaxWitness     \* GraphSimulation

VARIABLES
    part,       \* what this behaviour is about
    wires, injected, phase, colour, parent, stack, witness,
    clock, queue, deferred, progressed, streams, available, order

\* A workspace from a file: two nodes, a wire, and no identity left for a node.
ForeignWorkspaces ==
    {[nodes |-> {1, 3}, nextNode |-> 4, nextWire |-> 2,
      wires |-> [w \in {1} |-> [source |-> 1, target |-> 3, made |-> 0]]]}

\* Two gates that may read each other, a source and a delay on one clock, a gate and a
\* sink on another, a transition in each direction; the second clock may be left unfed.
Shape(kind, inputs, from, to) == [kind |-> kind, inputs |-> inputs, from |-> from, to |-> to]
EditorShapes ==
    <<Shape("Source", 0, 1, 1), Shape("Combinational", 2, 1, 1), Shape("Combinational", 1, 1, 1),
      Shape("UnitDelay", 1, 1, 1), Shape("Transition", 1, 1, 2), Shape("Transition", 1, 2, 1),
      Shape("Combinational", 1, 2, 2), Shape("Sink", 1, 2, 2)>>
EditorWirable ==
    (<<2, 1>> :> {1, 3, 4, 6}) @@ (<<2, 2>> :> {1, 3, 4}) @@ (<<3, 1>> :> {1, 2, 4, 6})
    @@ (<<4, 1>> :> {2, 3}) @@ (<<5, 1>> :> {1, 2, 4}) @@ (<<6, 1>> :> {5, 7})
    @@ (<<7, 1>> :> {0, 5, 7}) @@ (<<8, 1>> :> {7})
\* All ways of wiring the inputs so.
EditorWirings ==
    LET Extend(i, fs) == {f @@ (i :> n) : f \in fs, n \in EditorWirable[i]}
    IN  FoldSet(Extend, {<<>>}, DOMAIN EditorWirable)

Graph == INSTANCE GraphSimulation WITH pending <- queue

ASSUME GraphAssumption == Graph!Assumption

simulator == <<wires, injected, phase, colour, parent, stack, witness,
               clock, queue, deferred, progressed, streams, available, order>>
\* What the variables of the simulation hold in a behaviour of the editor.
NoSimulator ==
    /\ wires = 0 /\ injected = {} /\ phase = "None" /\ colour = 0 /\ parent = 0
    /\ stack = <<>> /\ witness = <<>> /\ clock = 0 /\ queue = <<>> /\ deferred = <<>>
    /\ progressed = FALSE /\ streams = {} /\ available = {} /\ order = <<>>

EditorInit ==
    /\ Init
    /\ \/ part = "Authoring" /\ NoSimulator
       \/ part = "Simulation" /\ Graph!Init

Authoring_(A) == part = "Authoring" /\ A /\ UNCHANGED <<part, simulator>>
Simulation_(A) == part = "Simulation" /\ A /\ UNCHANGED <<part, vars>>

EditorNext == Authoring_(Next) \/ Simulation_(Graph!Next)
EditorSpec ==
    EditorInit /\ [][EditorNext]_<<part, vars, simulator>> /\ WF_<<part, vars, simulator>>(Simulation_(Graph!Next))

\* A graph is refused exactly when it has a cycle, and the witness shown is one.
GraphVerdictIsRight ==
    part = "Simulation" =>
        Graph!TypeOK /\ Graph!VerdictIsRight /\ Graph!WitnessIsCycle

\* What the analysis admits is ordered, every node after what it reads and each once, but
\* for a transition behind a clocked node.
GraphOrderIsRight ==
    part = "Simulation" =>
        Graph!OrderIsTopological /\ Graph!StuckOnlyOnTransitions

\* What the simulator refuses and what it computes, and in which order.
GraphIsRight == GraphVerdictIsRight /\ GraphOrderIsRight

\* The search and the passes end, whatever the graph.
GraphEnds == part = "Simulation" => Graph!Ends
=============================================================================
