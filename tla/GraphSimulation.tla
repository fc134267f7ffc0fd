--------------------------- MODULE GraphSimulation ---------------------------
(***************************************************************************)
(* How a control graph is admitted and put in order for exact simulation.  *)
(*                                                                         *)
(* The analysis searches the graph of ports (an input feeds the outputs    *)
(* that depend on it, a wire feeds its target) depth first for a           *)
(* combinational cycle and reports one as a witness.  A graph without one, *)
(* all of whose required inputs are wired or injected, is simulated: the   *)
(* rate transitions first, by repeated passes, then the nodes of each      *)
(* clock, clock by clock, again by repeated passes over those whose inputs *)
(* are not available yet; unit delays are available from the start.        *)
(*                                                                         *)
(* A step is one turn of a loop of the code.  Values, rates and ticks are  *)
(* left out: what is modelled is what depends on what, and in which order. *)
(***************************************************************************)
EXTENDS Integers, Sequences, FiniteSets, FiniteSetsExt, SequencesExt

CONSTANTS
    Shapes,         \* the nodes, by identity: [kind, inputs, from, to], where "from" is the
                    \* clock of the inputs and "to" that of the output
    Wirings,        \* bound: the validated wirings looked at, for each input a node, or 0
    MaxWitness      \* links a cycle witness may have (maximum_cycle_witness_links)

Kinds == {"Source", "Transition", "Sink", "Combinational", "UnitDelay"}

VARIABLES
    wires,      \* what each input is wired to, or 0
    injected,   \* the unowned inputs the caller supplies samples for
    phase, colour, parent, stack, witness,      \* the analysis
    clock, pending, deferred, progressed,       \* the passes over one list of nodes
    streams, available, order                   \* what has been computed

search == <<colour, parent, stack, witness>>
passes == <<clock, pending, deferred, progressed, streams, available, order>>
vars == <<wires, injected, phase, search, passes>>

-----------------------------------------------------------------------------
(* The graph.                                                              *)

Nodes == DOMAIN Shapes
OfKind(kinds) == {n \in Nodes : Shapes[n].kind \in kinds}
Clocked == OfKind({"Combinational", "UnitDelay"})
Clocks == {Shapes[n].to : n \in Clocked}
InputsOf(n) == {<<n, p>> : p \in 1..Shapes[n].inputs}
Inputs == UNION {InputsOf(n) : n \in Nodes}
Output(n) == <<n, 3>>
Ports == Inputs \cup {Output(n) : n \in Nodes \ OfKind({"Sink"})}

\* The outputs an input may be wired to: those of its own clock.
Fitting(input) ==
    {n \in Nodes \ OfKind({"Sink"}) : Shapes[n].to = Shapes[input[1]].from}

\* What a validated document has.
Assumption ==
    /\ Shapes \in Seq([kind : Kinds, inputs : 0..2, from : Nat \ {0}, to : Nat \ {0}])
    /\ \A n \in DOMAIN Shapes :
          /\ Shapes[n].kind # "Transition" => Shapes[n].from = Shapes[n].to
          /\ Shapes[n].kind \in {"Transition", "UnitDelay", "Sink"} => Shapes[n].inputs = 1
          /\ Shapes[n].kind = "Source" => Shapes[n].inputs = 0
    /\ \A f \in Wirings :
          f \in [Inputs -> Nodes \cup {0}] /\ \A i \in Inputs : f[i] \in Fitting(i) \cup {0}
    /\ MaxWitness \in Nat \ {0}

\* Mutant: the output of a unit delay depends on its input in the same tick.
FeedsThroughDelay(a, b) ==
    \/ a \in DOMAIN wires /\ b = Output(a[1]) /\ Shapes[a[1]].kind # "Sink"
    \/ b \in DOMAIN wires /\ wires[b] # 0 /\ a = Output(wires[b])

\* Every output but that of a unit delay depends on the node's inputs.
Feeds(a, b) ==
    \/ a \in DOMAIN wires /\ b = Output(a[1]) /\ Shapes[a[1]].kind \notin {"UnitDelay", "Sink"}
    \/ b \in DOMAIN wires /\ wires[b] # 0 /\ a = Output(wires[b])

\* Ports in the order of their node and number, with places for those a node has not.
Places == 1..(3 * Len(Shapes))
PortAt(k) == <<((k - 1) \div 3) + 1, ((k - 1) % 3) + 1>>
PlacesOf(ports) == {k \in Places : PortAt(k) \in ports}
\* The places, from one on, of the ports that a port feeds.
FedFrom(a, place) == {k \in Places : k >= place /\ Feeds(a, PortAt(k))}

\* The stream an input reads: an output, or the samples injected at the input itself.
SourceOf(input) == IF wires[input] # 0 THEN Output(wires[input]) ELSE input
Unconnected == {i \in Inputs : wires[i] = 0}

InOrder(nodes) ==
    LET upTo[n \in 0..Len(Shapes)] ==
            IF n = 0 THEN <<>>
            ELSE IF n \in nodes THEN Append(upTo[n - 1], n) ELSE upTo[n - 1]
    IN  upTo[Len(Shapes)]

-----------------------------------------------------------------------------
(* The analysis: a depth-first search with an explicit stack.              *)

None == <<0, 0>>

Init ==
    /\ wires \in Wirings
    /\ injected \in {{}, Unconnected}
    /\ phase = "Analyse"
    /\ colour = [a \in Ports |-> "White"] /\ parent = [a \in Ports |-> None]
    /\ stack = <<>> /\ witness = <<>>
    /\ clock = 0 /\ pending = <<>> /\ deferred = <<>> /\ progressed = FALSE
    /\ streams = {} /\ available = {} /\ order = <<>>

Top == Last(stack)
White == {a \in Ports : colour[a] = "White"}

SearchStart ==
    /\ phase = "Analyse" /\ stack = <<>>
    /\ \E place \in PlacesOf(White) :
          /\ \A k \in PlacesOf(White) : place <= k
          /\ colour' = [colour EXCEPT ![PortAt(place)] = "Grey"]
          /\ stack' = <<[port |-> PortAt(place), next |-> 1]>>
    /\ UNCHANGED <<wires, injected, phase, parent, witness, passes>>

SearchPop ==
    /\ phase = "Analyse" /\ stack # <<>>
    /\ FedFrom(Top.port, Top.next) = {}
    /\ colour' = [colour EXCEPT ![Top.port] = "Black"]
    /\ stack' = Front(stack)
    /\ UNCHANGED <<wires, injected, phase, parent, witness, passes>>

\* The ports from "last" back to "first", along the parents.
Back(first, last) ==
    LET cursor[i \in {0} \cup Places] ==
            IF i = 0 THEN last
            ELSE IF cursor[i - 1] \in {None, first} THEN None ELSE parent[cursor[i - 1]]
        length == CHOOSE i \in DOMAIN cursor : cursor[i] = first
    IN [i \in 1..(length + 1) |-> cursor[length + 1 - i]]

\* The next port that the port on top feeds.
SearchEdge ==
    /\ phase = "Analyse" /\ stack # <<>>
    /\ \E place \in FedFrom(Top.port, Top.next) :
       /\ \A k \in FedFrom(Top.port, Top.next) : place <= k
       /\ LET target == PortAt(place)
              advanced == [stack EXCEPT ![Len(stack)].next = place + 1]
          IN
          \/ /\ colour[target] = "White"
             /\ colour' = [colour EXCEPT ![target] = "Grey"]
             /\ parent' = [parent EXCEPT ![target] = Top.port]
             /\ stack' = Append(advanced, [port |-> target, next |-> 1])
             /\ UNCHANGED <<phase, witness>>
          \/ /\ colour[target] = "Grey"
             /\ LET links == Back(target, Top.port) IN
                IF Len(links) > MaxWitness
                THEN phase' = "LimitExceeded" /\ witness' = <<>>
                ELSE phase' = "Cyclic" /\ witness' = links
             /\ stack' = advanced
             /\ UNCHANGED <<colour, parent>>
          \/ /\ colour[target] = "Black"
             /\ stack' = advanced
             /\ UNCHANGED <<phase, colour, parent, witness>>
    /\ UNCHANGED <<wires, injected, passes>>

-----------------------------------------------------------------------------
(* The passes of the simulation.                                           *)

\* No cycle: a graph with a required input neither wired nor supplied is refused, and
\* the others begin with the streams that come from outside.
SearchEnd ==
    /\ phase = "Analyse" /\ stack = <<>> /\ White = {}
    /\ IF Unconnected \subseteq injected
       THEN /\ phase' = "Transitions"
            /\ streams' = {Output(n) : n \in OfKind({"Source"})} \cup injected
            /\ pending' = InOrder(OfKind({"Transition"}))
       ELSE /\ phase' = "Incomplete"
            /\ UNCHANGED <<streams, pending>>
    /\ UNCHANGED <<wires, injected, search, clock, deferred, progressed, available, order>>

Ready(n, from) == \A i \in InputsOf(n) : SourceOf(i) \in from

\* A transition whose source stream exists is computed; another waits for the next pass.
PassTransition ==
    /\ phase = "Transitions" /\ pending # <<>>
    /\ LET n == Head(pending) IN
       IF Ready(n, streams)
       THEN /\ streams' = streams \cup {Output(n)} /\ progressed' = TRUE
            /\ UNCHANGED deferred
       ELSE /\ deferred' = Append(deferred, n)
            /\ UNCHANGED <<streams, progressed>>
    /\ pending' = Tail(pending)
    /\ UNCHANGED <<wires, injected, phase, search, clock, available, order>>

PassClocked ==
    /\ phase = "Groups" /\ pending # <<>>
    /\ LET n == Head(pending) IN
       IF Ready(n, available)
       THEN /\ available' = available \cup {Output(n)} /\ order' = Append(order, n)
            /\ progressed' = TRUE
            /\ UNCHANGED deferred
       ELSE /\ deferred' = Append(deferred, n)
            /\ UNCHANGED <<available, order, progressed>>
    /\ pending' = Tail(pending)
    /\ UNCHANGED <<wires, injected, phase, search, clock, streams>>

\* Mutant: a pass without progress is followed by another.
PassAgainAlways ==
    /\ phase \in {"Transitions", "Groups"} /\ pending = <<>> /\ deferred # <<>>
    /\ pending' = deferred /\ deferred' = <<>>
    /\ UNCHANGED <<wires, injected, phase, search, clock, progressed, streams, available, order>>

\* Another pass over what was deferred, or none of it can ever be computed.
PassAgain ==
    /\ phase \in {"Transitions", "Groups"} /\ pending = <<>> /\ deferred # <<>>
    /\ IF progressed THEN pending' = deferred /\ deferred' = <<>> /\ UNCHANGED phase
       ELSE phase' = "Unavailable" /\ UNCHANGED <<pending, deferred>>
    /\ progressed' = FALSE
    /\ UNCHANGED <<wires, injected, search, clock, streams, available, order>>

InGroup(c) == {n \in Clocked : Shapes[n].to = c}

\* The next clock: delays are read before they are written, so available at once.
OpenGroup(computed) ==
    LET left == {c \in Clocks : c > clock} IN
    IF left = {}
    THEN /\ phase' = IF \A n \in OfKind({"Sink"}) : Ready(n, computed) THEN "Done" ELSE "Unavailable"
         /\ UNCHANGED <<clock, pending, available>>
    ELSE /\ phase' = "Groups" /\ clock' = Min(left)
         /\ pending' = InOrder(InGroup(Min(left)) \ OfKind({"UnitDelay"}))
         /\ available' = computed \cup {Output(n) : n \in InGroup(Min(left)) \cap OfKind({"UnitDelay"})}

TransitionsEnd ==
    /\ phase = "Transitions" /\ pending = <<>> /\ deferred = <<>>
    /\ OpenGroup(streams)
    /\ progressed' = FALSE
    /\ UNCHANGED <<wires, injected, search, deferred, streams, order>>

\* Every input of the group that the group does not feed must be a stream by now.
GroupEnd ==
    /\ phase = "Groups" /\ pending = <<>> /\ deferred = <<>>
    /\ LET computed == streams \cup {Output(n) : n \in InGroup(clock)} IN
       IF \A n \in InGroup(clock) : Ready(n, computed)
       THEN streams' = computed /\ OpenGroup(computed)
       ELSE phase' = "Unavailable" /\ UNCHANGED <<streams, clock, pending, available>>
    /\ progressed' = FALSE
    /\ UNCHANGED <<wires, injected, search, deferred, order>>

Next ==
    \/ SearchStart \/ SearchPop \/ SearchEdge \/ SearchEnd
    \/ PassTransition \/ PassClocked \/ PassAgain \/ TransitionsEnd \/ GroupEnd

Spec == Init /\ [][Next]_vars /\ WF_vars(Next)

-----------------------------------------------------------------------------
(* Properties.                                                             *)

TypeOK ==
    /\ wires \in [Inputs -> Nodes \cup {0}] /\ injected \subseteq Inputs
    /\ phase \in {"Analyse", "Cyclic", "LimitExceeded", "Incomplete", "Transitions", "Groups",
                  "Done", "Unavailable"}
    /\ colour \in [Ports -> {"White", "Grey", "Black"}]
    /\ parent \in [Ports -> Ports \cup {None}]
    /\ stack \in Seq([port : Ports, next : 1..(3 * Len(Shapes) + 1)])
    /\ witness \in Seq(Ports)
    /\ clock \in Clocks \cup {0} /\ progressed \in BOOLEAN
    /\ pending \in Seq(Nodes) /\ deferred \in Seq(Nodes) /\ order \in Seq(Nodes)
    /\ streams \subseteq Ports /\ available \subseteq Ports

\* A graph has a combinational cycle when each of some nodes reads, in the same tick,
\* another of them.
HasCycle ==
    \E nodes \in SUBSET (Nodes \ OfKind({"UnitDelay"})) :
        /\ nodes # {}
        /\ \A n \in nodes : Shapes[n].kind # "Sink" /\ \E i \in InputsOf(n) : wires[i] \in nodes

\* The search of find_cycle is right both ways: it refuses a graph exactly when ports
\* feed each other in a circle, whatever the order in which it meets them.
VerdictIsRight ==
    /\ phase \in {"Cyclic", "LimitExceeded"} => HasCycle
    /\ phase \in {"Incomplete", "Done", "Unavailable"} => ~HasCycle

\* The witness shown to the user is a simple cycle of the graph, no longer than the
\* limit, although it is read from parents that were set at different times.
WitnessIsCycle ==
    phase = "Cyclic" =>
        /\ Len(witness) \in 1..MaxWitness
        /\ IsInjective(witness)
        /\ \A i \in 1..(Len(witness) - 1) : Feeds(witness[i], witness[i + 1])
        /\ Feeds(Last(witness), Head(witness))

\* The transitions that read, at once or through others, what a clocked node computes: the
\* one such set, in a graph without cycles.
BehindClocked ==
    CHOOSE nodes \in SUBSET OfKind({"Transition"}) :
        nodes = {n \in OfKind({"Transition"}) :
                    \E i \in InputsOf(n) : wires[i] \in Clocked \cup nodes}

\* What the analysis admits the simulator can order, with one exception: a transition
\* behind a clocked node.  No clocked group is ever stuck, although its nodes are taken
\* clock by clock.
StuckOnlyOnTransitions ==
    /\ phase = "Done" => BehindClocked = {}
    /\ phase = "Unavailable" => deferred # <<>> /\ Head(deferred) \in BehindClocked

\* Every node is evaluated after the nodes it reads in the same tick, and each once.
OrderIsTopological ==
    /\ IsInjective(order)
    /\ \A k \in 1..Len(order), i \in Inputs :
          /\ i \in InputsOf(order[k])
          /\ wires[i] # 0 /\ Shapes[wires[i]].kind = "Combinational"
          => \E j \in 1..(k - 1) : order[j] = wires[i]
    /\ phase = "Done" => ToSet(order) = OfKind({"Combinational"})

\* The search and the passes end, whatever the graph.
Ends == <>(phase \in {"Cyclic", "LimitExceeded", "Incomplete", "Done", "Unavailable"})
=============================================================================
