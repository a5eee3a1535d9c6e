--------------------------------- MODULE Dag ---------------------------------
(***************************************************************************)
(* The dependency graph of a wave (runtime/dag_planner.py): build_graph    *)
(* takes the edges from the stories' prose, which may contradict itself,   *)
(* and _break_cycles drops one edge of a cycle until there is none.        *)
(* networkx finds the cycles in an order of its own.                       *)
(***************************************************************************)
EXTENDS Naturals, Sequences, FiniteSets, SequencesExt

CONSTANT Node  \* stories

VARIABLES declared, \* what the stories say they depend on
          depends, blocks  \* the edges of either kind that are in the graph

dagVars == <<declared, depends, blocks>>

Edge == {e \in Node \X Node : e[1] # e[2]}

\* An edge said both ways is a depends_on, in whatever order it is met.
DagInit ==
  /\ declared \in SUBSET Edge /\ depends = declared
  /\ blocks \in SUBSET (Edge \ declared)

\* The edges of the cycle through the nodes of c, each met once.
EdgesOf(c) == {<<c[i], c[(i % Len(c)) + 1]>> : i \in DOMAIN c}
Rings == {c \in SeqOf(Node, Cardinality(Node)) : c # <<>> /\ IsInjective(c)}
Cycles(es) == {c \in Rings : EdgesOf(c) \subseteq es}

\* Mutant: the first edge of the cycle, of whatever kind.
AnyVictim(c) == EdgesOf(c)

\* A blocks edge when the cycle has one, as it comes from the vaguer prose.
Victims(c) == IF EdgesOf(c) \cap blocks # {} THEN EdgesOf(c) \cap blocks ELSE EdgesOf(c)

Break ==
  \E c \in Cycles(depends \cup blocks) : \E e \in Victims(c) :
    /\ depends' = depends \ {e} /\ blocks' = blocks \ {e} /\ UNCHANGED declared

DagSpec == DagInit /\ [][Break]_dagVars

-----------------------------------------------------------------------------
\* A story waits for what it says it depends on, unless the declarations of
\* dependence, on their own, put that very edge on a cycle.
DependsKept ==
  \A e \in declared \ depends : \E c \in Cycles(declared) : e \in EdgesOf(c)

=============================================================================
