--------------------------------- MODULE Dag ---------------------------------
(***************************************************************************)
(* The NF graph of a user: controller/dag.go and controller/flowlet.go.    *)
(* NFs are numbered from 1 in the order they are added, next[i] lists the  *)
(* successors of i in the order they were connected, prevNFs is what next  *)
(* says backwards.  A DAG's SGroups are a set: what is taken from them is  *)
(* chosen by load.                                                         *)
(***************************************************************************)
EXTENDS Naturals, Sequences, FiniteSets

Wildcard == 0   \* the wildcard of a flowlet's fields

newDAG == [next |-> <<>>, flowlets |-> {}, chains |-> <<>>,
           sgroups |-> {}, isActive |-> FALSE]

NFs(dag) == DOMAIN dag.next

addNF(dag) == [dag EXCEPT !.next = Append(@, <<>>)]

\* Both ids exist.  An id that is just one too large passes the check of the
\* code, which then dereferences nil: the process ends.
connectNFs(dag, up, down) == [dag EXCEPT !.next[up] = Append(@, down)]

addFlow(dag, flowlet) == [dag EXCEPT !.flowlets = @ \cup {flowlet}]

\* The protocol is not compared, here or in the code.
FlowletMatch(flowlet, flow) ==
    \A field \in {"src", "dstPort"} : flowlet[field] \in {Wildcard, flow[field]}

Match(dag, flow) == \E flowlet \in dag.flowlets : FlowletMatch(flowlet, flow)

\* NFs nothing leads to.
Ingresses(dag) == {i \in NFs(dag) : \A j \in NFs(dag) : \A k \in DOMAIN dag.next[j] :
                                      dag.next[j][k] # i}

\* Activate refuses a graph without a single ingress.
HasIngress(dag) == Cardinality(Ingresses(dag)) = 1

\* Activate walks from the ingress along the first successors.
Successors(dag) == dag.next[dag.chains[Len(dag.chains)]]

\* The NF the loop comes to.
Curr(dag, nf) ==
    IF dag.chains = <<>> THEN nf \in Ingresses(dag)
    ELSE Successors(dag) # <<>> /\ nf = Successors(dag)[1]

AppendNF(dag, nf) == [dag EXCEPT !.chains = Append(@, nf)]

\* The loop ends at an NF without successors, or goes round a cycle for ever.
WalkEnds(dag) == dag.chains # <<>> /\ Successors(dag) = <<>>
=============================================================================
