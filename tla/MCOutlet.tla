------------------------------- MODULE MCOutlet -------------------------------
(***************************************************************************)
(* OutletDelivery on two small event graphs, one or the other in a         *)
(* behaviour.  Events are numbered: their numbers order their ids.         *)
(***************************************************************************)
EXTENDS OutletDelivery

VARIABLE graph

Node(k, a, r, i) == [kind |-> k, at |-> a, ref |-> r, emoji |-> i]

\* 1-3: a root before the baseline, its reply, and a later topic.
\* 4-7: a message, a progress reaction, its withdrawal and a later reaction.
Nodes == <<
    Node("text", 0, 0, 0), Node("text", 1, 1, 0), Node("text", 3, 0, 0),
    Node("text", 1, 0, 0), Node("react", 1, 4, 1), Node("withdraw", 2, 5, 0), Node("react", 3, 4, 2) >>

Parts == [replies |-> 1 .. 3, reactions |-> 4 .. 7]

MCSources == 1 .. Len(Nodes)
MCKind  == [e \in MCSources |-> Nodes[e].kind]
MCAt    == [e \in MCSources |-> Nodes[e].at]
MCRef   == [e \in MCSources |-> Nodes[e].ref]
MCEmoji == [e \in MCSources |-> Nodes[e].emoji]
MCTransient == {e \in MCSources : MCEmoji[e] = 1}

\* The relay shows events of one graph only.
GraphInit == Init /\ graph \in DOMAIN Parts
GraphNext == Next /\ relay' \subseteq Parts[graph] /\ UNCHANGED graph
GraphSpec == GraphInit /\ [][GraphNext]_<<vars, graph>>
=============================================================================
