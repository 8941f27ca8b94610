---------------------------- MODULE MCOutletTurns ----------------------------
(***************************************************************************)
(* OutletTurns on two small event graphs, one or the other in a behaviour. *)
(* Events are numbered: their numbers order their ids.                     *)
(***************************************************************************)
EXTENDS OutletTurns

VARIABLE graph

Node(k, a, r) == [kind |-> k, at |-> a, ref |-> r]

\* 1-4: a root before the baseline, its reply, and two edits of the reply in
\*      the same second.
\* 5-7: a reaction, the message it is on, and a topic; both are younger than it.
Nodes == <<
    Node("text", 0, 0), Node("text", 1, 1), Node("edit", 1, 2), Node("edit", 1, 2),
    Node("react", 1, 6), Node("text", 1, 0), Node("text", 2, 0) >>

Parts == [thread |-> 1 .. 4, topics |-> 5 .. 7]

MCSources == 1 .. Len(Nodes)
MCKind  == [e \in MCSources |-> Nodes[e].kind]
MCAt    == [e \in MCSources |-> Nodes[e].at]
MCRef   == [e \in MCSources |-> Nodes[e].ref]
MCEmoji == [e \in MCSources |-> 0]

\* The relay shows events of one graph only.
GraphInit == TurnsInit /\ graph \in DOMAIN Parts
GraphNext == TurnsNext /\ relay' \subseteq Parts[graph] /\ UNCHANGED graph
GraphSpec == /\ GraphInit /\ [][GraphNext]_<<turnVars, graph>>
             /\ WF_vars(Slice) /\ WF_vars(Tick) /\ WF_vars(LandCurrent)
=============================================================================
