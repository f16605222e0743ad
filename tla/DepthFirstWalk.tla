----------------------------- MODULE DepthFirstWalk -----------------------------
(***************************************************************************)
(* What discovery promises, without frames, timers or tables: a depth-first*)
(* walk of the wiring that always takes the lowest edge leading to a panel *)
(* not visited yet, and turns back only when there is none.                *)
(* Discovery implements it (Discovery!ImplementsDepthFirstWalk).           *)
(***************************************************************************)
EXTENDS Integers, Sequences

CONSTANTS
    Panels, Controller, Edge,
    Port          \* the pairs <<node, edge>> that a wire may join

VARIABLES
    peer,         \* peer[q]: the port wired to q, something else if none is
    order,        \* the panels in the order they were visited
    path,         \* the walk's way back: from the first panel to the current one
    finished

walkVars == <<peer, order, path, finished>>

Visited == {order[k] : k \in 1 .. Len(order)}
Current == IF path = <<>> THEN Controller ELSE path[Len(path)]

\* The current node's edges that lead to a panel not visited yet.
Leads == {e \in Edge : <<Current, e>> \in Port /\
              \E p \in Panels \ Visited, d \in Edge : peer[<<Current, e>>] = <<p, d>>}

WalkInit == order = <<>> /\ path = <<>> /\ finished = FALSE

Descend ==
    /\ ~finished
    /\ path = <<>> => order = <<>>
    /\ \E e \in Leads :
        /\ \A d \in Leads : e <= d
        /\ order' = Append(order, peer[<<Current, e>>][1])
        /\ path' = Append(path, peer[<<Current, e>>][1])
    /\ UNCHANGED <<peer, finished>>

TurnBack ==
    /\ Len(path) > 1 /\ Leads = {}
    /\ path' = SubSeq(path, 1, Len(path) - 1)
    /\ UNCHANGED <<peer, order, finished>>

\* Back at the controller, or no panel there to begin with.
Finish ==
    /\ ~finished
    /\ Leads = {} /\ Len(path) <= 1
    /\ path' = <<>> /\ finished' = TRUE
    /\ UNCHANGED <<peer, order>>

WalkNext == Descend \/ TurnBack \/ Finish

WalkSafe == WalkInit /\ [][WalkNext]_walkVars
WalkSpec == WalkSafe /\ WF_walkVars(WalkNext)

=============================================================================
