---------------------------- MODULE MCPublication ----------------------------
(***************************************************************************)
(* Two entities, in windows that show one or both of them, some spans of   *)
(* which are late or have no time.                                         *)
(***************************************************************************)
EXTENDS Publication, TLC

CONSTANTS x, y

Seen(first, last, metadata) == [first |-> first, last |-> last, metadata |-> metadata]

\* Both entities, or one by spans that are late; in the last window one by
\* spans without times.
MCDiscovered ==
  [w \in 1..LastWindow |->
     IF w = LastWindow THEN {x :> Seen(None, None, "empty")}
     ELSE {x :> Seen(w, w, "plain") @@ y :> Seen(w, w, "rich"),
           x :> Seen(w - 1, w - 1, "empty")}]

\* A second window in which nothing was seen, but the union remembers.
MCProjections ==
  [w \in 1..LastWindow |->
     LET one == x :> Seen(w, w, "plain")
         both == one @@ y :> Seen(1, 1, "rich") IN
     IF w = 2 THEN {[raw |-> <<>>, stable |-> <<>>, union |-> both],
                    [raw |-> <<>>, stable |-> <<>>, union |-> <<>>]}
     ELSE {[raw |-> one, stable |-> one, union |-> both]}]
=============================================================================
