--------------------------- MODULE MCBroadcaster ---------------------------
(* Small instances of Broadcaster.  e is a row subscriber, w a table one.  *)
EXTENDS Broadcaster

CONSTANTS e, w

\* The row subscriber: a transaction of two changes that hits it with the second,
\* one that is too large, one that is filtered away.
Shape(h, f) == [hits |-> h, fate |-> [s \in Subs |-> f]]
ShapesOne ==
  { Shape(<<{}, {e}>>, "frame"), Shape(<<{e}>>, "large"),
    Shape(<<{e}>>, "silent") }

\* The table subscriber: frames only.
ShapesFrame == { Shape(<<{}, {w}>>, "frame") }
=============================================================================
