----------------------------- MODULE MCAlertStream -----------------------------
(***************************************************************************)
(* Instance of AlertStream for TLC: one alert (the application seeds one), *)
(* two clients on one or two processes, two pieces of feedback out of three*)
(* (one of them sent with another UTC offset, one earlier than another),   *)
(* one failure.                                                            *)
(***************************************************************************)
EXTENDS AlertStream

CONSTANTS a1, c1, c2, p1, p2

Sent(kind, at, text) == [alert |-> a1, kind |-> kind, at |-> at, text |-> text]

MCFeedbacks ==
    { Sent("ACKNOWLEDGED", 2, 2), Sent("DISMISSED", 1, 1),
      Sent("FALSE_POSITIVE", 1, 3) }

MCLayouts == {[c \in {c1, c2} |-> p1], [c \in {c1, c2} |-> IF c = c1 THEN p1 ELSE p2]}

=============================================================================
