----------------------------- MODULE MCCollector -----------------------------
(***************************************************************************)
(* Instance of Collector for TLC: two sources, six event identities (enough*)
(* to stream, lose the connection and stream again), five instants, the    *)
(* last after an early close of the session.                               *)
(***************************************************************************)
EXTENDS Collector

CONSTANTS MaxTime

MCTimes == 0..MaxTime

Good(s, t, price) ==
    [source |-> s, instrument |-> "SPX", src |-> t, recv |-> t, delayed |-> FALSE,
     entitlement |-> "VERIFIED", bid |-> price, ask |-> price + 1,
     bid_size |-> 1, ask_size |-> 1, stamps |-> [f \in Fields |-> t]]

\* Fresh quotes of both sources, a late one, and one that disagrees.
MCObservationsAt(t) ==
    {Good("a", t, 10), Good("b", t, 10), Good("b", t - 1, 10), Good("a", t, 20)}

MCCapabilities ==
    {[configured |-> TRUE, verified |-> TRUE, production_ready |-> TRUE, green |-> g] :
       g \in BOOLEAN}

\* Day 2 is a Wednesday that closes at 13:00.
MCCalendars == {[from |-> 0, through |-> 4, holidays |-> {1}, early |-> [d \in {2} |-> 780]]}

MCLocalTime(t) == <<2, 777 + t>>
=============================================================================
