---------------------------- MODULE BookRefinement ----------------------------
(***************************************************************************)
(* OrderBook implements AbstractBook: the orders in the queues of its      *)
(* levels are the open ones, and the argument of a running add_order is    *)
(* the taker.                                                              *)
(***************************************************************************)
EXTENDS OrderBook

Abstract == INSTANCE AbstractBook WITH open <- Resting, taker <- order, arrived <- arrivals

\* What the levels, the queues and the lookup are for.  Every round of the
\* matching loop trades with the order whose turn it is and takes that order,
\* and no other, off the book when it is filled; a call of cancel_order removes
\* one order, or none; add_order returns when nothing is left to match.
KeepsThePromise == Abstract!Spec
===============================================================================
