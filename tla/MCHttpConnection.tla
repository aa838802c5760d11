---------------------------- MODULE MCHttpConnection ---------------------------
(* A small instance of HttpConnection for TLC. *)
EXTENDS HttpConnection

CONSTANTS m1, m2, s1

\* What a server offers: all three, or long polling and event sources alone.
AllOffers == {<<"ws", "sse", "lp">>, <<"sse">>, <<"lp">>}

TwoSlots == 1 .. 2
================================================================================
