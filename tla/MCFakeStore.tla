---------------------------- MODULE MCFakeStore -----------------------------
(* A small instance of FakeStore for TLC.                                   *)
EXTENDS FakeStore

CONSTANTS t1, t2, g1, g2

\* A single job, a batch of two, and a batch with an invalid request behind a valid one.
MCBatches == {<<"mail">>, <<"mail", "mail">>, <<"mail", Invalid>>}
=============================================================================
