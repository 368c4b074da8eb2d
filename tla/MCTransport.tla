----------------------------- MODULE MCTransport -----------------------------
(* Small instances of Transport for TLC.                                    *)
EXTENDS Transport

\* One Retry-After below and one above MaxBackoff, and a negative one.
MCRetryAfters == {-1, 2, 9}
=============================================================================
