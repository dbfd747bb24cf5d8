----------------------------- MODULE MCShortLinks ------------------------------
(* Instances of ShortLinks for TLC.                                        *)
EXTENDS ShortLinks

CONSTANTS q1, q2, q3, c1, c2, u1, u2, ftp

ThreeRequests == {q1, q2, q3}
TwoCodes == {c1, c2}
TwoUrls == {u1, u2, ftp}
NotHttp == {ftp}
================================================================================
