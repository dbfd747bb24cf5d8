----------------------------- MODULE LinkDirectory -----------------------------
(***************************************************************************)
(* What the urlshortener-service and the redirect-service promise about    *)
(* codes, without requests, attempts or failures: a code is given to one   *)
(* URL, once and for good, and whoever asks for it is sent there.          *)
(*                                                                         *)
(* ShortLinks implements this specification.                               *)
(***************************************************************************)
CONSTANTS Code,       \* the short codes
          Url,        \* the URLs links point to
          NotFound    \* the answer for a code no link has

VARIABLES target,     \* where each code points, NotFound while it is free
          answers     \* every <<code, answer>> a visitor got so far

directoryVars == <<target, answers>>

Init ==
    /\ target = [c \in Code |-> NotFound]
    /\ answers = {}

Assign(c, u) ==
    /\ target[c] = NotFound
    /\ target' = [target EXCEPT ![c] = u]
    /\ UNCHANGED answers

Answer(c) ==
    /\ answers' = answers \cup {<<c, target[c]>>}
    /\ UNCHANGED target

Next ==
    \E c \in Code : Answer(c) \/ \E u \in Url : Assign(c, u)

Spec == Init /\ [][Next]_directoryVars
================================================================================
