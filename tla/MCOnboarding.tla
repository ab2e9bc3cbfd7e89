---------------------------- MODULE MCOnboarding ----------------------------
(* Instances of Onboarding for TLC.                                        *)
EXTENDS Onboarding, TLC

Send(route, key, brn) == [route |-> route, key |-> key, brn |-> brn]

CONSTANTS k1, k2, b1

\* One key with two bodies, a second key, and requests without a key.
MCInputs ==
  {Send("me", None, None), Send("create", k1, b1), Send("create", k1, None),
   Send("create", k2, b1), Send("create", None, b1), Send("list", None, None)}
\* A browser that logs in.
MCLogin == {Send("me", None, None), Send("list", None, None)}

MCSymmetry == Permutations(Requests)
=============================================================================
