----------------------------- MODULE MCOtaTask -----------------------------
(* OtaTask for TLC: versions that a sum or a shorter string could confuse. *)
EXTENDS OtaTask

Rel(v, g) == [ver |-> v, good |-> g]
MCFactory  == Rel(<<1, 2, 0>>, TRUE)
MCReleases == {MCFactory, Rel(<<1, 1, 9>>, TRUE), Rel(<<2>>, TRUE), Rel(<<1, 10, 1>>, FALSE)}
=============================================================================
