---------------------------- MODULE MCDeployment ----------------------------
(* Instances of Fleet for TLC: two rollouts, on the same endpoints or      *)
(* on none; a stage reports nothing, one success of maybe two, or          *)
(* exactly half failures.  Two endpoints move between two groups, three    *)
(* commands are issued, and one policy has up to four versions.            *)
EXTENDS Fleet, TLC

CONSTANTS e1, e2
Lists    == {<<>>, <<e1, e2>>}
Reported == {<<0, 0>>, <<1, 0>>, <<1, 1>>}
Targeted == {{}, {1}}
Symmetry == Permutations(Versions)
=============================================================================
