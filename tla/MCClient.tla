------------------------------ MODULE MCClient ------------------------------
(***************************************************************************)
(* Small instances of Client: one name that can be asked for and one that  *)
(* has too long a label, packets of no, one and two answers.               *)
(***************************************************************************)
EXTENDS Client

CONSTANTS r1, r2

MCLabels == {"", "local", "localhost", "umdns", "_services", "_dns-sd", "_udp", "long", "box"}
MCLabelLen == [l \in MCLabels |-> IF l = "long" THEN 64 ELSE IF l = "" THEN 0 ELSE 5]
MCFold == [l \in MCLabels |-> l]
MCTexts == {""}
MCAddresses == {"0.0.0.0", "::"}

MCResults == {r1, r2}
MCTargets == {<<"box">>, <<"long">>}
SomeDatagrams == {<< >>, <<r1>>, <<r2, r1>>}
OneDatagram == {<<r1>>}
OneTarget == {<<"box">>}
=============================================================================
