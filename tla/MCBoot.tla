------------------------------- MODULE MCBoot -------------------------------
EXTENDS Boot

CONSTANTS a, b, c

ReqChain == [n \in Service |-> IF n = b THEN {a} ELSE {}]
AllOnFailure == [n \in Service |-> "OnFailure"]
TwoLevels == <<Service \ {b}, {b}>>
NoneYet == {}
=============================================================================
