------------------------------ MODULE MCCesar ------------------------------
EXTENDS Cesar

CONSTANTS a, b

ReqNone == [n \in Service |-> {}]
ReqChain == [n \in Service |-> IF n = a THEN {} ELSE {a}]
AllNever == [n \in Service |-> "Never"]
AllOnFailure == [n \in Service |-> "OnFailure"]
Mixed == [n \in Service |-> IF n = a THEN "Always" ELSE "OnFailure"]
OnlyB == [n \in Service |-> IF n = a THEN "Never" ELSE "OnFailure"]
AllUp == {Service}
DownOrUp == {{}, Service}
=============================================================================
