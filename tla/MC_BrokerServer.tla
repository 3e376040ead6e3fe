-------------------------- MODULE MC_BrokerServer --------------------------
(* Two clients; a socket that holds one piece, so that every reply needs    *)
(* several sends and every line several reads.  In the safety run client a  *)
(* pipelines two requests and waits while client b may hang up; in the      *)
(* liveness run each has one request, a may hang up, and b may stop writing *)
(* and never reads.                                                         *)
EXTENDS BrokerServer

CONSTANTS a, b

SafetyScripts == [c \in Conns |->
    IF c = a THEN {<<"unknown", "ping">>, <<"garbled">>, <<"array">>}
             ELSE {<<"channel">>}]

LivenessScripts == [c \in Conns |->
    IF c = a THEN {<<"ping">>, <<"garbled">>, <<"array">>} ELSE {<<"channel">>}]
=============================================================================
