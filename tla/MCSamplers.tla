------------------------------ MODULE MCSamplers ------------------------------
(* Instances of Samplers: one interface or the system readings, one request.    *)
EXTENDS Samplers

\* The temperature has to stay on its side for a while before an answer is judged.
MCHorizon == [netstats |-> 6, system |-> 8]
===============================================================================
