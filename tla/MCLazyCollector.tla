--------------------------- MODULE MCLazyCollector ----------------------------
(* Instances of LazyCollector: each of the three collectors, a few requests.    *)
EXTENDS LazyCollector
===============================================================================
