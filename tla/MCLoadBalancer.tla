---------------------------- MODULE MCLoadBalancer ----------------------------
\* Connections of LoadBalancer for TLC.
EXTENDS LoadBalancer

CONSTANTS c1, c2, c3
====
