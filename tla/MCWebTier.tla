------------------------------- MODULE MCWebTier -------------------------------
\* Browsers and console operations of WebTier for TLC.
EXTENDS WebTier

CONSTANTS c1, a1, a2
====
