--------------------------- MODULE MCHedgedFetch ---------------------------
EXTENDS HedgedFetch

CONSTANTS qa, qb, qc, sa, sb

\* Two fetches for the index and one for a request share the origins.
MCPool == [r \in Req |-> IF r = qc THEN "http" ELSE "background"]
============================================================================
