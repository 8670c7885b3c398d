-------------------------- MODULE MCPartnerAwards --------------------------
EXTENDS PartnerAwards, TLC

CONSTANTS a, b, c1, c2

Symmetry == Permutations({c1, c2}) \cup Permutations({a, b})

OneQuoteBeforeTheTrip ==
  \/ trip = NoTrip /\ \A c \in Callers : call[c].step \notin TripSteps
  \/ /\ Cardinality({q \in QuoteIds : quotes[q].status # "NONE"}) = 1
     /\ \A c \in Callers : call[c].step \notin QuoteSteps
=============================================================================
