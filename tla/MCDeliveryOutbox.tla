-------------------------- MODULE MCDeliveryOutbox --------------------------
EXTENDS DeliveryOutbox

\* A caption, then the upload of an artifact, then its send: PlanDelivery.
Chain == <<0, 1, 2>>
ChainBefore == <<{}, {1}, {1, 2}>>

\* An artifact without a caption.
Pair == <<0, 1>>
PairBefore == <<{}, {1}>>
=============================================================================
