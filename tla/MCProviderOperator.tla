------------------------- MODULE MCProviderOperator -------------------------
EXTENDS ProviderOperator

\* v0.3.9, v0.3.10 and v0.4.0: v0.3.10 sorts before v0.3.9 by name.
V039 == <<0, 3, 9>>
V0310 == <<0, 3, 10>>
V040 == <<0, 4, 0>>

MCVersions == {V039, V0310, V040}
MCInitialCMs == {V039, V0310}
MCAdded == {V040}
MCSpecVersions == {V039}
MCNoneAdded == {}
=============================================================================
