---------------------------- MODULE MCSystemManager ----------------------------
EXTENDS SystemManager

CONSTANTS n1, n2, p1, p2, dirSettings, dirData

MCNetworks == {n1, n2}
MCPreferences == {p1, p2}
OnePreference == {p1}
MCResetPaths == {dirSettings, dirData}
MCDefaults == [network |-> n1, preferences |-> p1]
MCInitial == [network |-> n2, preferences |-> p1]
=============================================================================
