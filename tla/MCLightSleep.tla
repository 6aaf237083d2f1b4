----------------------------- MODULE MCLightSleep -----------------------------
\* A small instance of LightSleep for TLC.
EXTENDS LightSleep

\* A deadline too near for a nap, two that one nap reaches and one beyond MaxNap.
MCDelays == {1, 3, 4, 6}
==============================================================================
