----------------------------- MODULE MCSettings -----------------------------
EXTENDS Settings

\* A file removed, broken, reduced to its default, and with that of fish.
Broken == {Missing, Torn} \cup {[default |-> h, profiles |-> {}] : h \in Shells \ {AutoShell}}
=============================================================================
