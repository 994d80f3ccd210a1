----------------------------- MODULE NodeClaims -----------------------------
\* What the repository says of service control and the code does not do.
EXTENDS NodeServices

\* systemd.py:241 "Preserve services that were already running before this
\* command; only unwind start requests recorded in ``started``", README.md:193
\* "Units that were already running before the command are not stopped", of a
\* command that meets no other command.
CleanupPreserves ==
  [][\A o \in alone : op[o] # "stop" /\ pc[o] \in {"unwind", "await"} =>
       \A u \in Units \ Recorded(o) :
         ~(unit[u] = "active" /\ unit'[u] = "deactivating")]_vars
=============================================================================
