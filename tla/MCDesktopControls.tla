-------------------------- MODULE MCDesktopControls --------------------------
EXTENDS DesktopControls

CONSTANTS a, i3, l2

\* Settings of an earlier release, without preferences and with a cadence that
\* the page does not offer; default settings with a history length the user chose.
MCInstallations ==
  {[settings |-> [query |-> [text |-> a, focus |-> "attention"], interval |-> i3, paused |-> TRUE],
    durable |-> None, store |-> NoPrefs],
   [settings |-> [query |-> DefaultQuery, interval |-> DefaultInterval, paused |-> FALSE],
    durable |-> [DefaultPrefs EXCEPT !.history = l2], store |-> NoPrefs]}
=============================================================================
