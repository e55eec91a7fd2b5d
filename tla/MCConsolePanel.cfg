\* A panel that is mounted again and again, two client sockets and two connections for it,
\* two subscriptions at once; enough streams for a new one beside the entry of either
\* connection.  The panels meet in getSocket only, where SendCommand is the other caller.
SPECIFICATION PanelSpec
CONSTANTS
  Sockets = {s1, s2}
  Keys = {console}
  Subscriptions = {h1, h2}
  Streams = {i1, i2, i3}
  Clients = {c1, c2}
  MaxOut = 4
  None = none
INVARIANTS PanelTypeOK StreamsReachable SilenceExplained IdleExplained
SYMMETRY Symmetry
CHECK_DEADLOCK FALSE
