--------------------------- MODULE MCSpotProvider ---------------------------
(***************************************************************************)
(* SpotProvider for TLC: four dates of two weekdays and three hours.       *)
(***************************************************************************)
EXTENDS SpotProvider

R(a, b) == [from |-> a, to |-> b]

Session(days, hours) == [days |-> days, hours |-> hours]

TimeBased(enabled, valid, offset, days, hours) ==
  [enabled |-> enabled, valid |-> valid, offset |-> offset,
   sessions |-> {Session(days, hours)}, holidays |-> {}, earlyCloses |-> <<>>]

CapitalMarkets(offset, sessions, holidays, earlyCloses) ==
  [enabled |-> TRUE, valid |-> TRUE, offset |-> offset,
   sessions |-> sessions, holidays |-> holidays, earlyCloses |-> earlyCloses]

\* One weekday, wrapped hours, half-hour zone; always and never active; switched off
\* and invalid; closing days that make a closure longer than the horizon; sessions
\* that overlap, and two early closes of one date.
ModelSpecs ==
  {TimeBased(TRUE, TRUE, 0, {R(0, 0)}, {R(2, 0)}),
   TimeBased(TRUE, TRUE, 1, {R(1, 0)}, {R(1, 1)}),
   TimeBased(TRUE, TRUE, 3, {R(0, 1)}, {R(0, 2)}),
   TimeBased(TRUE, TRUE, 0, {}, {R(0, 2)}),
   TimeBased(FALSE, FALSE, 0, {R(0, 1)}, {R(0, 1)}),
   TimeBased(TRUE, FALSE, 0, {R(0, 1)}, {R(0, 1)}),
   CapitalMarkets(1, {Session({R(0, 0)}, {R(0, 1)})}, {2}, <<>>),
   CapitalMarkets(2, {Session({R(0, 0)}, {R(1, 2)}), Session({R(0, 1)}, {R(2, 2)})}, {1},
                  <<[date |-> 0, hour |-> 1], [date |-> 0, hour |-> 0]>>)}

=============================================================================
