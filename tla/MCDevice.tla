------------------------------ MODULE MCDevice -------------------------------
(* A board for each entity, with and without mono_dac and restore_value, and    *)
(* configurations at the edges of the limits that validation orders; two access *)
(* points; a server with a stream that carries metadata and one that does not;  *)
(* trims that can be represented and that must be dithered.                     *)
EXTENDS Device

CONSTANTS house, annex, speaker, mic, radio, process

Plain ==
  [interval |-> 250000, deadband |-> 128, fine |-> 2000, hard |-> 50000, hold |-> None,
   idle |-> 3000000, delay |-> 0, align |-> 0, splice |-> 0, buffer |-> 524288, port |-> 1704,
   server |-> None, channel |-> "stereo", phase |-> "none", pause |-> "allow",
   resilience |-> "mute_on_storm", flac |-> TRUE, opus |-> FALSE, tsf |-> FALSE,
   observer |-> FALSE, diagnostics |-> FALSE, reanchor |-> FALSE, variant |-> "s3", bus |-> None, buses |-> <<mic, speaker>>, pdm |-> None,
   kind |-> "none", mono |-> FALSE, restore |-> TRUE, param |-> None]

\* At the edges of the ranges and of each other.
Edges ==
  {[Plain EXCEPT !.deadband = d, !.fine = f, !.hard = h] :
      d \in {100, 10000, 20000}, f \in {200, 201, 20001, 40001, 50000},
      h \in {9000, 10000, 10500, 20000, 40000, 50000}}

Selects ==
  {[Plain EXCEPT !.kind = "channel", !.mono = m, !.restore = r, !.channel = c] :
      m \in BOOLEAN, r \in BOOLEAN, c \in {"stereo", "right", "mono"}}
    \union {[Plain EXCEPT !.kind = "phase", !.mono = m, !.restore = r, !.phase = p] :
      m \in BOOLEAN, r \in BOOLEAN, p \in {"none", "right", "both"}}
    \union {[Plain EXCEPT !.kind = "pause", !.pause = p] : p \in {"allow", "ignore"}}
    \union {[Plain EXCEPT !.kind = "resilience", !.resilience = p] : p \in {"mute_on_storm", "never_mute"}}

Pickers ==
  {[Plain EXCEPT !.kind = "server", !.restore = r, !.server = s] : r \in BOOLEAN, s \in {None, house}}

Knobs ==
  {[Plain EXCEPT !.kind = "tunable", !.param = p] : p \in Tunables}
    \union {[Plain EXCEPT !.kind = "crystal", !.bus = b, !.variant = v, !.pdm = m] :
              b \in {None, speaker}, v \in {"s3", "other"}, m \in {None, mic}}

MCBoards == Edges \union Selects \union Pickers \union Knobs

\* Inside and outside of what each knob offers and each parameter takes.
MCValues == {-7, 0, 1, 5, 40, 300, 3000}
MCCrystals == {-4, -3, -1, 1, 2, 4}

\* Of thirtieths: 0, 6 and 25 are fractions with a denominator of up to 7.
MCTargets == {0, 1, 4, 6, 7, 11, 17, 25}
==============================================================================
