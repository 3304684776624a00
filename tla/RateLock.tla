------------------------------ MODULE RateLock -------------------------------
(* The fraction of the I2S clock divider (frac_select.h, rate_lock.cpp): the    *)
(* two representable fractions around the one a trim asks for, the fields of    *)
(* the register they are written in, and the ticks that alternate between them. *)
(* A target is a fraction of Grid; the driver's baseline it is measured from,   *)
(* and the clamp of the trim, are left out.                                     *)
EXTENDS Integers

CONSTANTS
  MaxDen,      \* FRAC_MAX_DENOMINATOR
  Field,       \* values of a nine-bit field
  Quantum,     \* the ticks of a whole duty, 65536
  Grid,        \* bound: denominator of the targets
  Targets      \* the numerators: what trims ask for

ASSUME RateLockAssumption ==
  /\ MaxDen \in Nat /\ Field \in Nat /\ 2 <= MaxDen /\ MaxDen < Field
  /\ Quantum \in Nat \ {0} /\ Grid \in Nat \ {0}
  /\ Targets \subseteq {n \in 0..Grid : n * MaxDen <= Grid * (MaxDen - 1)}

VARIABLES
  dither,      \* dither_on_, and the bracket: target, lo, hi, dither_duty_
  register,    \* the fields in tx_clkm_div_conf
  acc,         \* sd_acc_
  owed         \* history: Quantum-ths of a hi tick asked for, less those given

lockVars == <<dither, register, acc, owed>>

------------------------------------------------------------------------------
\* encode_frac and decode_frac.
Smaller(b, a) == IF 2 * b > a THEN a - b ELSE b

Encode(b, a) ==
  IF b = 0 THEN [z |-> 0, y |-> 0, x |-> 0, yn1 |-> FALSE]
  ELSE [z |-> Smaller(b, a) % Field, y |-> (a % Smaller(b, a)) % Field,
        x |-> (a \div Smaller(b, a) - 1) % Field, yn1 |-> 2 * b > a]

\* Mutant: the complement is not undone.
DecodePlain(r) == IF r.z = 0 THEN <<0, 1>> ELSE <<r.z, (r.x + 1) * r.z + r.y>>

Decode(r) ==
  IF r.z = 0 THEN <<0, 1>>
  ELSE LET a == (r.x + 1) * r.z + r.y IN <<IF r.yn1 THEN a - r.z ELSE r.z, a>>

------------------------------------------------------------------------------
\* pick_frac, over fractions <<numerator, denominator>>.
AtMost(p, q) == p[1] * q[2] <= q[1] * p[2]
Below(p, q) == p[1] * q[2] < q[1] * p[2]
Same(p, q) == p[1] * q[2] = q[1] * p[2]

AtMostLast(x, a) == IF x > a - 1 THEN a - 1 ELSE x
FloorOf(t, a) == <<AtMostLast((t[1] * a) \div t[2], a), a>>
CeilOf(t, a) == <<AtMostLast((t[1] * a + t[2] - 1) \div t[2], a), a>>

Narrowed(c, t, a) ==
  [lo |-> IF AtMost(FloorOf(t, a), t) /\ Below(c.lo, FloorOf(t, a)) THEN FloorOf(t, a) ELSE c.lo,
   hi |-> IF AtMost(t, CeilOf(t, a)) /\ Below(CeilOf(t, a), c.hi) THEN CeilOf(t, a) ELSE c.hi]

Widest == [lo |-> <<0, 1>>, hi |-> <<1, 1>>]

\* The bracket once the denominators up to most have been tried.
BracketUpTo(t, most) ==
  LET bracket[a \in 1..most] == IF a = 1 THEN Widest ELSE Narrowed(bracket[a - 1], t, a)
  IN  bracket[most]

\* Mutant: the last denominator is not tried.
BracketShort(t) == BracketUpTo(t, MaxDen - 1)

Bracket(t) == BracketUpTo(t, MaxDen)

\* duty = (t - lo) / (hi - lo), in the nearest number of Quantum-ths.
Duty(t, c) ==
  LET part == (t[1] * c.lo[2] - c.lo[1] * t[2]) * c.hi[2]
      gap  == (c.hi[1] * c.lo[2] - c.lo[1] * c.hi[2]) * t[2]
  IN  (2 * part * Quantum + gap) \div (2 * gap)

------------------------------------------------------------------------------
\* set_trim_ppm with a target that is reached: dithered, or one value for good.
SetTrim(t) ==
  LET c == Bracket(t)
      one == IF Same(c.lo, t) THEN c.lo ELSE c.hi
  IN  /\ IF Same(c.lo, t) \/ Same(c.hi, t)
         THEN /\ dither' = [dither EXCEPT !.on = FALSE, !.target = t]
              /\ register' = Encode(one[1], one[2])
         ELSE /\ dither' = [on |-> TRUE, target |-> t, lo |-> c.lo, hi |-> c.hi, duty |-> Duty(t, c)]
              /\ UNCHANGED register
      /\ UNCHANGED <<acc, owed>>

\* Mutant: the carry is taken a tick late.
CarriesLate(total) == total > Quantum

Carries(total) == total >= Quantum

\* tick, and sigma_delta_step in it.
Tick ==
  /\ dither.on
  /\ LET total == acc + dither.duty
         hi == Carries(total)
         end == IF hi THEN dither.hi ELSE dither.lo
     IN  /\ acc' = IF hi THEN total - Quantum ELSE total
         /\ owed' = owed + dither.duty - (IF hi THEN Quantum ELSE 0)
         /\ register' = Encode(end[1], end[2])
  /\ UNCHANGED dither

LockInit ==
  /\ dither = [on |-> FALSE, target |-> <<0, Grid>>, lo |-> <<0, 1>>, hi |-> <<1, 1>>, duty |-> 0]
  /\ register = Encode(0, 1)
  /\ acc = 0 /\ owed = 0

LockNext == Tick \/ \E n \in Targets : SetTrim(<<n, Grid>>)
LockSpec == LockInit /\ [][LockNext]_lockVars

------------------------------------------------------------------------------
\* Every fraction whose denominator is admitted.
Representable == UNION {{<<b, a>> : b \in 0..a - 1} : a \in 2..MaxDen}

\* Nothing is lost in the fields: the register decodes to an admitted fraction, and to
\* the target itself when that can be represented.
RegisterIsHeld ==
  LET d == Decode(register)
  IN  /\ d[2] \in 1..MaxDen /\ d[1] \in 0..d[2] - 1
      /\ ~dither.on => Same(d, dither.target)

\* No admitted fraction lies between an end of the bracket and the target.
BracketIsTight ==
  dither.on =>
    /\ Below(dither.lo, dither.target) /\ Below(dither.target, dither.hi)
    /\ \A f \in Representable : AtMost(f, dither.lo) \/ AtMost(dither.hi, f)

\* frac_select.h:91: however the duty changes, the ticks given never differ from those
\* asked for by as much as one.
WithinOneTick == -Quantum < owed /\ owed < Quantum

LockTypeOK ==
  /\ dither.on \in BOOLEAN /\ dither.duty \in 0..Quantum
  /\ acc \in 0..Quantum - 1
==============================================================================
