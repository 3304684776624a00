----------------------------- MODULE AccessPoint -----------------------------
(* The preferred access point (wifi_bssid_select.cpp). The preference is a      *)
(* constraint on the configuration the wifi component associates with, and is   *)
(* dropped when it keeps the device off the air. Left out: the list of options, *)
(* rebuilt from the scans after every step, which always holds the preference.  *)
EXTENDS Naturals

CONSTANTS
  Aps,         \* access points of the network
  Fallback,    \* PIN_FALLBACK_MS, in rounds of the main loop
  NoAp         \* no preference, no constraint, not associated

ASSUME AccessPointAssumption == NoAp \notin Aps /\ Fallback \in Nat

VARIABLES
  picker,      \* desired_, pinned_since_ms_ (0: not waiting) and pin_released_
  sta,         \* wifi: the network is known, the constraint, where it is, dropping
  stored,      \* the preference in flash
  onAir,       \* access points that answer
  calm,        \* nobody and nothing disturbs the device any more
  strandedFor, \* history: rounds for which one choice has kept the device off the air
  orphaned     \* history: the link that was lost last was the preferred one

apVars == <<picker, sta, stored, onAir, calm, strandedFor, orphaned>>

Connected == sta.at # NoAp

------------------------------------------------------------------------------
\* retry_connect leaves the access point at once and reports the loss later.
Retried(s) ==
  IF s.at # NoAp /\ s.at # s.pin THEN [s EXCEPT !.at = NoAp, !.dropping = TRUE] ELSE s

Armed(p, s) == p.desired # NoAp /\ ~p.released /\ s.known

\* Mutant: the constraint waits for the next connection.
LockedNextTime(p, s) == [s EXCEPT !.pin = IF Armed(p, s) THEN p.desired ELSE NoAp]

\* apply_lock_: before the first connection there are only credentials to lose.
Locked(p, s) ==
  IF Armed(p, s) THEN Retried([s EXCEPT !.pin = p.desired]) ELSE [s EXCEPT !.pin = NoAp]

\* Mutant: the wait is only begun by a person's choice.
NotWaiting(p, s) == p

Waiting(p, s) ==
  IF Armed(p, s) /\ Locked(p, s).at = NoAp /\ p.since = 0 THEN [p EXCEPT !.since = 1] ELSE p

ApplyLock(p, s) == picker' = Waiting(p, s) /\ sta' = Locked(p, s)

Controlled(ap) == [desired |-> ap, since |-> 0, released |-> FALSE]

\* A person picks an access point, or "Automatic".
Control(ap) ==
  /\ ApplyLock(Controlled(ap), sta)
  /\ stored' = ap /\ orphaned' = FALSE /\ strandedFor' = 0
  /\ UNCHANGED <<onAir, calm>>

------------------------------------------------------------------------------
\* on_wifi_connect_state with a network.
Associate(ap) ==
  /\ ~Connected /\ ~sta.dropping
  /\ ap \in onAir /\ sta.pin \in {NoAp, ap}
  /\ ApplyLock([picker EXCEPT !.since = 0], [sta EXCEPT !.at = ap, !.known = TRUE])
  /\ strandedFor' = 0 /\ orphaned' = FALSE
  /\ UNCHANGED <<stored, onAir, calm>>

\* on_wifi_connect_state without one: the preference is armed again.
Disconnected(s) ==
  IF picker.released
  THEN ApplyLock([picker EXCEPT !.released = FALSE, !.since = 0], s)
  ELSE UNCHANGED picker /\ sta' = s

ReportLoss ==
  /\ sta.dropping
  /\ Disconnected([sta EXCEPT !.dropping = FALSE])
  /\ UNCHANGED <<stored, onAir, calm, strandedFor, orphaned>>

------------------------------------------------------------------------------
\* release_pin_: the preference is kept, its constraint is not.
Release ==
  /\ picker' = [picker EXCEPT !.released = TRUE, !.since = 0]
  /\ sta' = [sta EXCEPT !.pin = NoAp]

Wait == picker' = [picker EXCEPT !.since = @ + 1] /\ UNCHANGED sta

Watching == picker.desired # NoAp /\ ~picker.released /\ picker.since # 0

\* Mutant: the constraint is never given up.
NeverOverdue(p) == FALSE

Overdue(p) == p.since > Fallback

\* A round of loop().
Round ==
  /\ \/ ~Watching /\ UNCHANGED <<picker, sta>>
     \/ Watching /\ Connected /\ picker' = [picker EXCEPT !.since = 0] /\ UNCHANGED sta
     \/ Watching /\ ~Connected /\ Overdue(picker) /\ Release
     \/ Watching /\ ~Connected /\ ~Overdue(picker) /\ Wait
  /\ strandedFor' = IF Connected \/ sta'.pin = NoAp THEN 0
                    ELSE IF strandedFor <= Fallback + 1 THEN strandedFor + 1 ELSE strandedFor
  /\ UNCHANGED <<stored, onAir, calm, orphaned>>

------------------------------------------------------------------------------
\* The air: access points come and go, the link breaks, the device restarts.
Appear(ap) ==
  /\ onAir' = onAir \union {ap}
  /\ UNCHANGED <<picker, sta, stored, calm, strandedFor, orphaned>>

Lost ==
  /\ Disconnected([sta EXCEPT !.at = NoAp])
  /\ orphaned' = (sta.pin = sta.at)

Vanish(ap) ==
  /\ onAir' = onAir \ {ap}
  /\ IF sta.at = ap THEN Lost ELSE UNCHANGED <<picker, sta, orphaned>>
  /\ UNCHANGED <<stored, calm, strandedFor>>

LoseLink ==
  /\ Connected /\ Lost
  /\ UNCHANGED <<stored, onAir, calm, strandedFor>>

Fresh == [known |-> FALSE, pin |-> NoAp, at |-> NoAp, dropping |-> FALSE]
Restored(ap) == [desired |-> ap, since |-> 0, released |-> FALSE]

\* setup(): the constraint is applied once a network is known.
Reboot ==
  /\ picker' = Restored(stored) /\ sta' = Fresh
  /\ strandedFor' = 0 /\ orphaned' = FALSE
  /\ UNCHANGED <<stored, onAir, calm>>

Disturb ==
  /\ ~calm
  /\ \/ \E ap \in Aps \union {NoAp} : Control(ap)
     \/ \E ap \in Aps : Appear(ap) \/ Vanish(ap)
     \/ LoseLink \/ Reboot

CalmAir ==
  /\ ~calm /\ calm' = TRUE
  /\ UNCHANGED <<picker, sta, stored, onAir, strandedFor, orphaned>>

Join == \E ap \in Aps : Associate(ap)

ApInit ==
  /\ stored = NoAp /\ picker = Restored(NoAp) /\ sta = Fresh
  /\ onAir = Aps /\ calm = FALSE
  /\ strandedFor = 0 /\ orphaned = FALSE

ApNext == Disturb \/ CalmAir \/ Join \/ Round \/ ReportLoss

------------------------------------------------------------------------------
ApTypeOK ==
  /\ picker \in [desired : Aps \union {NoAp}, since : 0..Fallback + 1, released : BOOLEAN]
  /\ sta \in [known : BOOLEAN, pin : Aps \union {NoAp}, at : Aps \union {NoAp},
             dropping : BOOLEAN]
  /\ stored \in Aps \union {NoAp} /\ onAir \subseteq Aps
  /\ orphaned \in BOOLEAN /\ strandedFor \in 0..Fallback + 2

\* Once the network is known, the constraint is the preference until it has timed
\* out and again after the next loss; a link elsewhere is always a fallback.
PreferenceInForce ==
  sta.known =>
    /\ sta.pin = IF picker.desired # NoAp /\ ~picker.released THEN picker.desired ELSE NoAp
    /\ Connected => picker.desired \in {NoAp, sta.at} \/ picker.released

\* A missing access point does not keep the device off a network that answers:
\* left alone the device is connected for good, after whatever happened before,
\* unless the preferred access point vanished from under the device.
EndsConnected == <>[](calm /\ onAir # {}) => <>[](Connected \/ orphaned)

\* wifi_bssid_select.h:75, "Track how long we have been pinned-but-disconnected and
\* drop the constraint past a timeout": no constraint keeps the device off the air
\* for longer, unless the link it lost was the preferred one.
ConstraintTimesOut == orphaned \/ strandedFor <= Fallback + 1
==============================================================================
