----------------------------- MODULE Substitution -----------------------------
(***************************************************************************)
(* What failover promises (the head of failover.rs, 3-11), without clocks, *)
(* receivers and restarts: at any time one selection and one version of    *)
(* the settings are acted on; what is on air is that selection, or, if     *)
(* those settings name one for it, its fallback; and a change of either is *)
(* acted on as a whole.  Failover, the supervisor, implements this.        *)
(***************************************************************************)

CONSTANTS Source, None, Configs

VARIABLES
  intent,      \* what the operator has selected
  cfg,         \* the settings that are saved
  want,        \* the selection that is acted on
  plan,        \* the settings that are acted on
  source,      \* what is on air
  substituted  \* what is on air stands in for the selection

avars == <<intent, cfg, want, plan, source, substituted>>

\* A fallback can stand in for s: there is one, it is on, and it is not s itself.
Armed(c, s) == c.enabled /\ s # None /\ c.fallback \notin {None, s}

AInit ==
  /\ intent = None /\ want = None /\ source = None /\ substituted = FALSE
  /\ cfg \in Configs /\ plan = cfg

Choose(s) == intent' = s /\ UNCHANGED <<cfg, want, plan, source, substituted>>
Save(c)   == cfg' = c /\ UNCHANGED <<intent, want, plan, source, substituted>>

\* The selection is acted on as it is now.  What is on air stays until the settings
\* have been looked at.
Take == want' = intent /\ UNCHANGED <<intent, cfg, plan, source, substituted>>

ShowSelection == source' = want /\ substituted' = FALSE

\* So are the settings; if they offer no fallback for the selection, it is shown.
Adopt ==
  /\ plan' = cfg
  /\ IF Armed(cfg, want) THEN UNCHANGED <<source, substituted>> ELSE ShowSelection
  /\ UNCHANGED <<intent, cfg, want>>

Show == Armed(plan, want) /\ ShowSelection /\ UNCHANGED <<intent, cfg, want, plan>>

\* Only the selection that is acted on is ever stood in for, and only while it is shown.
Substitute ==
  /\ Armed(plan, want) /\ source = want /\ ~substituted
  /\ source' = plan.fallback /\ substituted' = TRUE
  /\ UNCHANGED <<intent, cfg, want, plan>>

ANext ==
  \/ \E s \in Source \cup {None} : Choose(s)
  \/ \E c \in Configs : Save(c)
  \/ Take \/ Adopt \/ Show \/ Substitute

ASpec == AInit /\ [][ANext]_avars
=============================================================================
