----------------------------- MODULE MCSkeletons -----------------------------
\* The instance of Skeletons that TLC checks: its constants are model values,
\* given in Skeletons.cfg.
EXTENDS Skeletons
=============================================================================
