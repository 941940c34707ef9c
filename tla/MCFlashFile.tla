----------------------------- MODULE MCFlashFile -----------------------------
(***************************************************************************)
(* Values of FlashFile's constants for TLC.                                *)
(***************************************************************************)
EXTENDS FlashFile, TLC

\* flashFileBlockLimite, scaled down: one file of two or three blocks
LimitTwo   == 0 :> 2
LimitThree == 0 :> 3

\* a record every second and a power cut, or seconds without a record
Regular  == [steps |-> {1}, until |-> 20, restarts |-> 1]
Longer   == [steps |-> {1}, until |-> 40, restarts |-> 1]
Gaps     == [steps |-> {1, 2, 3}, until |-> 20, restarts |-> 0]
FewGaps  == [Gaps EXCEPT !.until = 6]

BothUses    == {Longer, Gaps}
RegularUse  == {Regular}
FewGapsUse  == {FewGaps}

\* what next_time_tag_offset reads as where no tag is
AnyNext == {-1, 1, 3, 5}

\* What the theorems of FlashFile assume of the files and of their use.
ASSUME OneFileAssumption == OneFile /\ OneRestart /\ RestartSecond
=============================================================================
