--------------------------- MODULE TokenFamilies ---------------------------
(***************************************************************************)
(* What refresh-token rotation promises of a token family: at any time one *)
(* token of the family at most can be used, using it hands the right over  *)
(* to a token that was never usable before, and a family that has ended    *)
(* stays ended.  A family is named after its first token.                  *)
(***************************************************************************)
CONSTANTS Ids         \* stored token records, each written once

VARIABLES usable,     \* the tokens of a family that can be used
          spent       \* records that are or have been usable

famVars == <<usable, spent>>

FamiliesInit ==
    /\ usable = [f \in Ids |-> {}]
    /\ spent = {}

Begin(f) == f \notin spent /\ usable'[f] = {f}

HandOver(f) == usable[f] # {} /\ \E n \in Ids \ spent : usable'[f] = {n}

End(f) == usable'[f] = {}

FamiliesNext ==
    /\ \A f \in Ids : usable'[f] = usable[f] \/ Begin(f) \/ HandOver(f) \/ End(f)
    /\ spent' = spent \cup UNION {usable'[f] : f \in Ids}

FamiliesSpec == FamiliesInit /\ [][FamiliesNext]_famVars
=============================================================================
