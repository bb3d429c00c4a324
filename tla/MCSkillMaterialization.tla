------------------------ MODULE MCSkillMaterialization ------------------------
(* Instances of SkillMaterialization for TLC. *)
EXTENDS SkillMaterializationInvariants, TLC

CONSTANTS s1, s2, t1, t2, r1, r2, w1, w2

MCSymmetry == Permutations(Requests) \cup Permutations(Workers)

===============================================================================
