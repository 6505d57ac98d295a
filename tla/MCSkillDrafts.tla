--------------------------- MODULE MCSkillDrafts ---------------------------
(* Two drafts of one skill, so that the second supersedes the first.        *)
EXTENDS SkillDrafts

CONSTANT deploy

SameName == [d \in 1..MaxDrafts |-> deploy]
=============================================================================
