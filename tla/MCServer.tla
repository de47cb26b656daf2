------------------------------ MODULE MCServer ------------------------------
(* Server on small instances: a few configurations with two backends that  *)
(* an operator might go through, valid or not.                             *)
EXTENDS Server

CONSTANTS b1, b2

Base == [backend |-> None, allowed |-> {}, cwd |-> None, cwdOf |-> [b \in Backends |-> None],
         isolation |-> "per_session", gitOK |-> FALSE,
         distill |-> FALSE, distillUrl |-> FALSE, resolver |-> "echo"]

MCConfigs ==
  {Base} \cup
  {[Base EXCEPT !.backend = b1, !.allowed = allowed, !.cwd = cwd, !.cwdOf[b2] = own] :
     allowed \in {{}, {b1, b2}}, cwd \in {"plain", None}, own \in {None, "git"}} \cup
  {[Base EXCEPT !.allowed = allowed, !.cwd = "plain", !.distill = TRUE, !.distillUrl = TRUE,
                !.resolver = IF allowed = {b1} THEN "echo" ELSE "distill"] :
     allowed \in {{b1}, {b1, b2}}} \cup
  {[Base EXCEPT !.backend = b1, !.allowed = {b1, b2}, !.cwd = "git", !.gitOK = TRUE],
   [Base EXCEPT !.backend = b1, !.allowed = {b1, b2}, !.cwdOf[b1] = "plain"],
   [Base EXCEPT !.backend = b1, !.allowed = {b2}, !.cwd = "plain"]}
=============================================================================
