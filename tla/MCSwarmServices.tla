--------------------------- MODULE MCSwarmServices ---------------------------
EXTENDS SwarmServices, TLC

CONSTANTS web, agent, shop, jobs

(* The shop has a replicated and a global service; the compose file of jobs *)
(* has none.                                                                *)
StacksOfNames == web :> shop @@ agent :> shop

Symmetry == Permutations(Requests) \union Permutations(Ids) \union Permutations(Images)

(* Bounds: a deploy has its file written and read, and two requests of the  *)
(* CLI run at once, only while nothing has been written to the engine's     *)
(* store yet.                                                               *)
Ops == {req[r].op : r \in Requests}
WritingFile == \E r \in Requests : req[r].pc \in {"open", "fill", "cli"}
SmallMix ==
  Ops = {"deploy"} \/ "removeStack" \in Ops \/ WritingFile => index = 0
=============================================================================
