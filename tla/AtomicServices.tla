---------------------------- MODULE AtomicServices ----------------------------
(***************************************************************************)
(* What the service operations promise of the services of a swarm: each    *)
(* change is one operation on the service as it is at that moment, so no   *)
(* operation undoes another that it did not know of.                       *)
(***************************************************************************)
EXTENDS Naturals

CONSTANTS Ids, Images, MaxReplicas, NoSpec

VARIABLE service  (* id -> its spec and the one before, or NoSpec            *)

Replicas == 0..MaxReplicas

Becomes(i, spec) ==
  service' = [service EXCEPT ![i] = [spec |-> spec, prev |-> @.spec]]

Create(i, spec) ==
  /\ service[i] = NoSpec
  /\ service' = [service EXCEPT ![i] = [spec |-> spec, prev |-> NoSpec]]

Remove(i) == service' = [service EXCEPT ![i] = NoSpec]

Deploy(i, image) ==
  Becomes(i, [service[i].spec EXCEPT !.image = image, !.replicas = 1])

Redeploy(i) == Becomes(i, [service[i].spec EXCEPT !.force = @ + 1])

Scale(i, n) ==
  /\ ~service[i].spec.global
  /\ Becomes(i, [service[i].spec EXCEPT !.replicas = n])

Rollback(i) ==
  /\ service[i].prev # NoSpec
  /\ Becomes(i, service[i].prev)

Changed == {i \in Ids : service'[i] # service[i]}

Next ==
  \E i \in Changed :
    \/ \E image \in Images, n \in Replicas, global \in BOOLEAN :
         Create(i, [image |-> image, replicas |-> n, force |-> 0, global |-> global])
    \/ /\ service[i] # NoSpec
       /\ \/ Remove(i) \/ Redeploy(i) \/ Rollback(i)
          \/ \E image \in Images : Deploy(i, image)
          \/ \E n \in Replicas : Scale(i, n)

Spec == [][Next]_service
=============================================================================
