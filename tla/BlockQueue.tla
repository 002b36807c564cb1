----------------------------- MODULE BlockQueue -----------------------------
(***************************************************************************)
(* What the VirtIO block device promises its driver: requests are taken in *)
(* the order they were made available, each one once, each acts on the     *)
(* disk in one step, and the answers come back in the same order.  VirtIO  *)
(* implements this.                                                        *)
(***************************************************************************)
EXTENDS Sequences

CONSTANTS Descs, Requests, Disks, Datas,
          Reads(_, _),     (* what a request puts into its buffer           *)
          Writes(_, _),    (* the disk after a request                      *)
          IsAnswered(_)    (* malformed requests are dropped                *)

VARIABLES
  disk,
  data,        (* the buffer of each descriptor chain                       *)
  queue,       (* requests to be taken, with their chains                   *)
  taken,       (* the request that has acted and is not answered            *)
  answers      (* chains answered and not collected                         *)

vars == <<disk, data, queue, taken, answers>>

Init ==
  /\ disk \in Disks /\ data \in [Descs -> Datas]
  /\ queue = <<>> /\ taken = <<>> /\ answers = <<>>

Submit ==
  /\ \E d \in Descs, r \in Requests :
       queue' = Append(queue, [desc |-> d, request |-> r])
  /\ UNCHANGED <<disk, data, taken, answers>>

Take ==
  /\ queue # <<>> /\ taken = <<>>
  /\ LET d == Head(queue).desc
         r == Head(queue).request
     IN /\ disk' = Writes(r, disk)
        /\ data' = [data EXCEPT ![d] = Reads(r, <<@, disk>>)]
        /\ taken' = IF IsAnswered(r) THEN <<d>> ELSE <<>>
  /\ queue' = Tail(queue)
  /\ UNCHANGED answers

Answer ==
  /\ taken # <<>>
  /\ answers' = answers \o taken
  /\ taken' = <<>>
  /\ UNCHANGED <<disk, data, queue>>

Collect ==
  /\ answers # <<>>
  /\ answers' = Tail(answers)
  /\ UNCHANGED <<disk, data, queue, taken>>

(* The driver resets the device: what it had not collected is forgotten.    *)
Reset ==
  /\ queue' = <<>> /\ taken' = <<>> /\ answers' = <<>>
  /\ UNCHANGED <<disk, data>>

Next == Submit \/ Take \/ Answer \/ Collect \/ Reset

Spec == Init /\ [][Next]_vars

=============================================================================
