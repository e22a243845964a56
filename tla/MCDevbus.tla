------------------------------ MODULE MCDevbus ------------------------------
(* Small instances of Devbus.                                              *)
EXTENDS Devbus, TLC

CONSTANTS s1, s2, p1, p2

Symmetry == Permutations(Slots) \cup Permutations(Subs)

(* Chunks are interchangeable, so it is enough to look at the behaviours   *)
(* in which loan() takes the least free one.                               *)
LeastFree ==
  \A c \in loans' \ loans : \A d \in Chunks : free[d] > 0 => c <= d

(* Two kinds of left-over data no step depends on are left out of a        *)
(* state's identity: the sequence number in a chunk nobody references      *)
(* (send() rewrites it first), and a ring cell outside tail .. head - 1 (a *)
(* subscriber that reads one loses its CAS).                               *)
View ==
  <<state, pid, overflow, data_head, data_tail, done, sleeping, publisher_waiting,
    dropped, header, pool, loans, next_seq, roster, pub, sub,
    [c \in Chunks |-> IF refcount[c] > 0 \/ c = pub.cur THEN chunk_seq[c] ELSE 0],
    [s \in Slots |-> [i \in data_tail[s] .. data_head[s] - 1 |-> data_ring[s][Cell(i)]]]>>
=============================================================================
