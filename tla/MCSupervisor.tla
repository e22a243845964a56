---------------------------- MODULE MCSupervisor ----------------------------
(* device-service's supervisor on a small instance.                        *)
EXTENDS Supervisor

(* What a step may still read: fresh is cleared before run_recovery()      *)
(* waits for it, silent before the machine is Running, and how the last    *)
(* control write ended matters to the properties once Stopped or in Fault. *)
View ==
  <<attached, link, mcu, kfifo, written.val, machine, worker, failed,
    stop_requested, calibrator, buffer, others, process, bounds,
    sv.pc \in {"again", "watch"} /\ fresh,
    (state = "Running" \/ sv.pc \in {"watch", "apply", "publish"}) /\ silent,
    IF state \in {"Stopped", "Fault"} \/ sv.pc \in {"publish", "record"}
    THEN written.res ELSE None>>
=============================================================================
