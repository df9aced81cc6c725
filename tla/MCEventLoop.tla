---------------------------- MODULE MCEventLoop -----------------------------
(* Constants of the runs of EventLoop: an immediate, a timer, two timers that *)
(* do not keep the process running, and the timer of poll.wait, of 1000 ms in *)
(* the code.                                                                  *)
EXTENDS EventLoop, TLC

CONSTANTS imm, two, bg1, bg2, wait1

Immediate  == [kind |-> "immediate", after |-> 0]
Timeout(n) == [kind |-> "timeout", after |-> n]

Timers ==
    imm :> Immediate @@ two :> Timeout(2) @@ bg1 :> Timeout(1) @@ bg2 :> Timeout(1)
       @@ wait1 :> Timeout(3)

=============================================================================
