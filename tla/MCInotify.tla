------------------------------ MODULE MCInotify ------------------------------
(* Constants of the run of Inotify: two paths to one file and one to another. *)
EXTENDS Inotify, TLC

CONSTANTS pa, pb, pc, f, g

Leads == pa :> f @@ pb :> f @@ pc :> g

==============================================================================
