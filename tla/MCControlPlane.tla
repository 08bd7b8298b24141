---------------------------- MODULE MCControlPlane ----------------------------
(* A small instance of ControlPlane.  Sellers, threads and logins are only *)
(* compared with one another.                                              *)
EXTENDS ControlPlane, TLC

Symmetry == Permutations(Sellers) \cup Permutations(Threads) \cup Permutations(Logins)

\* The status of the shop's row is shown to its owner and read by no step.
View ==
    <<workload, jobs, [account EXCEPT !.status = "ready"], files, lease, logins, tasks,
      spent, history, opsVars, userVars, probeVars>>
===============================================================================
