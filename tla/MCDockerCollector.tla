--------------------------- MODULE MCDockerCollector ---------------------------
(* DockerCollector for TLC: containers are interchangeable. *)
EXTENDS DockerCollector, TLC

Symmetry == Permutations(Containers)

================================================================================
