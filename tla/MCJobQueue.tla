------------------------------ MODULE MCJobQueue ------------------------------
(* Small instances of JobQueue for TLC. *)
EXTENDS JobQueue, TLC

\* One job at a time on every port, the default of DevicePort.
OneJobPerPort == [p \in Port |-> 1]

\* Two at a time, so that two rows can be running when a worker dies.
TwoJobsPerPort == [p \in Port |-> 2]

\* Workers of one device are started alike and differ only in their process
\* id.
WorkerSymmetry == Permutations(Worker)
=============================================================================
