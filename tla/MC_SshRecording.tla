---------------------------- MODULE MC_SshRecording ----------------------------
(* Model-checking instances of SshRecording. *)
EXTENDS SshRecording

RecordedShells == {<<"ssh2", TRUE>>}

\* Few statements are in flight at a time, and clients just end (an error is an
\* end that runs cleanup() twice; SshRelay's own run has both).
QuietNetwork == /\ Cardinality(pending) <= 2
              /\ \A n \in Attempts : client[n] # "errored"
=============================================================================
