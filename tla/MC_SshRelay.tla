----------------------------- MODULE MC_SshRelay -----------------------------
(* Model-checking instance of SshRelay. *)
EXTENDS SshRelay

AllOffers == Kinds \X BOOLEAN

\* Both kinds, one with and one without a recorded session.
SomeOffers == {<<"ssh2", TRUE>>, <<"cert", FALSE>>}
=============================================================================
