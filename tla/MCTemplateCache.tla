-------------------------- MODULE MCTemplateCache --------------------------
(* Instance of TemplateCache for TLC.                                      *)
EXTENDS TemplateCache

\* An entry with a checksum, and everything may happen; entries without, of which the
\* first instance checks the signature; and without any signature.
MCSetups ==
  {[disturb |-> Disturbance, entry |-> "checksum", check |-> {}],
   [disturb |-> {"publish", "junk", "network"}, entry |-> "signature", check |-> {1}],
   [disturb |-> {"kill", "delete"}, entry |-> "signature", check |-> {1}],
   [disturb |-> {"junk"}, entry |-> "nothing", check |-> {1}]}
=============================================================================
