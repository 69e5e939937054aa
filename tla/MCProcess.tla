------------------------------ MODULE MCProcess ------------------------------
(* A process with everything, with parts, with nothing, and with a         *)
(* configuration that main refuses.                                        *)
EXTENDS Process

Cloud     == {"identity", "workspace", "board", "cleanup"}
Sockets   == Cloud \cup {"local", "collaboration"}
Paid      == Cloud \cup {"asset", "billing"}
Portable  == Cloud \cup {"asset", "transfer"}
RelayOnly == {"identity", "local"}
Refused   == {"identity", "workspace", "board", "transfer"}
SomeConfigurations == {Sockets, Paid, Portable, RelayOnly, Refused, {}}
=============================================================================
