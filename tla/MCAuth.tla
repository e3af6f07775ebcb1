-------------------------------- MODULE MCAuth --------------------------------
(***************************************************************************)
(* A small instance of Auth: two registrations of one address, a login,    *)
(* two refreshes and a logout of its token, and two calls of another       *)
(* service with its access token.                                          *)
(***************************************************************************)
EXTENDS Auth, TLC

CONSTANTS r1, r2, l1, f1, f2, o1, u1, u2

AllOpOf == (r1 :> "register") @@ (r2 :> "register") @@ (l1 :> "login") @@ (f1 :> "refresh")
           @@ (f2 :> "refresh") @@ (o1 :> "logout")
           @@ (u1 :> "use") @@ (u2 :> "use")
SomeOpOf    == [c \in Calls |-> AllOpOf[c]]
SomeTokenOf == [c \in Calls |-> l1]
==============================================================================
