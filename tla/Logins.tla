-------------------------------- MODULE Logins --------------------------------
(* The users the service components share, and the requests the server works on. *)
EXTENDS Naturals, FiniteSets

CONSTANTS
  Login,     \* ids a users row may get
  RootOf,    \* mainUserId ?? id
  KindOf,    \* the role column
  Handler,   \* requests the server works on at one time
  Nobody

ASSUME LoginAssumption ==
  /\ RootOf \in [Login -> Login]
  /\ \A u \in Login : RootOf[RootOf[u]] = RootOf[u] /\ KindOf[RootOf[u]] = KindOf[u]
  /\ Nobody \notin Login
  /\ IsFiniteSet(Handler)

IsSub(u) == RootOf[u] # u
=============================================================================
