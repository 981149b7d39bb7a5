------------------------------ MODULE MCInvoices ------------------------------
(* An instance of Invoices: a vendor and a company, each with a sub-user.  A   *)
(* behaviour has three of the logins, chosen at the start, so that the races   *)
(* of both sides are covered without multiplying them with each other, and one *)
(* gateway order where a single login of the company may pay.                  *)
EXTENDS InvoiceLists

CONSTANTS co, cosub, rig, rigsub

VARIABLE team
teamVars == <<team, vars>>

MCMainOf == [l \in Login |-> CASE l = cosub -> co [] l = rigsub -> rig [] OTHER -> l]

TeamInit == Init /\ team \in {Login \ {cosub}, Login \ {rigsub}}
TeamNext ==
  /\ (\E l \in team : LoginStep(l)) \/ (\E o \in Order : GatewayStep(o))
  /\ cosub \in team \/ \A o \in Order : orders'[o] # NoOrder => o = CHOOSE p \in Order : TRUE
  /\ UNCHANGED team
TeamSpec ==
  /\ TeamInit /\ [][TeamNext]_teamVars
  /\ \A o \in Order : Answered(o)
=============================================================================
