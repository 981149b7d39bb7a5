------------------------------ MODULE Numbering ------------------------------
(***************************************************************************)
(* How the invoices of one issuer get their numbers (create and the two    *)
(* offline handlers of InvoicesService): the next serial number after the  *)
(* latest one, tried again when a unique key objects, or a number the      *)
(* issuer chose.  The number n stands for INV-000n.                        *)
(***************************************************************************)
EXTENDS Naturals, FiniteSets

CONSTANTS
  Clerk,       \* requests of the issuer's logins at one time
  Job,         \* projects the invoices are for
  MaxNumber,   \* bound: numbers in use
  RetryLimit   \* INVOICE_SEQUENCE_RETRY_LIMIT

ASSUME NumberingAssumption == MaxNumber \in Nat \ {0} /\ RetryLimit \in Nat \ {0}

VARIABLES
  issued,   \* rows of invoices: number, serial (0 if chosen by hand), project
  clerk,    \* where each request is
  crowd,    \* history: invoices of other requests inserted since a request began
  met       \* history: requests that ran into a number chosen by hand
numberVars == <<issued, clerk, crowd, met>>

Number == 1 .. MaxNumber
Issued == [number : Number, serial : 0 .. MaxNumber, job : Job]
Clerks == [at : {"idle", "read", "insert", "chosen", "refused"}, job : Job,
           number : 0 .. MaxNumber + 1, tries : 0 .. RetryLimit]

NumberingInit ==
  /\ issued = {}
  /\ clerk \in [Clerk -> {c \in Clerks : c.at = "idle" /\ c.number = 0 /\ c.tries = 0}]
  /\ crowd = [c \in Clerk |-> 0]
  /\ met = {}

Done(r) == [r EXCEPT !.at = "idle", !.number = 0, !.tries = 0]
Go(c, r) == clerk' = [clerk EXCEPT ![c] = r]

\* The unique keys on (issuer, invoiceNumber) and (issuer, serialNumber).
Taken(n) == \E i \in issued : i.number = n
ByHand(n) == \E i \in issued : i.number = n /\ i.serial = 0

LatestSerial ==
  LET serials == {i.serial : i \in issued} \cup {0}
  IN  CHOOSE s \in serials : \A t \in serials : t <= s

File(c, n, s) ==
  /\ issued' = issued \cup {[number |-> n, serial |-> s, job |-> clerk[c].job]}
  /\ crowd' = [d \in Clerk |-> IF d # c /\ crowd[d] < RetryLimit THEN crowd[d] + 1
                               ELSE crowd[d]]

StartSerial(c) ==
  /\ clerk[c].at \in {"idle", "refused"}
  /\ Go(c, [clerk[c] EXCEPT !.at = "read", !.tries = 1])
  /\ crowd' = [crowd EXCEPT ![c] = 0] /\ met' = met \ {c}
  /\ UNCHANGED issued

ReadLatest(c) ==
  /\ clerk[c].at = "read" /\ LatestSerial < MaxNumber
  /\ Go(c, [clerk[c] EXCEPT !.at = "insert", !.number = LatestSerial + 1])
  /\ UNCHANGED <<issued, crowd, met>>

\* Mutant of AfterConflict: tries the number it read once more.
AfterConflictBlind(r) == [r EXCEPT !.at = "insert", !.tries = @ + 1]

AfterConflict(r) == [r EXCEPT !.at = "read", !.tries = @ + 1]

InsertSerial(c) ==
  LET r == clerk[c] IN
  /\ r.at = "insert"
  /\ IF ~Taken(r.number)
     THEN File(c, r.number, r.number) /\ Go(c, Done(r)) /\ UNCHANGED met
     ELSE /\ Go(c, IF r.tries < RetryLimit THEN AfterConflict(r) ELSE [r EXCEPT !.at = "refused"])
          /\ met' = IF ByHand(r.number) THEN met \cup {c} ELSE met
          /\ UNCHANGED <<issued, crowd>>

\* A number chosen by hand is looked up and then inserted, with no second try.
Choose(c, n) ==
  /\ clerk[c].at \in {"idle", "refused"} /\ ~Taken(n)
  /\ Go(c, [clerk[c] EXCEPT !.at = "chosen", !.number = n, !.tries = 0])
  /\ UNCHANGED <<issued, crowd, met>>

InsertChosen(c) ==
  /\ clerk[c].at = "chosen"
  /\ IF Taken(clerk[c].number) THEN UNCHANGED <<issued, crowd>>
     ELSE File(c, clerk[c].number, 0)
  /\ Go(c, Done(clerk[c]))
  /\ UNCHANGED met

\* Deleting a project deletes its invoices: their serial numbers are given out again.
DeleteJob(j) ==
  /\ issued' = {i \in issued : i.job # j}
  /\ UNCHANGED <<clerk, crowd, met>>

NumberingNext ==
  \/ \E c \in Clerk :
       StartSerial(c) \/ ReadLatest(c) \/ InsertSerial(c) \/ InsertChosen(c)
  \/ \E c \in Clerk, n \in Number : Choose(c, n)
  \/ \E j \in Job : DeleteJob(j)

NumberingSpec == NumberingInit /\ [][NumberingNext]_numberVars

(***************************************************************************)
(* Properties.                                                             *)
(***************************************************************************)

\* Every variable has its type.
NumberingTypeOK ==
  /\ issued \subseteq Issued
  /\ clerk \in [Clerk -> Clerks]
  /\ crowd \in [Clerk -> 0 .. RetryLimit]
  /\ met \subseteq Clerk

\* An automatic number is refused for one of two reasons: as many invoices of others as
\* the request has tries came in between, one before each, or it ran into a number chosen
\* by hand.  The latter lasts: the next request reads the same latest serial number and
\* is refused, too, until that invoice is deleted with its project.
RefusedOnlyWhenCrowded ==
  \A c \in Clerk : clerk[c].at = "refused" => crowd[c] >= RetryLimit \/ c \in met
=============================================================================
